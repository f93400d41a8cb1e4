--------------------------- MODULE MCSwitchboard ---------------------------
(* The switchboard with two threads and one request for each way to go on. *)
EXTENDS Switchboard

CONSTANTS t1, t2

Request(finance, engineering, orchestration, transfer) ==
    [hits |-> [finance |-> finance, engineering |-> engineering, orchestration |-> orchestration],
     transfer |-> transfer]

\* A payment that is as much an engineer's, and small talk.
MCRequests == {Request(1, 1, 0, TRUE), Request(0, 0, 0, FALSE)}
=============================================================================
