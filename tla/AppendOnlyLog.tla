--------------------------- MODULE AppendOnlyLog ---------------------------
(***************************************************************************)
(* What src/worm.py promises its callers: a log that only ever grows, by   *)
(* one hash-linked record at a time, and an append that answers with its   *)
(* record once, and only when that record is in the log.                   *)
(***************************************************************************)
EXTENDS HashChain

CONSTANT Payloads

VARIABLES
    log,    \* the records in the file
    acked   \* the record hashes append() has returned, in order

logVars == <<log, acked>>

LogInit ==
    /\ log = <<>>
    /\ acked = <<>>

\* A record becomes durable.
Extend(p) ==
    /\ log' = Append(log, MakeRecord(LastHash(log), p))
    /\ UNCHANGED acked

\* The caller learns of a durable record that nobody was told of before.
Acknowledge(i) ==
    /\ \A j \in 1..Len(acked) : acked[j] # log[i].record_hash
    /\ acked' = Append(acked, log[i].record_hash)
    /\ UNCHANGED log

LogNext ==
    \/ \E p \in Payloads : Extend(p)
    \/ \E i \in 1..Len(log) : Acknowledge(i)

LogSpec == LogInit /\ [][LogNext]_logVars
=============================================================================
