--------------------------- MODULE MCFinanceTwin ---------------------------
(* Two threads on one engine, and two processes with an engine each. The    *)
(* commands open two accounts, move money between them, take it back, and   *)
(* include an amount that rounds up and one the rules refuse.               *)
EXTENDS FinanceTwin, TLC

CONSTANTS t1, t2, proc1, proc2

OneProcess == {proc1}
TwoProcesses == {proc1, proc2}
TwoThreads == {t1, t2}
Together == [t \in TwoThreads |-> proc1]
Apart == (t1 :> proc1) @@ (t2 :> proc2)

\* In half quanta: 3 is one and a half quanta, which rounds to two.
Amounts == {0, 3, 6}

Open(a, raw) == [operation |-> "CREATE_ACCOUNT", account |-> a, balance |-> raw]
Pay(id, a, b, raw) ==
    [operation |-> "POST_TRANSACTION", transaction |-> id, from |-> a, to |-> b,
     amount |-> raw]
TakeBack(id) == [operation |-> "REVERSE_TRANSACTION", transaction |-> id]

MoneyCommands ==
    {Open("alice", 6), Open("bob", 0), Pay("tx1", "alice", "bob", 3),
     TakeBack("tx1"), [operation |-> "CREATE_INVOICE", invoice |-> "inv1"],
     Malformed}
=============================================================================
