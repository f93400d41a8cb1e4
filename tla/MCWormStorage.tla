--------------------------- MODULE MCWormStorage ---------------------------
(* Small instances of WormStorage: one process with several threads, and   *)
(* two processes with a thread each, on one storage path.                  *)
EXTENDS WormStorage, TLC

CONSTANTS t1, t2, proc1, proc2

OneProcess == {proc1}
TwoProcesses == {proc1, proc2}
TwoThreads == {t1, t2}
Together == [t \in TwoThreads |-> proc1]
Apart == (t1 :> proc1) @@ (t2 :> proc2)
=============================================================================
