---------------------------- MODULE MCTwinLedger ----------------------------
(* Two accounts and two transaction ids, with amounts on both sides of every *)
(* limit: refused (negative, above the largest balance), above the largest   *)
(* transaction, and ties that round down and up.                             *)
EXTENDS TwinLedger, TLC

CONSTANTS a1, a2, t1, t2

\* In half quanta, for MaxBalance = 4 and MaxTransaction = 2 quanta.
Amounts == {-1, 1, 2, 3, 5, 6, 9}

Symmetry == Permutations({a1, a2}) \cup Permutations({t1, t2})
=============================================================================
