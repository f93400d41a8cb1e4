---------------------------- MODULE Constitution ----------------------------
(***************************************************************************)
(* evaluate_constitution: the axioms a contract asks for, checked against  *)
(* an execution context.  A context is a record with                       *)
(*   agent, task   present or not (BOOLEAN: the value is not None)         *)
(*   allowed       the task of the context is one of allowed_tasks         *)
(*   authorized, schema_valid                                              *)
(*   provenance    "missing", "incomplete" or "complete"                   *)
(*   quality       the score of the result is at least 0.5                 *)
(***************************************************************************)
EXTENDS FiniteSets

HardAxioms == {"authorization", "schema", "provenance"}

\* An empty list of axioms asks for every hard one; a name that is not known is ignored.
Requested(axioms) == IF axioms = {} THEN HardAxioms ELSE axioms

\* "PASS", "FAIL" or "UNKNOWN" for one hard axiom.
HardVerdict(axiom, ctx) ==
    CASE axiom = "authorization" ->
            IF ~(ctx.agent /\ ctx.task) THEN "UNKNOWN"
            ELSE IF ctx.allowed \/ ctx.authorized THEN "PASS" ELSE "FAIL"
      [] axiom = "schema" -> IF ctx.schema_valid THEN "PASS" ELSE "FAIL"
      [] axiom = "provenance" ->
            IF ctx.provenance = "missing" THEN "UNKNOWN"
            ELSE IF ctx.provenance = "complete" THEN "PASS" ELSE "FAIL"

\* The precedence of the verdicts: hard failures, then the soft axiom.
EvaluateConstitution(axioms, ctx) ==
    IF \E a \in Requested(axioms) \cap HardAxioms : HardVerdict(a, ctx) # "PASS"
    THEN "FAILED_CLOSED"
    ELSE IF "quality" \in axioms /\ ~ctx.quality THEN "REVISE" ELSE "PASS"
=============================================================================
