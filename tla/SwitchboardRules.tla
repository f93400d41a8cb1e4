-------------------------- MODULE SwitchboardRules --------------------------
(***************************************************************************)
(* What the virtual switchboard computes: the route of a request, the      *)
(* evaluation of its workers' results, the improvement it proposes, the    *)
(* test of a proposal and the patched policy.                              *)
(*                                                                         *)
(* A request is a record: `hits`, how many words of each route's           *)
(* vocabulary it holds, and `transfer`, whether it asks to move money.  A  *)
(* request with a blocked term is refused and does not get here.  Scores   *)
(* are in tenths, confidences in hundredths.  A policy is the part of it   *)
(* that proposals change; everything else keeps its default.  A patch      *)
(* gives 0 to what it does not name.                                       *)
(***************************************************************************)
EXTENDS Integers, FiniteSetsExt

\* The route names, in the order max() meets them.
Catalog == <<"finance", "engineering", "orchestration", "general">>

DefaultPolicy == [version |-> 1, max_iterations |-> 3, bias |-> 0]

Clamp(value, low, high) == IF value < low THEN low ELSE IF value > high THEN high ELSE value

\* Router.score; the vocabulary of "general" is empty, and only its bias is ever set.
Score(policy, req, route) ==
    IF route = "general" THEN policy.bias ELSE 10 * req.hits[route]

\* Router.choose: the first of the best, "general" when nothing matches.
ChooseRoute(policy, req) ==
    LET score(i) == Score(policy, req, Catalog[i])
        best == CHOOSE i \in DOMAIN Catalog :
                    /\ \A j \in DOMAIN Catalog : score(j) <= score(i)
                    /\ \A j \in 1..(i - 1) : score(j) < score(i)
    IN  IF score(best) <= 0 THEN "general" ELSE Catalog[best]

\* Switchboard._worker_names
WorkersOf(route) == {route, "general"}

\* The confidence of each default worker's result.
Confidence(worker, req) ==
    CASE worker = "finance" -> IF req.transfer THEN 82 ELSE 78
      [] worker = "engineering" -> 80
      [] worker = "orchestration" -> 91
      [] worker = "general" -> 45

SideEffect(req, route) == "finance" \in WorkersOf(route) /\ req.transfer

\* The score, times the number of workers: their average, capped for a side effect.
Evaluation(req, route) ==
    LET workers == WorkersOf(route)
        total == MapThenSumSet(LAMBDA w : Confidence(w, req), workers)
        count == Cardinality(workers)
        score == IF SideEffect(req, route) THEN Clamp(total, 0, 79 * count) ELSE total
    IN  [score |-> score \div count, passed |-> score >= 70 * count]

NextAction(req, route) ==
    IF Evaluation(req, route).passed THEN "complete"
    ELSE IF SideEffect(req, route) THEN "approve" ELSE "retry"

NoPatch == [max_iterations |-> 0, bias |-> 0]

\* ImprovementManager.propose; NoPatch when there is nothing to improve.
ProposedPatch(policy, req) ==
    LET route == ChooseRoute(policy, req)
    IN  [max_iterations |-> IF NextAction(req, route) = "retry"
                            THEN Clamp(policy.max_iterations + 1, 0, 8) ELSE 0,
         bias |-> IF /\ ~Evaluation(req, route).passed
                     /\ route = "general" /\ Evaluation(req, route).score < 60
                  THEN 2 ELSE 0]

\* ImprovementManager.test: the tests a proposal carries follow its patch.
PassesTests(patch) == patch.max_iterations # 0 => patch.max_iterations \in 1..8

\* Policy.apply_patch
Patched(policy, patch) ==
    [version |-> policy.version + 1,
     max_iterations |-> IF patch.max_iterations = 0 THEN policy.max_iterations
                        ELSE Clamp(patch.max_iterations, 1, 20),
     bias |-> IF patch.bias = 0 THEN policy.bias ELSE patch.bias]
=============================================================================
