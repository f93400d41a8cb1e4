------------------------------ MODULE Harness ------------------------------
(***************************************************************************)
(* The executor of the constraint harness: one Executor object, its state  *)
(* machine with the table of legal transitions, and run(), which parses a  *)
(* contract, asks the constitution, builds the DAG, hands it to the        *)
(* scheduler and judges the outcome.  run() may be called again on the     *)
(* same object: the state machine is not reset.                            *)
(***************************************************************************)
EXTENDS Scheduler, Constitution

CONSTANTS
    Sources,    \* the MXML texts callers may pass
    NoSource,   \* no call is being served
    MaxCalls    \* bound: calls of run() on the object

ASSUME SourcesAssumption ==
    NoSource \notin Sources /\ \A src \in Sources : src.limits.max_workers \in Int

VARIABLES
    sm,         \* StateMachine.current
    trail,      \* StateMachine.history, as the states gone through
    revisions,  \* StateMachine.revision_count
    doc,        \* the source of the call being served, or NoSource
    authorized, \* its authorized argument
    calls,      \* calls made
    report      \* how the last call ended: a status, or the exception that escaped

execVars == <<sm, trail, revisions, doc, authorized, calls, report>>
harnessVars == <<schedVars, execVars>>

States == {"RECEIVE", "PARSE", "CONSTITUTION_CHECK", "DECOMPOSE", "ROUTE", "DISPATCH",
           "SUPERVISE", "VALIDATE", "CROSS_CHECK", "SYNTHESIZE", "FINALIZE", "RETURN",
           "REVISE", "FAILED_CLOSED"}

\* LEGAL_TRANSITIONS
Forward ==
    [RECEIVE |-> {"PARSE"}, PARSE |-> {"CONSTITUTION_CHECK"},
     CONSTITUTION_CHECK |-> {"DECOMPOSE", "REVISE"}, DECOMPOSE |-> {"ROUTE"},
     ROUTE |-> {"DISPATCH"}, DISPATCH |-> {"SUPERVISE"}, SUPERVISE |-> {"VALIDATE"},
     VALIDATE |-> {"CROSS_CHECK", "REVISE"}, CROSS_CHECK |-> {"SYNTHESIZE", "REVISE"},
     SYNTHESIZE |-> {"FINALIZE"}, FINALIZE |-> {"RETURN"},
     REVISE |-> {"CONSTITUTION_CHECK", "DISPATCH"}]

LegalTransitions(from) ==
    IF from \in {"RETURN", "FAILED_CLOSED"} THEN {} ELSE Forward[from] \cup {"FAILED_CLOSED"}

CanTransition(from, to) == to \in LegalTransitions(from)

\* The state a path of transitions leads to, and whether the table allows the path.
LastOf(from, path) == IF path = <<>> THEN from ELSE path[Len(path)]

LegalFrom(from, path) ==
    \A i \in DOMAIN path : CanTransition(IF i = 1 THEN from ELSE path[i - 1], path[i])

\* StateMachine.transition, several times over: the history grows, then current follows.
Transition(path) ==
    /\ trail' = trail \o path
    /\ sm' = LastOf(sm, path)
    /\ revisions' = revisions + Cardinality({i \in DOMAIN path : path[i] = "REVISE"})

-----------------------------------------------------------------------------
\* The call is over: its document, DAG and pool are dropped with the frame.
Ends(status) ==
    /\ report' = status
    /\ doc' = NoSource
    /\ stage' = "idle"
    /\ UNCHANGED <<calls, authorized, edges, workers, completed, results,
                   remaining, wave, poolVars, late>>

\* Variant: the except clause does not ask the table.
FailsAlways(path) == Transition(Append(path, "FAILED_CLOSED")) /\ Ends("FAILED_CLOSED")


\* The except clause: FAILED_CLOSED where the table allows it, silence where it does not.
FailsClosed(path) ==
    /\ Transition(IF CanTransition(LastOf(sm, path), "FAILED_CLOSED")
                  THEN Append(path, "FAILED_CLOSED") ELSE path)
    /\ Ends("FAILED_CLOSED")

Call(src, auth) ==
    /\ doc = NoSource /\ calls < MaxCalls
    /\ doc' = src /\ authorized' = auth /\ calls' = calls + 1
    /\ UNCHANGED <<schedVars, sm, trail, revisions, report>>

Serving == doc # NoSource /\ stage = "idle"

\* The context of the constitution; the agent and the task "*" are never None.
Context(provenance) ==
    [agent |-> TRUE, task |-> TRUE, allowed |-> "*" \in Ids(doc.tasks),
     authorized |-> authorized, schema_valid |-> TRUE,
     provenance |-> provenance, quality |-> FALSE]

FirstDecision == EvaluateConstitution({"authorization", "schema"}, Context("incomplete"))

\* The state machine is not where a run begins: the first transition is illegal.
CallRefused ==
    /\ Serving /\ ~CanTransition(sm, "PARSE")
    /\ FailsClosed(<<>>)

DocumentRefused ==
    /\ Serving /\ CanTransition(sm, "PARSE")
    /\ \/ ParseMxml(doc) = "MXMLParseError"
       \/ ParseMxml(doc) = "ok" /\ ~ValidateMxml(doc)
    /\ FailsClosed(<<"PARSE">>)

\* int(revision_limit) fails: no except clause names ValueError.
ValueErrorEscapes ==
    /\ Serving /\ CanTransition(sm, "PARSE")
    /\ ParseMxml(doc) = "ValueError"
    /\ Transition(<<"PARSE">>)
    /\ Ends("ValueError")

Accepted == /\ Serving /\ CanTransition(sm, "PARSE")
            /\ ParseMxml(doc) = "ok" /\ ValidateMxml(doc)

NotAuthorized ==
    /\ Accepted /\ FirstDecision = "FAILED_CLOSED"
    /\ FailsClosed(<<"PARSE", "CONSTITUTION_CHECK">>)

DagRefused ==
    /\ Accepted /\ FirstDecision # "FAILED_CLOSED" /\ ~BuildsDag(Edges(doc))
    /\ FailsClosed(<<"PARSE", "CONSTITUTION_CHECK", "DECOMPOSE">>)

Dispatch ==
    /\ Accepted /\ FirstDecision # "FAILED_CLOSED" /\ BuildsDag(Edges(doc))
    /\ Transition(<<"PARSE", "CONSTITUTION_CHECK", "DECOMPOSE", "ROUTE", "DISPATCH">>)
    /\ StartRun(Edges(doc), doc.limits.max_workers)
    /\ UNCHANGED <<doc, authorized, calls, report>>

\* The scheduler and its pool, between DISPATCH and the outcome.
Framed(A) == A /\ UNCHANGED execVars

\* SUPERVISE, VALIDATE and the second decision, on the axioms of the document.
SecondDecision == EvaluateConstitution(doc.axioms, Context("complete"))

Judge ==
    /\ stage = "returned"
    /\ \/ /\ SecondDecision = "FAILED_CLOSED"
          /\ Transition(<<"SUPERVISE", "VALIDATE", "FAILED_CLOSED">>)
          /\ Ends("FAILED_CLOSED")
       \/ /\ SecondDecision = "REVISE" /\ revisions >= doc.limits.max_revisions
          /\ Transition(<<"SUPERVISE", "VALIDATE", "FAILED_CLOSED">>)
          /\ Ends("FAILED_CLOSED")
       \/ /\ SecondDecision = "REVISE" /\ revisions < doc.limits.max_revisions
          /\ Transition(<<"SUPERVISE", "VALIDATE", "REVISE">>)
          /\ Ends("REVISE")
       \/ /\ SecondDecision = "PASS"
          /\ Transition(<<"SUPERVISE", "VALIDATE", "CROSS_CHECK", "SYNTHESIZE", "FINALIZE", "RETURN">>)
          /\ Ends("SUCCESS")

\* TimeoutError of as_completed goes through run(): the machine stays in DISPATCH.
TimeoutEscapes ==
    /\ stage = "raised"
    /\ Transition(<<>>)
    /\ Ends("TimeoutError")

ExecNext == \/ CallRefused \/ DocumentRefused \/ ValueErrorEscapes \/ NotAuthorized
            \/ DagRefused \/ Dispatch \/ Judge \/ TimeoutEscapes

HarnessNext == \/ \E src \in Sources, auth \in BOOLEAN : Call(src, auth)
               \/ ExecNext
               \/ Framed(SchedNext)

HarnessInit ==
    /\ SchedInit
    /\ sm = "RECEIVE" /\ trail = <<>> /\ revisions = 0
    /\ doc = NoSource /\ authorized = FALSE /\ calls = 0
    /\ report = "none"

(***************************************************************************)
(* The caller's thread runs on, and a thread of the pool that has a task   *)
(* runs it: the stub commands of execute_one always return.  Time limits   *)
(* and callers owe nothing.                                                *)
(***************************************************************************)
HarnessFairness ==
    /\ WF_harnessVars(ExecNext)
    /\ WF_harnessVars(Framed(LoopNext))
    /\ WF_harnessVars(Framed(PoolNext))

(***************************************************************************)
(* The history is a path of the table of legal transitions that ends where *)
(* the machine stands: run() asks for an illegal transition only when it   *)
(* is called again, and that attempt leaves no event behind.               *)
(***************************************************************************)
TrailLegal == LegalFrom("RECEIVE", trail) /\ sm = LastOf("RECEIVE", trail)

ExecTypes ==
    /\ sm \in States /\ trail \in Seq(States) /\ revisions \in Nat
    /\ doc \in Sources \cup {NoSource} /\ authorized \in BOOLEAN
    /\ stage # "idle" => sm = "DISPATCH" /\ doc \in Sources

(***************************************************************************)
(* The inductive invariant of the executor with its scheduler.             *)
(***************************************************************************)
HarnessInv == SchedInv /\ ExecTypes /\ TrailLegal

\* Every call of run() ends, by a result or by an exception.
EveryRunEnds == doc # NoSource ~> doc = NoSource

HarnessSpec == HarnessInit /\ [][HarnessNext]_harnessVars /\ HarnessFairness
=============================================================================
