------------------------- MODULE ControlPlaneProofs -------------------------
(***************************************************************************)
(* Theorems about the contract executor with its scheduler and about the   *)
(* sovereign ledger: for every set of sources, every DAG, every pool and any *)
(* number of calls; for every set of goroutines and events, every capacity, *)
(* any number of crashes and failures, and a Merkle tree of any size.      *)
(***************************************************************************)
EXTENDS Harness, SovereignLedger, DataLemmas

-----------------------------------------------------------------------------
(***************************************************************************)
(* The contract executor.                                                  *)
(***************************************************************************)
(* The scheduler: one lemma for the start, one for its steps. *)

\* Starting a run on an acyclic DAG without missing dependencies establishes the invariant.
LEMMA StartKeepsSchedInv ==
    ASSUME NEW e, NEW w \in Int, StartRun(e, w), Acyclic(e),
           \A t \in DOMAIN e : e[t] \subseteq DOMAIN e
    PROVE  SchedInv'
<1>0. results' = NoResults /\ DOMAIN NoResults = {}
  BY DEF StartRun, NoResults
<1>1. SchedTypes'
  <2>1. workers' \in Nat \ {0}
    BY DEF StartRun
  <2> QED
    BY <1>0, <2>1 DEF StartRun, SchedTypes, Stages
<1>2. DagInv'
  BY DEF StartRun, DagInv, Acyclic
<1>3. PoolInv' /\ ResultsInv'
  BY <1>0 DEF StartRun, PoolInv, ResultsInv
<1> QED
  BY <1>1, <1>2, <1>3 DEF SchedInv

\* Some remaining task of a DAG is ready.
LEMMA SomeTaskReady ==
    ASSUME DagInv, remaining # {}
    PROVE  Ready # {}
<1>1. PICK t \in remaining : edges[t] \cap remaining = {}
  BY DEF DagInv, Acyclic
<1>2. edges[t] \subseteq completed
  BY <1>1 DEF DagInv
<1> QED
  BY <1>1, <1>2 DEF Ready, ReadyTasks, DagInv

\* No step of the loop or of the pool breaks the invariant of the scheduler.
LEMMA SchedStep ==
    ASSUME SchedInv, SchedNext
    PROVE  SchedInv'
<1> USE DEF SchedInv, SchedTypes, Stages
<1>1. CASE DeadlinePasses
  BY <1>1 DEF DeadlinePasses, DagInv, PoolInv, ResultsInv, poolVars, Acyclic
<1>2. CASE WaveTimesOut
  BY <1>2 DEF WaveTimesOut, DagInv, PoolInv, ResultsInv, poolVars, Acyclic
<1>3. ASSUME NEW t \in queued \cup running, StartTask(t) PROVE SchedInv'
  BY <1>3 DEF StartTask, DagInv, PoolInv, ResultsInv, Acyclic
<1>4. ASSUME NEW t \in queued \cup running, FinishTask(t) PROVE SchedInv'
  BY <1>4 DEF FinishTask, DagInv, PoolInv, ResultsInv, Acyclic
<1>5. CASE LoopEnds
  BY <1>5 DEF LoopEnds, DagInv, PoolInv, ResultsInv, poolVars, Acyclic
<1>6. CASE LoopTimesOut
  BY <1>6 DEF LoopTimesOut, GiveUp, DagInv, PoolInv, ResultsInv, poolVars, Acyclic
<1>7. CASE LoopBlocks
  BY <1>7, SomeTaskReady DEF LoopBlocks
<1>8. CASE SubmitWave
  BY <1>8 DEF SubmitWave, Ready, ReadyTasks, DagInv, PoolInv, ResultsInv, Acyclic
<1>9. ASSUME NEW t \in wave, Collect(t) PROVE SchedInv'
  <2>1. DagInv'
    BY <1>9 DEF Collect, DagInv, PoolInv, Acyclic
  <2>2. PoolInv'
    BY <1>9 DEF Collect, DagInv, PoolInv, poolVars
  <2>3. ResultsInv'
    BY <1>9 DEF Collect, DagInv, PoolInv, ResultsInv, poolVars
  <2>4. SchedTypes'
    BY <1>9, <2>3 DEF Collect, ResultsInv
  <2> QED
    BY <2>1, <2>2, <2>3, <2>4
<1>10. CASE Drained
  BY <1>10 DEF Drained, DagInv, PoolInv, ResultsInv, poolVars, Acyclic
<1> QED
  BY <1>1, <1>2, <1>3, <1>4, <1>5, <1>6, <1>7, <1>8, <1>9, <1>10
     DEF SchedNext, PoolNext, LoopNext
-----------------------------------------------------------------------------
(* The history of the state machine. *)

\* A legal path followed by a path that is legal from where it ends is legal.
LEMMA Joined ==
    ASSUME NEW p \in Seq(States), NEW q \in Seq(States), NEW s \in States,
           LegalFrom(s, p), LegalFrom(LastOf(s, p), q)
    PROVE  /\ p \o q \in Seq(States)
           /\ LegalFrom(s, p \o q)
           /\ LastOf(s, p \o q) = LastOf(LastOf(s, p), q)
<1> DEFINE r == p \o q
<1>1. r \in Seq(States) /\ Len(r) = Len(p) + Len(q)
  OBVIOUS
<1>2. /\ \A i \in 1..Len(p) : r[i] = p[i]
      /\ \A i \in 1..Len(q) : r[Len(p) + i] = q[i]
  OBVIOUS
<1>3. p = <<>> <=> Len(p) = 0
  OBVIOUS
<1>4. q = <<>> <=> Len(q) = 0
  OBVIOUS
<1>5. r = <<>> <=> Len(r) = 0
  BY <1>1
<1> HIDE DEF r
<1>6. LastOf(s, r) = LastOf(LastOf(s, p), q)
  <2>1. CASE Len(q) = 0
    <3>1. Len(r) = Len(p) /\ LastOf(LastOf(s, p), q) = LastOf(s, p)
      BY <1>1, <1>4, <2>1 DEF LastOf
    <3>2. CASE Len(p) = 0
      BY <1>3, <1>5, <3>1, <3>2 DEF LastOf
    <3>3. CASE Len(p) > 0
      BY <1>2, <1>3, <1>5, <3>1, <3>3 DEF LastOf
    <3> QED
      BY <3>2, <3>3
  <2>2. CASE Len(q) > 0
    BY <1>1, <1>2, <1>4, <1>5, <2>2 DEF LastOf
  <2> QED
    BY <2>1, <2>2
<1>7. ASSUME NEW i \in 1..Len(r)
      PROVE  CanTransition(IF i = 1 THEN s ELSE r[i - 1], r[i])
  <2>0. Len(p) \in Nat /\ Len(q) \in Nat /\ i \in Nat /\ i >= 1 /\ i <= Len(p) + Len(q)
    BY <1>1, <1>7
  <2>1. CASE i <= Len(p)
    <3>1. i \in 1..Len(p) /\ i \in DOMAIN p
      BY <2>0, <2>1
    <3>2. r[i] = p[i]
      BY <1>2, <3>1
    <3>3. CASE i = 1
      BY <3>1, <3>2, <3>3 DEF LegalFrom
    <3>4. CASE i # 1
      <4>1. i - 1 \in 1..Len(p)
        BY <2>0, <2>1, <3>4
      <4>2. r[i - 1] = p[i - 1]
        BY <1>2, <4>1
      <4> QED
        BY <3>1, <3>2, <3>4, <4>2 DEF LegalFrom
    <3> QED
      BY <3>3, <3>4
  <2>2. CASE i > Len(p)
    <3>1. PICK j \in 1..Len(q) : i = Len(p) + j
      <4>1. i - Len(p) \in 1..Len(q) /\ i = Len(p) + (i - Len(p))
        BY <2>0, <2>2
      <4> QED
        BY <4>1
    <3>2. r[i] = q[j] /\ j \in DOMAIN q
      BY <1>2, <3>1
    <3>3. CanTransition(IF j = 1 THEN LastOf(s, p) ELSE q[j - 1], q[j])
      BY <3>2 DEF LegalFrom
    <3>4. CASE j > 1
      <4>1. i - 1 = Len(p) + (j - 1) /\ j - 1 \in 1..Len(q) /\ i # 1 /\ j # 1
        BY <2>0, <3>1, <3>4
      <4>2. r[i - 1] = q[j - 1]
        BY <1>2, <4>1
      <4> QED
        BY <3>2, <3>3, <4>1, <4>2
    <3>5. CASE j = 1
      <4>1. CASE Len(p) = 0
        BY <1>3, <2>0, <3>1, <3>2, <3>3, <3>5, <4>1 DEF LastOf
      <4>2. CASE Len(p) > 0
        <5>1. i # 1 /\ i - 1 = Len(p) /\ Len(p) \in 1..Len(p)
          BY <2>0, <3>1, <3>5, <4>2
        <5>2. r[i - 1] = LastOf(s, p)
          BY <1>2, <1>3, <4>2, <5>1 DEF LastOf
        <5> QED
          BY <3>2, <3>3, <3>5, <5>1, <5>2
      <4> QED
        BY <2>0, <4>1, <4>2
    <3> QED
      BY <3>1, <3>4, <3>5
  <2> QED
    BY <2>0, <2>1, <2>2
<1>8. LegalFrom(s, r)
  <2>1. DOMAIN r = 1..Len(r)
    BY <1>1
  <2> QED
    BY <1>7, <2>1 DEF LegalFrom
<1> QED
  BY <1>1, <1>6, <1>8 DEF r

\* Walking a legal path keeps the history legal.
LEMMA Walked ==
    ASSUME ExecTypes, TrailLegal, NEW path \in Seq(States), LegalFrom(sm, path), Transition(path)
    PROVE  TrailLegal' /\ sm' \in States /\ trail' \in Seq(States) /\ revisions' \in Nat
<1>1. sm' = LastOf(sm, path) /\ trail' = trail \o path
  BY DEF Transition
<1>2. "RECEIVE" \in States
  BY DEF States
<1>3. trail \in Seq(States) /\ LegalFrom("RECEIVE", trail) /\ LegalFrom(LastOf("RECEIVE", trail), path)
  BY DEF ExecTypes, TrailLegal
<1>4. /\ trail \o path \in Seq(States) /\ LegalFrom("RECEIVE", trail \o path)
      /\ LastOf("RECEIVE", trail \o path) = LastOf(LastOf("RECEIVE", trail), path)
  BY <1>2, <1>3, Joined
<1>5. sm' \in States
  BY <1>1 DEF ExecTypes, LastOf
<1>6. revisions' \in Nat
  <2> DEFINE marks == {i \in DOMAIN path : path[i] = "REVISE"}
  <2>1. IsFiniteSet(1..Len(path)) /\ marks \subseteq 1..Len(path)
    BY FS_Interval
  <2>2. Cardinality(marks) \in Nat
    BY <2>1, FS_Subset, FS_CardinalityType
  <2> QED
    BY <2>2 DEF Transition, ExecTypes
<1> QED
  BY <1>1, <1>4, <1>5, <1>6 DEF TrailLegal

\* The paths of run() up to the dispatch, wherever a run may begin.
LEMMA OpeningLegal ==
    ASSUME NEW s \in States, CanTransition(s, "PARSE")
    PROVE  /\ LegalFrom(s, <<"PARSE">>)
           /\ LegalFrom(s, <<"PARSE", "CONSTITUTION_CHECK">>)
           /\ LegalFrom(s, <<"PARSE", "CONSTITUTION_CHECK", "DECOMPOSE">>)
           /\ LegalFrom(s, <<"PARSE", "CONSTITUTION_CHECK", "DECOMPOSE", "ROUTE", "DISPATCH">>)
  BY DEF LegalFrom, CanTransition, LegalTransitions, Forward

\* The paths of run() from the dispatch on.
LEMMA ClosingLegal ==
    /\ LegalFrom("DISPATCH", <<"SUPERVISE", "VALIDATE", "FAILED_CLOSED">>)
    /\ LegalFrom("DISPATCH", <<"SUPERVISE", "VALIDATE", "REVISE">>)
    /\ LegalFrom("DISPATCH",
                 <<"SUPERVISE", "VALIDATE", "CROSS_CHECK", "SYNTHESIZE", "FINALIZE", "RETURN">>)
  BY DEF LegalFrom, CanTransition, LegalTransitions, Forward

-----------------------------------------------------------------------------
(* The executor. *)

\* The end of a call leaves the scheduler's part in order.
LEMMA EndsKeepsSched ==
    ASSUME SchedInv, NEW status, Ends(status), stage \in {"idle", "returned", "raised"}
    PROVE  SchedInv'
<1>1. SchedTypes' /\ DagInv'
  BY DEF Ends, SchedInv, SchedTypes, Stages, DagInv, Acyclic
<1>2. PoolInv' /\ ResultsInv'
  BY DEF Ends, SchedInv, PoolInv, ResultsInv, poolVars
<1> QED
  BY <1>1, <1>2 DEF SchedInv

\* A call that ends after a legal path keeps the whole invariant.
LEMMA EndsAfter ==
    ASSUME HarnessInv, NEW path \in Seq(States), LegalFrom(sm, path), Transition(path),
           NEW status, Ends(status), stage \in {"idle", "returned", "raised"}
    PROVE  HarnessInv'
<1>1. SchedInv'
  BY EndsKeepsSched DEF HarnessInv
<1>2. TrailLegal' /\ sm' \in States /\ trail' \in Seq(States) /\ revisions' \in Nat
  BY Walked DEF HarnessInv
<1>3. ExecTypes'
  BY <1>2 DEF HarnessInv, ExecTypes, Ends
<1> QED
  BY <1>1, <1>2, <1>3 DEF HarnessInv

\* One legal transition more.
LEMMA OneMore ==
    ASSUME NEW s \in States, NEW p \in Seq(States), NEW x \in States,
           LegalFrom(s, p), CanTransition(LastOf(s, p), x)
    PROVE  Append(p, x) \in Seq(States) /\ LegalFrom(s, Append(p, x))
<1>1. <<x>> \in Seq(States) /\ LegalFrom(LastOf(s, p), <<x>>)
  BY DEF LegalFrom
<1>2. Append(p, x) = p \o <<x>>
  OBVIOUS
<1> QED
  BY <1>1, <1>2, Joined

\* The except clause, and every other way to fail closed.
LEMMA ClosedAfter ==
    ASSUME HarnessInv, NEW path \in Seq(States), LegalFrom(sm, path), FailsClosed(path),
           stage \in {"idle", "returned", "raised"}
    PROVE  HarnessInv'
<1>1. Ends("FAILED_CLOSED") /\ sm \in States /\ "FAILED_CLOSED" \in States
  BY DEF FailsClosed, HarnessInv, ExecTypes, States
<1>2. CASE CanTransition(LastOf(sm, path), "FAILED_CLOSED")
  <2>1. Transition(Append(path, "FAILED_CLOSED"))
    BY <1>2 DEF FailsClosed
  <2>2. /\ Append(path, "FAILED_CLOSED") \in Seq(States)
        /\ LegalFrom(sm, Append(path, "FAILED_CLOSED"))
    BY <1>1, <1>2, OneMore
  <2> QED
    BY <1>1, <2>1, <2>2, EndsAfter
<1>3. CASE ~CanTransition(LastOf(sm, path), "FAILED_CLOSED")
  BY <1>1, <1>3, EndsAfter DEF FailsClosed
<1> QED
  BY <1>2, <1>3

\* Every way a call ends before the dispatch.
LEMMA OpeningStep ==
    ASSUME HarnessInv,
           CallRefused \/ DocumentRefused \/ ValueErrorEscapes \/ NotAuthorized \/ DagRefused
    PROVE  HarnessInv'
<1>1. sm \in States /\ stage = "idle"
  BY DEF HarnessInv, ExecTypes, CallRefused, DocumentRefused, ValueErrorEscapes, NotAuthorized,
         DagRefused, Accepted, Serving
<1>2. /\ <<>> \in Seq(States) /\ LegalFrom(sm, <<>>)
      /\ <<"PARSE">> \in Seq(States)
      /\ <<"PARSE", "CONSTITUTION_CHECK">> \in Seq(States)
      /\ <<"PARSE", "CONSTITUTION_CHECK", "DECOMPOSE">> \in Seq(States)
  BY DEF States, LegalFrom
<1>3. CASE CallRefused
  BY <1>1, <1>2, <1>3, ClosedAfter DEF CallRefused
<1>4. CASE DocumentRefused
  BY <1>1, <1>2, <1>4, OpeningLegal, ClosedAfter DEF DocumentRefused
<1>5. CASE ValueErrorEscapes
  BY <1>1, <1>2, <1>5, OpeningLegal, EndsAfter DEF ValueErrorEscapes
<1>6. CASE NotAuthorized
  BY <1>1, <1>2, <1>6, OpeningLegal, ClosedAfter DEF NotAuthorized, Accepted
<1>7. CASE DagRefused
  BY <1>1, <1>2, <1>7, OpeningLegal, ClosedAfter DEF DagRefused, Accepted
<1> QED
  BY <1>3, <1>4, <1>5, <1>6, <1>7

\* The dispatch starts the scheduler on an acyclic DAG.
LEMMA DispatchStep ==
    ASSUME HarnessInv, Dispatch
    PROVE  HarnessInv'
<1> DEFINE path == <<"PARSE", "CONSTITUTION_CHECK", "DECOMPOSE", "ROUTE", "DISPATCH">>
<1>1. /\ sm \in States /\ CanTransition(sm, "PARSE") /\ doc \in Sources
      /\ Transition(path) /\ StartRun(Edges(doc), doc.limits.max_workers)
      /\ Acyclic(Edges(doc)) /\ BuildsDag(Edges(doc))
      /\ doc' = doc /\ authorized' = authorized
  BY DEF Dispatch, Accepted, Serving, ValidateMxml, HarnessInv, ExecTypes
<1>2. path \in Seq(States)
  BY DEF States
<1>3. TrailLegal' /\ sm' \in States /\ trail' \in Seq(States) /\ revisions' \in Nat
  BY <1>1, <1>2, OpeningLegal, Walked DEF HarnessInv
<1>4. doc.limits.max_workers \in Int
  BY <1>1, SourcesAssumption
<1>5. SchedInv'
  <2> DEFINE e == Edges(doc)
  <2>1. \A t \in DOMAIN e : e[t] \subseteq DOMAIN e
    BY <1>1 DEF BuildsDag, MissingDependency
  <2> HIDE DEF e
  <2> QED
    BY <1>1, <1>4, <2>1, StartKeepsSchedInv DEF e
<1>6. sm' = "DISPATCH"
  BY <1>1 DEF Transition, LastOf
<1>7. ExecTypes'
  BY <1>1, <1>3, <1>6 DEF ExecTypes, HarnessInv
<1> QED
  BY <1>3, <1>5, <1>7 DEF HarnessInv

\* Judging the results, or the exception, ends the call.
LEMMA ClosingStep ==
    ASSUME HarnessInv, Judge \/ TimeoutEscapes
    PROVE  HarnessInv'
<1>1. stage \in {"returned", "raised"} /\ sm = "DISPATCH"
  BY DEF Judge, TimeoutEscapes, HarnessInv, ExecTypes
<1>2. /\ <<"SUPERVISE", "VALIDATE", "FAILED_CLOSED">> \in Seq(States)
      /\ <<"SUPERVISE", "VALIDATE", "REVISE">> \in Seq(States)
      /\ <<"SUPERVISE", "VALIDATE", "CROSS_CHECK", "SYNTHESIZE", "FINALIZE", "RETURN">>
            \in Seq(States)
      /\ <<>> \in Seq(States) /\ LegalFrom(sm, <<>>)
  BY DEF States, LegalFrom
<1>3. CASE Judge
  <2>1. PICK path \in {<<"SUPERVISE", "VALIDATE", "FAILED_CLOSED">>,
                       <<"SUPERVISE", "VALIDATE", "REVISE">>,
                       <<"SUPERVISE", "VALIDATE", "CROSS_CHECK", "SYNTHESIZE", "FINALIZE", "RETURN">>},
             status \in {"FAILED_CLOSED", "REVISE", "SUCCESS"} :
                Transition(path) /\ Ends(status)
    BY <1>3, Zenon DEF Judge
  <2>2. path \in Seq(States) /\ LegalFrom(sm, path)
    BY <1>1, <1>2, <2>1, ClosingLegal
  <2> QED
    BY <1>1, <2>1, <2>2, EndsAfter
<1>4. CASE TimeoutEscapes
  BY <1>1, <1>2, <1>4, EndsAfter DEF TimeoutEscapes
<1> QED
  BY <1>3, <1>4

\* Every step of the harness keeps the invariant.
LEMMA HarnessStep ==
    ASSUME HarnessInv, [HarnessNext]_harnessVars
    PROVE  HarnessInv'
<1>1. ASSUME NEW src \in Sources, NEW auth \in BOOLEAN, Call(src, auth) PROVE HarnessInv'
  <2>1. SchedInv'
    BY <1>1 DEF Call, schedVars, poolVars, HarnessInv, SchedInv, SchedTypes, Stages, DagInv,
                PoolInv, ResultsInv, Acyclic
  <2>2. ExecTypes' /\ TrailLegal'
    BY <1>1 DEF Call, schedVars, HarnessInv, ExecTypes, TrailLegal, LegalFrom, LastOf
  <2> QED
    BY <2>1, <2>2 DEF HarnessInv
<1>2. CASE ExecNext
  BY <1>2, OpeningStep, DispatchStep, ClosingStep DEF ExecNext
<1>3. CASE Framed(SchedNext)
  <2>1. SchedInv'
    BY <1>3, SchedStep DEF Framed, HarnessInv
  <2>2. stage # "idle"
    BY <1>3 DEF Framed, SchedNext, PoolNext, LoopNext, DeadlinePasses, WaveTimesOut, LoopEnds,
                LoopTimesOut, LoopBlocks, SubmitWave, Collect, Drained, HarnessInv, SchedInv, PoolInv
  <2>3. ExecTypes' /\ TrailLegal'
    BY <1>3, <2>2 DEF Framed, execVars, HarnessInv, ExecTypes, TrailLegal, LegalFrom, LastOf
  <2> QED
    BY <2>1, <2>3 DEF HarnessInv
<1>4. CASE UNCHANGED harnessVars
  <2>1. SchedInv'
    BY <1>4 DEF harnessVars, schedVars, poolVars, HarnessInv, SchedInv, SchedTypes, Stages, DagInv,
                PoolInv, ResultsInv, Acyclic
  <2>2. ExecTypes' /\ TrailLegal'
    BY <1>4 DEF harnessVars, schedVars, execVars, HarnessInv, ExecTypes, TrailLegal, LegalFrom, LastOf
  <2> QED
    BY <2>1, <2>2 DEF HarnessInv
<1> QED
  BY <1>1, <1>2, <1>3, <1>4 DEF HarnessNext

(***************************************************************************)
(* The inductive invariant of executor and scheduler holds in every        *)
(* reachable state (Executor.run, Scheduler.run).                          *)
(***************************************************************************)
THEOREM HarnessInvariant == HarnessSpec => []HarnessInv
<1>1. HarnessInit => HarnessInv
  <2>1. ASSUME HarnessInit PROVE SchedInv
    <3>1. results = NoResults /\ DOMAIN NoResults = {} /\ DOMAIN edges = {}
      BY <2>1 DEF HarnessInit, SchedInit, NoResults
    <3>2. SchedTypes
      <4>1. /\ stage = "idle" /\ late = FALSE /\ workers = 1
            /\ DOMAIN results = {}
        BY <2>1, <3>1 DEF HarnessInit, SchedInit
      <4>2. late \in BOOLEAN
        BY <4>1
      <4>3. 1 \in Nat \ {0}
        OBVIOUS
      <4>4. stage \in Stages
        BY <4>1 DEF Stages
      <4> QED
        BY <4>1, <4>2, <4>3, <4>4 DEF SchedTypes
    <3>3. DagInv
      BY <2>1, <3>1 DEF HarnessInit, SchedInit, DagInv, Acyclic
    <3>4. PoolInv /\ ResultsInv
      BY <2>1, <3>1 DEF HarnessInit, SchedInit, PoolInv, ResultsInv
    <3> QED
      BY <3>2, <3>3, <3>4 DEF SchedInv
  <2>2. ASSUME HarnessInit PROVE ExecTypes /\ TrailLegal
    <3>1. ExecTypes
      <4>1. /\ sm = "RECEIVE" /\ trail = <<>> /\ revisions = 0 /\ stage = "idle"
            /\ doc = NoSource /\ authorized = FALSE
        BY <2>2 DEF HarnessInit, SchedInit
      <4>2. authorized \in BOOLEAN
        BY <4>1
      <4>3. <<>> \in Seq(States) /\ "RECEIVE" \in States /\ 0 \in Nat
        BY DEF States
      <4>4. stage # "idle" => FALSE
        BY <4>1
      <4> QED
        BY <4>1, <4>2, <4>3, <4>4 DEF ExecTypes
    <3>2. TrailLegal
      <4>1. sm = "RECEIVE" /\ trail = <<>> /\ DOMAIN <<>> = {}
        BY <2>2 DEF HarnessInit
      <4> QED
        BY <4>1 DEF TrailLegal, LegalFrom, LastOf
    <3> QED
      BY <3>1, <3>2
  <2> QED
    BY <2>1, <2>2 DEF HarnessInv
<1> QED
  BY <1>1, HarnessStep, PTL DEF HarnessSpec

(***************************************************************************)
(* What a run reports of its tasks is sound: "ok" rests on "ok", and a     *)
(* "timeout" was never started (the branches of Scheduler.run).            *)
(***************************************************************************)
THEOREM ResultsAreSound == HarnessSpec => []ResultsSound
<1>1. HarnessInv => ResultsSound
  <2> SUFFICES ASSUME HarnessInv, NEW t \in DOMAIN results
               PROVE  /\ results[t] = "ok" => /\ t \in finished
                                             /\ \A d \in edges[t] : d \in DOMAIN results
                                                                    /\ results[d] = "ok"
                      /\ results[t] = "timeout" => t \notin queued \cup running \cup finished
    BY DEF ResultsSound
  <2>1. CASE t \in completed
    BY <2>1 DEF HarnessInv, SchedInv, DagInv, PoolInv, ResultsInv
  <2>2. CASE t \notin completed
    <3>1. results[t] = "timeout" /\ wave = {}
      BY <2>2 DEF HarnessInv, SchedInv, SchedTypes, Stages, ResultsInv
    <3> QED
      BY <2>2, <3>1 DEF HarnessInv, SchedInv, PoolInv
  <2> QED
    BY <2>1, <2>2
<1> QED
  BY <1>1, HarnessInvariant, PTL

(***************************************************************************)
(* The "blocked" branch of Scheduler.run is dead code behind validate_mxml *)
(* and build_dag, for DAGs of any size.                                    *)
(***************************************************************************)
THEOREM NothingBlocks == HarnessSpec => []NeverBlocked
<1>1. HarnessInv => NeverBlocked
  BY DEF HarnessInv, SchedInv, ResultsInv, NeverBlocked
<1> QED
  BY <1>1, HarnessInvariant, PTL

(***************************************************************************)
(* No call of run() leaves a task behind on a thread, whichever way the    *)
(* call ended.                                                             *)
(***************************************************************************)
THEOREM QuietAfterRun == HarnessSpec => []QuietWhenDone
<1>1. HarnessInv => QuietWhenDone
  BY DEF HarnessInv, SchedInv, PoolInv, QuietWhenDone
<1> QED
  BY <1>1, HarnessInvariant, PTL

-----------------------------------------------------------------------------
(***************************************************************************)
(* The Merkle tree: its loops have values, and what these are.             *)
(***************************************************************************)
\* A sequence of whatever values.
IsSeq(x) == \E S : x \in Seq(S)

\* What one round of each loop makes of what the round before left.
Round(p, k, x) ==
    CASE p.loop = "level" -> Parents(x)
      [] p.loop = "place" -> x \div 2
      [] p.loop = "walk"  -> IF HasSibling(p.tree, p.index, k - 1)
                               THEN Append(x, p.tree[k][Sibling(Place(p.index, k - 1)) + 1])
                               ELSE x
      [] p.loop = "hash"  -> IF Place(p.index, k - 1) % 2 = 0 THEN Node(x, p.proof[k])
                             ELSE Node(p.proof[k], x)

\* The values of n rounds, from the start; there are such values for every n.
Rounds(f, p, n) == f = [k \in 0..n |-> IF k = 0 THEN p.start ELSE Round(p, k, f[k - 1])]

LEMMA RoundsExist ==
  ASSUME NEW p, NEW n \in Nat
  PROVE  \E f : Rounds(f, p, n)
<1> DEFINE T == {k \in Nat : \E f : Rounds(f, p, k)}
<1>1. 0 \in T
  <2> DEFINE f == [k \in 0..0 |-> p.start]
  <2>1. f = [k \in 0..0 |-> IF k = 0 THEN p.start ELSE Round(p, k, f[k - 1])]
    OBVIOUS
  <2>2. Rounds(f, p, 0)
    BY <2>1 DEF Rounds
  <2> QED BY <2>2
<1>2. ASSUME NEW k \in 0..n, k \in T PROVE k + 1 \in T
  <2>1. PICK f : Rounds(f, p, k)
    BY <1>2
  <2> DEFINE rec(g, j) == IF j = 0 THEN p.start ELSE Round(p, j, g[j - 1])
             h == [j \in 0..(k + 1) |-> rec(f, j)]
  <2>2. ASSUME NEW j \in 0..(k + 1) PROVE rec(f, j) = rec(h, j)
    <3>1. CASE j = 0
      BY <3>1
    <3>2. CASE j # 0
      <4>1. j - 1 \in 0..k /\ j - 1 \in 0..(k + 1)
        BY <3>2
      <4>2. f[j - 1] = h[j - 1]
        BY <2>1, <4>1 DEF Rounds
      <4> HIDE DEF h
      <4> QED BY <4>2
    <3> QED BY <3>1, <3>2
  <2> HIDE DEF h
  <2>3. h = [j \in 0..(k + 1) |-> rec(f, j)]
    BY DEF h
  <2> HIDE DEF rec
  <2>4. h = [j \in 0..(k + 1) |-> rec(h, j)]
    BY <2>2, <2>3
  <2>5. Rounds(h, p, k + 1)
    BY <2>4 DEF Rounds, rec
  <2> QED BY <2>5
<1> HIDE DEF T
<1>3. 0..n \subseteq T
  BY <1>1, <1>2, Counting
<1>4. n \in 0..n
  OBVIOUS
<1> QED BY <1>3, <1>4 DEF T

\* The rounds of Place, and what they come to.
LEMMA PlaceRounds ==
  ASSUME NEW index, NEW n \in Nat
  PROVE  \E f : /\ f[0] = index
                /\ \A k \in 1..n : f[k] = f[k - 1] \div 2
                /\ Place(index, n) = f[n]
<1> DEFINE p == [loop |-> "place", start |-> index]
           Is(g) == g = [k \in 0..n |-> IF k = 0 THEN index ELSE g[k - 1] \div 2]
           f == CHOOSE g : Is(g)
<1>1. \E g : Is(g)
  <2>1. PICK g : Rounds(g, p, n)
    BY RoundsExist
  <2>2. Is(g)
    BY <2>1 DEF Rounds, Round
  <2> QED BY <2>2
<1>2. Is(f)
  BY <1>1, Zenon
<1>3. Place(index, n) = f[n]
  BY Zenon DEF Place
<1> HIDE DEF f
<1>4. f[0] = index /\ \A k \in 1..n : f[k] = f[k - 1] \div 2
  BY <1>2
<1> QED BY <1>3, <1>4

LEMMA PlaceIs ==
  ASSUME NEW index \in Nat
  PROVE  /\ Place(index, 0) = index
         /\ \A h \in Nat : Place(index, h + 1) = Place(index, h) \div 2
         /\ \A h \in Nat : Place(index, h) \in Nat
<1>1. Place(index, 0) = index
  BY PlaceRounds
<1>2. ASSUME NEW h \in Nat PROVE Place(index, h + 1) = Place(index, h) \div 2
  <2>1. PICK f : /\ f[0] = index
                 /\ \A k \in 1..h : f[k] = f[k - 1] \div 2
                 /\ Place(index, h) = f[h]
    BY PlaceRounds
  <2>2. PICK g : /\ g[0] = index
                 /\ \A k \in 1..(h + 1) : g[k] = g[k - 1] \div 2
                 /\ Place(index, h + 1) = g[h + 1]
    BY PlaceRounds
  <2> DEFINE T == {k \in 0..h : f[k] = g[k]}
  <2>3. 0 \in T
    BY <2>1, <2>2
  <2>4. ASSUME NEW k \in 0..h, k < h, k \in T PROVE k + 1 \in T
    <3>1. k + 1 \in 1..h /\ k + 1 \in 1..(h + 1) /\ (k + 1) - 1 = k /\ k + 1 \in 0..h
      BY <2>4
    <3>2. f[k + 1] = f[k] \div 2 /\ g[k + 1] = g[k] \div 2
      BY <2>1, <2>2, <3>1
    <3> QED BY <2>4, <3>1, <3>2
  <2> HIDE DEF T
  <2>5. 0..h \subseteq T
    BY <2>3, <2>4, Counting
  <2>6. h \in 0..h /\ h + 1 \in 1..(h + 1) /\ (h + 1) - 1 = h
    OBVIOUS
  <2> QED BY <2>1, <2>2, <2>5, <2>6 DEF T
<1>3. ASSUME NEW h \in Nat PROVE Place(index, h) \in Nat
  <2> DEFINE T == {k \in Nat : Place(index, k) \in Nat}
  <2>1. 0 \in T
    BY <1>1
  <2>2. \A k \in 0..h : k < h /\ k \in T => k + 1 \in T
    BY <1>2
  <2> HIDE DEF T
  <2>3. 0..h \subseteq T
    BY <2>1, <2>2, Counting
  <2> QED BY <2>3 DEF T
<1> QED BY <1>1, <1>2, <1>3

-----------------------------------------------------------------------------
(* The levels. *)

\* A function on 1..n is a sequence.
LEMMA FunctionIsSeq ==
  ASSUME NEW n \in Nat, NEW f, f = [k \in 1..n |-> f[k]]
  PROVE  IsSeq(f) /\ Len(f) = n /\ DOMAIN f = 1..n
<1> DEFINE S == {f[k] : k \in 1..n}
<1>1. \A k \in 1..n : f[k] \in S
  OBVIOUS
<1> HIDE DEF S
<1>2. f \in Seq(S) /\ Len(f) = n
  BY <1>1
<1>3. DOMAIN f = 1..n
  OBVIOUS
<1> QED BY <1>2, <1>3 DEF IsSeq

\* The length of a sequence.
LEMMA SeqIs ==
  ASSUME NEW x, IsSeq(x)
  PROVE  Len(x) \in Nat /\ DOMAIN x = 1..Len(x)
BY DEF IsSeq

\* The next level is half as long, rounded up.
LEMMA ParentsIs ==
  ASSUME NEW level, IsSeq(level), Len(level) >= 1
  PROVE  /\ IsSeq(Parents(level)) /\ Len(Parents(level)) = (Len(level) + 1) \div 2
         /\ Len(Parents(level)) >= 1
         /\ Len(level) > 1 => Len(Parents(level)) < Len(level)
         /\ \A k \in 1..Len(Parents(level)) :
              Parents(level)[k] = Node(level[2 * k - 1],
                                       level[IF 2 * k <= Len(level) THEN 2 * k ELSE 2 * k - 1])
<1> DEFINE n == (Len(level) + 1) \div 2
           node(k) == Node(level[2 * k - 1],
                           level[IF 2 * k <= Len(level) THEN 2 * k ELSE 2 * k - 1])
           f == Parents(level)
<1>1. Len(level) \in Nat /\ n \in Nat
  BY SeqIs
<1>2. f = [k \in 1..n |-> node(k)]
  BY DEF Parents
<1>3. n >= 1 /\ (Len(level) > 1 => n < Len(level))
  BY <1>1
<1> HIDE DEF n, f, node
<1>4. IsSeq(f) /\ Len(f) = n
  BY <1>1, <1>2, FunctionIsSeq
<1>5. \A k \in 1..Len(f) : f[k] = node(k)
  BY <1>2, <1>4
<1> QED BY <1>3, <1>4, <1>5 DEF f, n, node

\* A tree over these leaves whose root is height levels above them.
TreeOver(leaves, tree, height) ==
    /\ IsSeq(tree) /\ Len(tree) = height + 1 /\ tree[1] = leaves
    /\ \A h \in 1..height : tree[h + 1] = Parents(tree[h])
    /\ \A h \in 1..height + 1 : IsSeq(tree[h]) /\ Len(tree[h]) >= 1
    /\ Len(tree[height + 1]) = 1

\* The rounds of Tree.
LEMMA LevelRounds ==
  ASSUME NEW leaves, Len(leaves) \in Nat
  PROVE  \E f, height :
           /\ f[0] = leaves
           /\ \A k \in 1..Len(leaves) : f[k] = Parents(f[k - 1])
           /\ height = CHOOSE h \in 0..Len(leaves) :
                         Len(f[h]) <= 1 /\ \A g \in 0..h - 1 : Len(f[g]) > 1
           /\ Tree(leaves) = [k \in 1..height + 1 |-> f[k - 1]]
<1> DEFINE n == Len(leaves)
           p == [loop |-> "level", start |-> leaves]
           Is(g) == g = [k \in 0..n |-> IF k = 0 THEN leaves ELSE Parents(g[k - 1])]
           f == CHOOSE g : Is(g)
           height == CHOOSE h \in 0..Len(leaves) :
                         Len(f[h]) <= 1 /\ \A g \in 0..h - 1 : Len(f[g]) > 1
<1>1. \E g : Is(g)
  <2>1. PICK g : Rounds(g, p, n)
    BY RoundsExist
  <2>2. Is(g)
    BY <2>1 DEF Rounds, Round
  <2> QED BY <2>2
<1>2. Is(f)
  BY <1>1, Zenon
<1>3. Tree(leaves) = [k \in 1..height + 1 |-> f[k - 1]]
  BY Zenon DEF Tree
<1> HIDE DEF f
<1>4. f[0] = leaves /\ \A k \in 1..n : f[k] = Parents(f[k - 1])
  BY <1>2
<1>5. \E h : h = height /\ Tree(leaves) = [k \in 1..h + 1 |-> f[k - 1]]
  BY <1>3, Zenon
<1> QED BY <1>4, <1>5, Zenon

\* The levels of a tree end in a root.
LEMMA TreeIs ==
  ASSUME NEW leaves, IsSeq(leaves), leaves # <<>>
  PROVE  \E height \in Nat : TreeOver(leaves, Tree(leaves), height)
<1> DEFINE n == Len(leaves)
<1>1. n \in Nat /\ n >= 1
  BY DEF IsSeq
<1>2. PICK f, height :
           /\ f[0] = leaves
           /\ \A k \in 1..Len(leaves) : f[k] = Parents(f[k - 1])
           /\ height = CHOOSE h \in 0..Len(leaves) :
                         Len(f[h]) <= 1 /\ \A g \in 0..h - 1 : Len(f[g]) > 1
           /\ Tree(leaves) = [k \in 1..height + 1 |-> f[k - 1]]
  BY <1>1, LevelRounds
<1> DEFINE Narrows == {k \in 0..n : /\ IsSeq(f[k]) /\ Len(f[k]) \in Nat /\ Len(f[k]) >= 1
                                    /\ Len(f[k]) <= 1 \/ Len(f[k]) <= n - k}
<1>3. 0..n \subseteq Narrows
  <2>1. 0 \in Narrows
    BY <1>1, <1>2
  <2>2. ASSUME NEW k \in 0..n, k < n, k \in Narrows PROVE k + 1 \in Narrows
    <3>1. k + 1 \in 0..n /\ f[k + 1] = Parents(f[k])
      BY <1>1, <1>2, <2>2
    <3>2. /\ IsSeq(f[k + 1]) /\ Len(f[k + 1]) >= 1
          /\ Len(f[k + 1]) = (Len(f[k]) + 1) \div 2
          /\ Len(f[k]) > 1 => Len(f[k + 1]) < Len(f[k])
      BY <2>2, <3>1, ParentsIs
    <3>3. Len(f[k + 1]) \in Nat
      BY <3>2, SeqIs
    <3>4. Len(f[k + 1]) <= 1 \/ Len(f[k + 1]) <= n - (k + 1)
      <4>1. \A a, b \in Nat : (a <= 1 \/ a <= n - k) /\ b = (a + 1) \div 2
                                 /\ (a > 1 => b < a) /\ a >= 1
                              => b <= 1 \/ b <= n - (k + 1)
        BY <1>1
      <4> HIDE DEF n
      <4> QED BY <2>2, <3>2, <3>3, <4>1
    <3> QED BY <3>1, <3>2, <3>3, <3>4
  <2> HIDE DEF Narrows, n
  <2> QED BY <1>1, <2>1, <2>2, Counting
<1> DEFINE Narrow == {h \in 0..n : Len(f[h]) <= 1}
<1>4. \E h \in 0..n : Len(f[h]) <= 1 /\ \A g \in 0..h - 1 : Len(f[g]) > 1
  <2>1. n \in Narrow
    BY <1>1, <1>3
  <2>2. PICK h \in Narrow : \A g \in Narrow : h <= g
    <3>1. Narrow \subseteq Nat
      BY <1>1
    <3> HIDE DEF Narrow
    <3> QED BY <2>1, <3>1, LeastOf
  <2>3. ASSUME NEW g \in 0..h - 1 PROVE Len(f[g]) > 1
    <3>1. g \in 0..n /\ ~(h <= g)
      BY <1>1, <2>2
    <3>2. ~(Len(f[g]) <= 1) /\ Len(f[g]) \in Nat
      BY <1>3, <2>2, <3>1
    <3> QED BY <3>2
  <2> QED BY <2>2, <2>3
<1>5. /\ height \in 0..n /\ Len(f[height]) <= 1
  BY <1>2, <1>4
<1> DEFINE tree == Tree(leaves)
<1>6. tree = [k \in 1..height + 1 |-> f[k - 1]]
  BY <1>2
<1> HIDE DEF tree
<1>7. height \in Nat /\ height + 1 \in Nat
  BY <1>1, <1>5
<1>8. \A k \in 1..height + 1 : tree[k] = f[k - 1]
  BY <1>6
<1>9. IsSeq(tree) /\ Len(tree) = height + 1
  <2>1. tree = [k \in 1..height + 1 |-> tree[k]]
    BY <1>6
  <2> QED BY <1>7, <2>1, FunctionIsSeq
<1>10. \A h \in 1..height : tree[h + 1] = Parents(tree[h])
  <2> TAKE h \in 1..height
  <2>1. h \in 1..n /\ h \in 1..height + 1 /\ h + 1 \in 1..height + 1 /\ (h + 1) - 1 = h
    BY <1>1, <1>5
  <2> QED BY <1>2, <1>8, <2>1
<1>11. \A h \in 1..height + 1 : IsSeq(tree[h]) /\ Len(tree[h]) >= 1
  <2> TAKE h \in 1..height + 1
  <2>1. h - 1 \in 0..n
    BY <1>1, <1>5
  <2> QED BY <1>3, <1>8, <2>1
<1>12. Len(tree[height + 1]) = 1
  <2>1. height + 1 \in 1..height + 1 /\ (height + 1) - 1 = height
    BY <1>7
  <2>2. Len(f[height]) \in Nat /\ Len(f[height]) >= 1
    BY <1>3, <1>5
  <2>3. Len(f[height]) = 1
    <3>1. \A a \in Nat : a >= 1 /\ a <= 1 => a = 1
      OBVIOUS
    <3> QED BY <1>5, <2>2, <3>1
  <2> QED BY <1>8, <2>1, <2>3
<1>13. tree[1] = leaves
  <2>1. 1 \in 1..height + 1
    BY <1>7
  <2> QED BY <1>2, <1>8, <2>1
<1> QED BY <1>7, <1>9, <1>10, <1>11, <1>12, <1>13 DEF TreeOver, tree

\* The node above a leaf is a node of its level.
LEMMA PlaceInside ==
  ASSUME NEW leaves, NEW tree, NEW height \in Nat, TreeOver(leaves, tree, height),
         NEW index \in 0..Len(leaves) - 1, IsSeq(leaves)
  PROVE  \A h \in 0..height : Place(index, h) \in 0..Len(tree[h + 1]) - 1
<1> DEFINE T == {h \in 0..height : Place(index, h) \in 0..Len(tree[h + 1]) - 1}
<1>1. index \in Nat /\ Len(leaves) \in Nat
  BY SeqIs
<1>2. 0 \in T
  <2>1. Place(index, 0) = index /\ tree[0 + 1] = leaves
    BY <1>1, PlaceIs DEF TreeOver
  <2> QED BY <2>1
<1>3. ASSUME NEW h \in 0..height, h < height, h \in T PROVE h + 1 \in T
  <2>1. h + 1 \in 1..height /\ h + 1 \in 1..height + 1 /\ h \in Nat /\ h + 1 \in 0..height
    BY <1>3
  <2>2. tree[(h + 1) + 1] = Parents(tree[h + 1]) /\ IsSeq(tree[h + 1]) /\ Len(tree[h + 1]) >= 1
    BY <2>1 DEF TreeOver
  <2>3. Len(tree[(h + 1) + 1]) = (Len(tree[h + 1]) + 1) \div 2 /\ Len(tree[h + 1]) \in Nat
    BY <2>2, ParentsIs, SeqIs
  <2>4. Place(index, h + 1) = Place(index, h) \div 2
    BY <1>1, <2>1, PlaceIs
  <2>5. \A a \in Nat : \A q \in 0..a - 1 : q \div 2 \in 0..((a + 1) \div 2) - 1
    OBVIOUS
  <2>6. Place(index, h) \in 0..Len(tree[h + 1]) - 1
    BY <1>3
  <2> HIDE DEF T
  <2>7. Place(index, h + 1) \in 0..Len(tree[(h + 1) + 1]) - 1
    BY <2>3, <2>4, <2>5, <2>6
  <2> QED BY <2>1, <2>7 DEF T
<1> HIDE DEF T
<1>4. 0..height \subseteq T
  BY <1>2, <1>3, Counting
<1> QED BY <1>4 DEF T

-----------------------------------------------------------------------------
(* Proofs. *)

\* One element more.
LEMMA AppendIs ==
  ASSUME NEW x, IsSeq(x), NEW e
  PROVE  /\ IsSeq(Append(x, e)) /\ Len(Append(x, e)) = Len(x) + 1
         /\ Append(x, e)[Len(x) + 1] = e
         /\ \A k \in 1..Len(x) : Append(x, e)[k] = x[k]
<1>1. PICK S : x \in Seq(S)
  BY DEF IsSeq
<1>2. x \in Seq(S \cup {e})
  BY <1>1
<1>3. Append(x, e) \in Seq(S \cup {e})
  BY <1>2
<1> QED BY <1>1, <1>2, <1>3 DEF IsSeq

\* What Proof has collected level by level.
Walks(w, tree, index, height) ==
    /\ w[0] = <<>>
    /\ \A h \in 1..height :
         w[h] = IF HasSibling(tree, index, h - 1)
                  THEN Append(w[h - 1], tree[h][Sibling(Place(index, h - 1)) + 1])
                  ELSE w[h - 1]

\* The rounds of Proof.
LEMMA WalkRounds ==
  ASSUME NEW tree, NEW index, NEW height \in Nat, Len(tree) = height + 1
  PROVE  \E w : Walks(w, tree, index, height) /\ Proof(tree, index) = w[height]
<1> DEFINE n == Len(tree) - 1
           p == [loop |-> "walk", start |-> <<>>, tree |-> tree, index |-> index]
           next(x, h) == IF HasSibling(tree, index, h - 1)
                           THEN Append(x, tree[h][Sibling(Place(index, h - 1)) + 1])
                           ELSE x
           Is(g) == g = [h \in 0..n |-> IF h = 0 THEN <<>> ELSE next(g[h - 1], h)]
           w == CHOOSE g : Is(g)
<1>1. n = height
  OBVIOUS
<1>2. \E g : Is(g)
  <2>1. PICK g : Rounds(g, p, n)
    BY <1>1, RoundsExist
  <2>2. Is(g)
    BY <2>1 DEF Rounds, Round
  <2> QED BY <2>2
<1>3. Is(w)
  BY <1>2, Zenon
<1>4. Proof(tree, index) = w[n]
  BY Zenon DEF Proof
<1> HIDE DEF w, next
<1>5. w[0] = <<>> /\ \A h \in 1..height : w[h] = next(w[h - 1], h)
  BY <1>1, <1>3
<1>6. Walks(w, tree, index, height)
  BY <1>5 DEF next, Walks
<1> QED BY <1>1, <1>4, <1>6

\* A proof has an element for every level that gives one.
LEMMA ProofIs ==
  ASSUME NEW tree, NEW index, NEW height \in Nat, Len(tree) = height + 1
  PROVE  /\ IsSeq(Proof(tree, index)) /\ Len(Proof(tree, index)) \in 0..height
         /\ ~Paired(tree, index) => Len(Proof(tree, index)) < height
         /\ Paired(tree, index) =>
              /\ Len(Proof(tree, index)) = height
              /\ \A k \in 1..height :
                   Proof(tree, index)[k] = tree[k][Sibling(Place(index, k - 1)) + 1]
<1>1. PICK w : Walks(w, tree, index, height) /\ Proof(tree, index) = w[height]
  BY WalkRounds
<1> USE DEF Walks
<1> DEFINE All(h) == \A g \in 0..h - 1 : HasSibling(tree, index, g)
           Good(h) == /\ IsSeq(w[h]) /\ Len(w[h]) \in 0..h
                      /\ All(h) => /\ Len(w[h]) = h
                                   /\ \A k \in 1..h :
                                        w[h][k] = tree[k][Sibling(Place(index, k - 1)) + 1]
                      /\ ~All(h) => Len(w[h]) < h
           T == {h \in 0..height : Good(h)}
<1>2. Good(0)
  BY <1>1, SeqIs DEF IsSeq
<1>3. ASSUME NEW h \in 0..height, h < height, Good(h) PROVE Good(h + 1)
  <2> DEFINE e == tree[h + 1][Sibling(Place(index, h)) + 1]
  <2>1. h + 1 \in 1..height /\ (h + 1) - 1 = h
    BY <1>3
  <2>2. w[h + 1] = IF HasSibling(tree, index, h) THEN Append(w[h], e) ELSE w[h]
    BY <1>1, <2>1
  <2>3. All(h + 1) <=> All(h) /\ HasSibling(tree, index, h)
    <3>1. \A g : g \in 0..(h + 1) - 1 <=> g \in 0..h - 1 \/ g = h
      BY <1>3
    <3> QED BY <3>1
  <2>4. CASE HasSibling(tree, index, h)
    <3> DEFINE x == Append(w[h], e)
    <3>1. w[h + 1] = x
      BY <2>2, <2>4
    <3>2. /\ IsSeq(x) /\ Len(x) = Len(w[h]) + 1 /\ x[Len(w[h]) + 1] = e
          /\ \A k \in 1..Len(w[h]) : x[k] = w[h][k]
      BY <1>3, AppendIs
    <3>3. Len(x) \in 0..h + 1 /\ (~All(h) => Len(x) < h + 1)
      BY <1>3, <3>2
    <3>4. ASSUME All(h)
          PROVE  /\ Len(x) = h + 1
                 /\ \A k \in 1..h + 1 : x[k] = tree[k][Sibling(Place(index, k - 1)) + 1]
      <4>1. Len(w[h]) = h /\ \A k \in 1..h : w[h][k] = tree[k][Sibling(Place(index, k - 1)) + 1]
        BY <1>3, <3>4
      <4> HIDE DEF x, All
      <4>2. x[h + 1] = tree[h + 1][Sibling(Place(index, (h + 1) - 1)) + 1]
        BY <2>1, <3>2, <4>1
      <4>3. \A k \in 1..h + 1 : k \in 1..h \/ k = h + 1
        BY <1>3
      <4>4. Len(x) = h + 1
        BY <3>2, <4>1
      <4>5. ASSUME NEW k \in 1..h + 1
            PROVE  x[k] = tree[k][Sibling(Place(index, k - 1)) + 1]
        BY <3>2, <4>1, <4>2, <4>3
      <4> QED BY <4>4, <4>5
    <3> HIDE DEF x, All
    <3> QED BY <2>3, <2>4, <3>1, <3>2, <3>3, <3>4
  <2>5. CASE ~HasSibling(tree, index, h)
    <3>1. w[h + 1] = w[h] /\ ~All(h + 1)
      BY <2>2, <2>3, <2>5
    <3>2. Len(w[h]) \in 0..h + 1 /\ Len(w[h]) < h + 1
      BY <1>3
    <3> HIDE DEF All
    <3> QED BY <1>3, <3>1, <3>2
  <2> QED BY <2>4, <2>5
<1> HIDE DEF Good
<1>4. 0..height \subseteq T
  <2>1. 0 \in T /\ \A h \in 0..height : h < height /\ h \in T => h + 1 \in T
    BY <1>2, <1>3
  <2> HIDE DEF T
  <2> QED BY <2>1, Counting
<1>5. Good(height)
  BY <1>4
<1>6. Paired(tree, index) <=> All(height)
  <2>1. Len(tree) - 2 = height - 1
    OBVIOUS
  <2> QED BY <2>1, Zenon DEF Paired
<1> HIDE DEF All
<1> QED BY <1>1, <1>5, <1>6 DEF Good

-----------------------------------------------------------------------------
(* What VerifyProof accepts. *)

\* The hashes VerifyProof goes through, from the leaf up.
Hashes(hash, index, proof, leaf) ==
    /\ hash[0] = leaf
    /\ \A k \in 1..Len(proof) :
         hash[k] = IF Place(index, k - 1) % 2 = 0 THEN Node(hash[k - 1], proof[k])
                   ELSE Node(proof[k], hash[k - 1])

\* The rounds of VerifyProof.
LEMMA HashRounds ==
  ASSUME NEW tree, NEW index, NEW proof, Len(proof) \in Nat, NEW leaf
  PROVE  \E hash : /\ Hashes(hash, index, proof, leaf)
                   /\ VerifyProof(tree, index, proof, leaf) <=> hash[Len(proof)] = Root(tree)
<1> DEFINE n == Len(proof)
           p == [loop |-> "hash", start |-> leaf, index |-> index, proof |-> proof]
           next(x, k) == IF Place(index, k - 1) % 2 = 0 THEN Node(x, proof[k])
                         ELSE Node(proof[k], x)
           Is(g) == g = [k \in 0..n |-> IF k = 0 THEN leaf ELSE next(g[k - 1], k)]
           hash == CHOOSE g : Is(g)
<1>1. \E g : Is(g)
  <2>1. PICK g : Rounds(g, p, n)
    BY RoundsExist
  <2>2. Is(g)
    BY <2>1 DEF Rounds, Round
  <2> QED BY <2>2
<1>2. Is(hash)
  BY <1>1, Zenon
<1>3. VerifyProof(tree, index, proof, leaf) <=> hash[n] = Root(tree)
  BY Zenon DEF VerifyProof
<1> HIDE DEF hash, next
<1>4. hash[0] = leaf /\ \A k \in 1..n : hash[k] = next(hash[k - 1], k)
  BY <1>2
<1>5. Hashes(hash, index, proof, leaf)
  BY <1>4 DEF next, Hashes
<1> QED BY <1>3, <1>5


\* No leaf is the hash of two nodes.
LEMMA LeafIsNoNode ==
  ASSUME NEW a, NEW b, NEW c
  PROVE  Leaf(a) # Node(b, c)
BY DEF Node, Leaf

\* A node over two places of a level, against the two places.
LEMMA ParentOf ==
  ASSUME NEW level, IsSeq(level), NEW q \in 0..Len(level) - 1
  PROVE  /\ q % 2 = 0 /\ Sibling(q) < Len(level)
            => Parents(level)[(q \div 2) + 1] = Node(level[q + 1], level[Sibling(q) + 1])
         /\ q % 2 # 0
            => Parents(level)[(q \div 2) + 1] = Node(level[Sibling(q) + 1], level[q + 1])
<1>1. Len(level) \in Nat /\ Len(level) >= 1
  BY SeqIs
<1> DEFINE n == Len(level)
           k == (q \div 2) + 1
<1>2. k \in 1..(n + 1) \div 2
  BY <1>1
<1>3. Parents(level)[k] = Node(level[2 * k - 1], level[IF 2 * k <= n THEN 2 * k ELSE 2 * k - 1])
  BY <1>1, <1>2, ParentsIs
<1>4. q % 2 = 0 /\ Sibling(q) < n => 2 * k - 1 = q + 1 /\ 2 * k = Sibling(q) + 1 /\ 2 * k <= n
  BY <1>1 DEF Sibling
<1>5. q % 2 # 0 => 2 * k - 1 = Sibling(q) + 1 /\ 2 * k = q + 1 /\ 2 * k <= n
  BY <1>1 DEF Sibling
<1> HIDE DEF k, n
<1> QED BY <1>3, <1>4, <1>5 DEF k, n

\* Its own leaf, where no node on the way up stands alone.
LEMMA OwnLeafAccepted ==
  ASSUME NEW leaves, IsSeq(leaves), NEW tree, NEW height \in Nat,
         TreeOver(leaves, tree, height), NEW index \in 0..Len(leaves) - 1,
         Paired(tree, index)
  PROVE  VerifyProof(tree, index, Proof(tree, index), leaves[index + 1])
<1> DEFINE proof == Proof(tree, index)
<1>1. Len(tree) = height + 1 /\ index \in Nat /\ Len(leaves) \in Nat
  BY SeqIs DEF TreeOver
<1>2. /\ Len(proof) = height /\ Len(proof) \in Nat
      /\ \A k \in 1..height : proof[k] = tree[k][Sibling(Place(index, k - 1)) + 1]
  <2>1. /\ Len(Proof(tree, index)) = height
        /\ \A k \in 1..height :
             Proof(tree, index)[k] = tree[k][Sibling(Place(index, k - 1)) + 1]
    BY <1>1, ProofIs
  <2> QED BY <2>1
<1> HIDE DEF proof
<1>3. PICK hash :
        /\ Hashes(hash, index, proof, leaves[index + 1])
        /\ VerifyProof(tree, index, proof, leaves[index + 1]) <=> hash[Len(proof)] = Root(tree)
  BY <1>2, HashRounds
<1> USE DEF Hashes
<1> DEFINE T == {k \in 0..height : hash[k] = tree[k + 1][Place(index, k) + 1]}
<1>4. 0 \in T
  <2>1. Place(index, 0) = index /\ tree[0 + 1] = leaves
    BY <1>1, PlaceIs DEF TreeOver
  <2> QED BY <1>3, <2>1
<1>5. ASSUME NEW k \in 0..height, k < height, k \in T PROVE k + 1 \in T
  <2> DEFINE q == Place(index, k)
             level == tree[k + 1]
  <2>1. k + 1 \in 1..height /\ (k + 1) - 1 = k /\ k + 1 \in 1..height + 1 /\ k + 1 \in 0..height
    BY <1>5
  <2>2. q \in 0..Len(level) - 1
    BY PlaceInside
  <2>3. Sibling(q) < Len(level)
    <3>1. k \in 0..Len(tree) - 2
      BY <1>1, <1>5
    <3> QED BY <3>1 DEF Paired, HasSibling
  <2>4. IsSeq(level) /\ tree[(k + 1) + 1] = Parents(level)
    BY <2>1 DEF TreeOver
  <2>5. Place(index, k + 1) = q \div 2
    BY <1>1, PlaceIs
  <2>6. hash[k] = level[q + 1] /\ proof[k + 1] = level[Sibling(q) + 1]
    BY <1>2, <1>5, <2>1
  <2>7. hash[k + 1] = IF q % 2 = 0 THEN Node(hash[k], proof[k + 1]) ELSE Node(proof[k + 1], hash[k])
    BY <1>2, <1>3, <2>1
  <2> HIDE DEF q, level, T
  <2>8. hash[k + 1] = Parents(level)[(q \div 2) + 1]
    <3>1. CASE q % 2 = 0
      BY <2>2, <2>3, <2>4, <2>6, <2>7, <3>1, ParentOf
    <3>2. CASE q % 2 # 0
      BY <2>2, <2>3, <2>4, <2>6, <2>7, <3>2, ParentOf
    <3> QED BY <3>1, <3>2
  <2> QED BY <2>1, <2>4, <2>5, <2>8 DEF T
<1> HIDE DEF T
<1>6. 0..height \subseteq T
  BY <1>4, <1>5, Counting
<1>7. hash[height] = tree[height + 1][Place(index, height) + 1]
  BY <1>6 DEF T
<1>8. Place(index, height) = 0
  <2>1. height \in 0..height
    OBVIOUS
  <2>2. Place(index, height) \in 0..Len(tree[height + 1]) - 1
    BY <2>1, PlaceInside
  <2>3. Len(tree[height + 1]) = 1
    BY DEF TreeOver
  <2> QED BY <2>2, <2>3
<1>9. Root(tree) = tree[height + 1][1]
  BY <1>1 DEF Root
<1> QED BY <1>2, <1>3, <1>7, <1>8, <1>9 DEF proof

\* Whatever the proof is, a leaf it is accepted for is the one at its place,
\* and the proof has an element for every level.
LEMMA OtherLeafRefused ==
  ASSUME NEW leaves, IsSeq(leaves), NEW tree, NEW height \in Nat,
         TreeOver(leaves, tree, height), NEW index \in 0..Len(leaves) - 1,
         NEW proof, IsSeq(proof), Len(proof) \in 0..height,
         NEW x, VerifyProof(tree, index, proof, Leaf(x))
  PROVE  Len(proof) = height /\ Leaf(x) = leaves[index + 1]
<1> DEFINE m == Len(proof)
<1>1. Len(tree) = height + 1 /\ index \in Nat /\ Len(leaves) \in Nat /\ m \in Nat
  BY SeqIs DEF TreeOver
<1>2. PICK hash :
        /\ Hashes(hash, index, proof, Leaf(x))
        /\ VerifyProof(tree, index, proof, Leaf(x)) <=> hash[m] = Root(tree)
  BY <1>1, HashRounds
<1> USE DEF Hashes
<1> DEFINE At(d, q) == /\ q \in 0..Len(tree[height - d + 1]) - 1
                       /\ hash[m - d] = tree[height - d + 1][q + 1]
                       /\ m = height => q = Place(index, height - d)
           T == {d \in 0..m : \E q : At(d, q)}
<1>3. 0 \in T
  <2>1. Root(tree) = tree[height + 1][1] /\ Len(tree[height + 1]) = 1
    BY <1>1 DEF Root, TreeOver
  <2>2. Place(index, height) \in 0..Len(tree[height + 1]) - 1
    <3>1. height \in 0..height
      OBVIOUS
    <3> QED BY <3>1, PlaceInside
  <2>3. height - 0 = height /\ m - 0 = m
    BY <1>1
  <2>4. At(0, 0)
    BY <1>2, <2>1, <2>2, <2>3
  <2> HIDE DEF At
  <2>5. 0 \in 0..m
    BY <1>1
  <2> QED BY <2>4, <2>5
<1>4. ASSUME NEW d \in 0..m, d < m, d \in T PROVE d + 1 \in T
  <2>1. PICK q : At(d, q)
    BY <1>4
  <2> DEFINE g == height - d
             k == m - d
             level == tree[g]
             r == Place(index, k - 1)
  <2>2. /\ g \in 1..height /\ k \in 1..m /\ k - 1 \in Nat /\ g - 1 \in Nat /\ g \in 1..height + 1
        /\ height - (d + 1) + 1 = g /\ m - (d + 1) = k - 1 /\ height - (d + 1) = g - 1
        /\ d + 1 \in 0..m /\ g - 1 \in 0..height
    BY <1>1, <1>4
  <2>3. IsSeq(level) /\ Len(level) >= 1 /\ Len(level) \in Nat /\ tree[g + 1] = Parents(level)
    BY <2>2, SeqIs DEF TreeOver
  <2> DEFINE n == Len(level)
             b == IF 2 * (q + 1) <= n THEN 2 * (q + 1) ELSE 2 * (q + 1) - 1
  <2>4. /\ q \in 0..((n + 1) \div 2) - 1
        /\ hash[k] = Node(level[2 * (q + 1) - 1], level[b])
    <3>1. Len(Parents(level)) = (n + 1) \div 2
      BY <2>3, ParentsIs
    <3>2. q \in 0..((n + 1) \div 2) - 1 /\ hash[k] = Parents(level)[q + 1]
      BY <2>1, <2>2, <2>3, <3>1
    <3>3. q + 1 \in 1..Len(Parents(level))
      <4>1. \A a \in Nat : q \in 0..a - 1 => q + 1 \in 1..a
        OBVIOUS
      <4>2. Len(Parents(level)) \in Nat
        BY <2>3, ParentsIs, SeqIs
      <4> HIDE DEF level
      <4> QED BY <3>1, <3>2, <4>1, <4>2
    <3> QED BY <2>3, <3>2, <3>3, ParentsIs
  <2>5. hash[k] = IF r % 2 = 0 THEN Node(hash[k - 1], proof[k]) ELSE Node(proof[k], hash[k - 1])
    BY <1>2, <2>2
  <2>6. hash[k - 1] = IF r % 2 = 0 THEN level[2 * (q + 1) - 1] ELSE level[b]
    <3> HIDE DEF r, b, k, level
    <3>1. CASE r % 2 = 0
      <4>1. Node(hash[k - 1], proof[k]) = Node(level[2 * (q + 1) - 1], level[b])
        BY <2>4, <2>5, <3>1, Zenon
      <4>2. hash[k - 1] = level[2 * (q + 1) - 1]
        BY <4>1 DEF Node
      <4> QED BY <3>1, <4>2
    <3>2. CASE r % 2 # 0
      <4>1. Node(proof[k], hash[k - 1]) = Node(level[2 * (q + 1) - 1], level[b])
        BY <2>4, <2>5, <3>2, Zenon
      <4>2. hash[k - 1] = level[b]
        BY <4>1 DEF Node
      <4> QED BY <3>2, <4>2
    <3> QED BY <3>1, <3>2
  <2>7. m = height => /\ r \in 0..n - 1 /\ q = r \div 2 /\ r = Place(index, g - 1)
    <3>1. ASSUME m = height PROVE r \in 0..n - 1 /\ q = r \div 2 /\ r = Place(index, g - 1)
      <4>1. k = g /\ (g - 1) + 1 = g
        BY <2>2, <3>1
      <4>2. q = Place(index, g)
        BY <2>1, <3>1
      <4>3. Place(index, g) = Place(index, g - 1) \div 2
        BY <1>1, <2>2, <4>1, PlaceIs
      <4>4. Place(index, g - 1) \in 0..n - 1
        BY <2>2, <4>1, PlaceInside
      <4> QED BY <4>1, <4>2, <4>3, <4>4
    <3> QED BY <3>1
  <2>8. r \in Nat
    BY <1>1, <2>2, PlaceIs
  <2> DEFINE s == IF r % 2 = 0 THEN 2 * q ELSE b - 1
  <2>9. s \in 0..n - 1 /\ hash[k - 1] = level[s + 1] /\ (m = height => s = r)
    <3> HIDE DEF k, g, r, level, n
    <3>1. n \in Nat /\ q \in Nat
      BY <2>3, <2>4 DEF n
    <3>2. s \in 0..n - 1
      BY <2>4, <2>8, <3>1
    <3>3. s + 1 = IF r % 2 = 0 THEN 2 * (q + 1) - 1 ELSE b
      BY <2>4, <2>8, <3>1
    <3>4. m = height => s = r
      BY <2>7, <2>8, <3>1
    <3> HIDE DEF s, b
    <3> QED BY <2>6, <3>2, <3>3, <3>4
  <2>10. At(d + 1, s)
    <3> HIDE DEF s
    <3>1. s \in 0..Len(tree[height - (d + 1) + 1]) - 1
      BY <2>2, <2>9
    <3>2. hash[m - (d + 1)] = tree[height - (d + 1) + 1][s + 1]
      BY <2>2, <2>9
    <3>3. m = height => s = Place(index, height - (d + 1))
      BY <2>2, <2>7, <2>9
    <3> QED BY <3>1, <3>2, <3>3
  <2> HIDE DEF At
  <2> QED BY <2>2, <2>10
<1> HIDE DEF T
<1>5. 0..m \subseteq T
  <2> HIDE DEF m
  <2> QED BY <1>1, <1>3, <1>4, Counting
<1>6. PICK q : At(m, q)
  BY <1>1, <1>5 DEF T
<1>7. Leaf(x) = tree[height - m + 1][q + 1] /\ q \in 0..Len(tree[height - m + 1]) - 1
  BY <1>1, <1>2, <1>6
<1>8. m = height
  <2> SUFFICES ASSUME m # height PROVE FALSE
    OBVIOUS
  <2> DEFINE g == height - m
             level == tree[g]
  <2>1. g \in 1..height /\ g \in 1..height + 1
    BY <1>1
  <2>2. IsSeq(level) /\ Len(level) >= 1 /\ tree[g + 1] = Parents(level)
    BY <2>1 DEF TreeOver
  <2>3. q + 1 \in 1..Len(Parents(level))
    <3>1. Len(Parents(level)) \in Nat
      BY <2>2, ParentsIs, SeqIs
    <3> QED BY <1>7, <2>2, <3>1
  <2>4. \E c, e : Leaf(x) = Node(c, e)
    <3>1. Leaf(x) = Parents(level)[q + 1]
      BY <1>7, <2>2
    <3> QED BY <2>2, <2>3, <3>1, ParentsIs
  <2> QED BY <2>4, LeafIsNoNode
<1>9. q = index /\ tree[1] = leaves /\ height - m + 1 = 1
  <2>1. q = Place(index, 0)
    BY <1>1, <1>6, <1>8
  <2> QED BY <1>1, <1>8, <2>1, PlaceIs DEF TreeOver
<1> QED BY <1>7, <1>8, <1>9

\* A proof from the tree is accepted for its own leaf, where every level gives
\* it a sibling, and for nothing else.
LEMMA ProofsAccepted ==
  ASSUME NEW leaves, IsSeq(leaves),
         \A i \in DOMAIN leaves : \E x : leaves[i] = Leaf(x),
         \A i, j \in DOMAIN leaves : leaves[i] = leaves[j] => i = j,
         NEW i \in 0..Len(leaves) - 1, NEW j \in 0..Len(leaves) - 1
  PROVE  VerifyProof(Tree(leaves), i, Proof(Tree(leaves), i), leaves[j + 1])
           <=> i = j /\ Paired(Tree(leaves), i)
<1> DEFINE tree == Tree(leaves)
<1>1. /\ Len(leaves) \in Nat /\ leaves # <<>> /\ DOMAIN leaves = 1..Len(leaves)
      /\ i + 1 \in DOMAIN leaves /\ j + 1 \in DOMAIN leaves
  BY SeqIs
<1>2. PICK height \in Nat : TreeOver(leaves, tree, height)
  BY <1>1, TreeIs
<1> HIDE DEF tree
<1>3. Len(tree) = height + 1
  BY <1>2 DEF TreeOver
<1>4. ASSUME i = j, Paired(tree, i)
      PROVE  VerifyProof(tree, i, Proof(tree, i), leaves[j + 1])
  BY <1>2, <1>4, OwnLeafAccepted
<1>5. ASSUME VerifyProof(tree, i, Proof(tree, i), leaves[j + 1])
      PROVE  i = j /\ Paired(tree, i)
  <2>1. /\ IsSeq(Proof(tree, i)) /\ Len(Proof(tree, i)) \in 0..height
        /\ ~Paired(tree, i) => Len(Proof(tree, i)) # height
    BY <1>3, ProofIs
  <2>2. PICK x : leaves[j + 1] = Leaf(x)
    BY <1>1
  <2>3. Len(Proof(tree, i)) = height /\ Leaf(x) = leaves[i + 1]
    BY <1>2, <1>5, <2>1, <2>2, OtherLeafRefused
  <2>4. i + 1 = j + 1
    BY <1>1, <2>2, <2>3
  <2> QED BY <2>1, <2>3, <2>4
<1> QED BY <1>4, <1>5 DEF tree

-----------------------------------------------------------------------------
(***************************************************************************)
(* The sovereign ledger.                                                   *)
(***************************************************************************)
Event == [id : EventIds, prev : Seq(EventIds), hash : Seq(EventIds)]
Exports == [events : Seq(Event), verified : BOOLEAN, sealed : BOOLEAN, root : Seq(EventIds)]
Archives == [data : Exports, count : Nat, root : Seq(EventIds),
             verified : BOOLEAN, sealed : BOOLEAN]
Files == [state : {"missing", "empty", "broken", "whole"}, data : Exports]

Saving == {"export", "create", "write"}
Archiving == {"count", "root", "verified", "sealed"}

Types ==
    /\ events \in Seq(Event) /\ lastHash \in Seq(EventIds)
    /\ verified \in BOOLEAN /\ sealed \in BOOLEAN /\ up \in BOOLEAN
    /\ at \in [Goroutines -> {"idle"} \cup Saving \cup Archiving]
    /\ name \in [Goroutines -> Millis] /\ got \in [Goroutines -> Archives]
    /\ dir \in [Millis -> Files] /\ clock \in Millis
    /\ begun \in [Millis -> Nat] /\ known \in [Millis -> Seq(Event)] /\ returned \subseteq Millis
    /\ archived \in Archives

\* The ledger: what links its events, and what no longer moves.
Chained == Linked(events) /\ lastHash = Identities(events, Len(events))

Frozen ==
    /\ sealed => verified
    /\ \A replay \in replays : verified /\ replay = events
    /\ ~up => ~verified /\ replays = {} /\ \A g \in Goroutines : at[g] = "idle"

Prefix(s, t) == Len(s) <= Len(t) /\ \A i \in 1..Len(s) : s[i] = t[i]

\* Exports link as the ledger did, in memory and in files.
ExportsLinked ==
    /\ \A g \in Goroutines : Linked(got[g].data.events)
    /\ \A m \in Millis : dir[m].state = "whole" => Linked(dir[m].data.events)

\* A goroutine alone with its millisecond carries what was known when it began.
Alone(g) == at[g] \in Saving /\ begun[name[g]] = 1

Covers(g) ==
    /\ at[g] \in Saving => begun[name[g]] >= 1
    /\ Alone(g) =>
        /\ name[g] \notin returned
        /\ \A h \in Goroutines : h # g /\ at[h] \in Saving => name[h] # name[g]
        /\ at[g] = "export" => Prefix(known[name[g]], events)
        /\ at[g] # "export" => Prefix(known[name[g]], got[g].data.events)
        /\ at[g] = "write" => dir[name[g]] = Empty

Covering == \A g \in Goroutines : Covers(g)

Returned ==
    \A m \in returned : /\ begun[m] >= 1
                        /\ begun[m] = 1 => /\ dir[m].state = "whole"
                                           /\ Prefix(known[m], dir[m].data.events)

\* What an archive has so far, against the ledger as it is.
Collects(g) ==
    /\ at[g] \in Archiving =>
        /\ Len(got[g].data.events) <= Len(events)
        /\ got[g].data.verified => verified /\ got[g].data.root = lastHash
    /\ at[g] \in {"root", "verified", "sealed"} =>
        Len(got[g].data.events) <= got[g].count /\ got[g].count <= Len(events)
    /\ at[g] \in {"verified", "sealed"} =>
        /\ got[g].count <= Len(got[g].root)
        /\ got[g].data.verified => got[g].root = got[g].data.root
    /\ at[g] = "sealed" /\ got[g].data.verified => got[g].verified

Collecting == (\A g \in Goroutines : Collects(g)) /\ Consistent(archived)

IInv == Types /\ Chained /\ Frozen /\ ExportsLinked /\ Covering /\ Returned /\ Collecting

-----------------------------------------------------------------------------
(* The types. *)

LEMMA NothingTyped == Nothing \in Archives /\ NoData \in Exports
<1>1. <<>> \in Seq(Event) /\ <<>> \in Seq(EventIds)
  OBVIOUS
<1> QED BY <1>1 DEF Nothing, Holding, NoData, Archives, Exports

LEMMA Identity ==
  ASSUME NEW es \in Seq(Event), NEW n \in 0..Len(es)
  PROVE  Identities(es, n) \in Seq(EventIds) /\ Len(Identities(es, n)) = n
<1>1. ASSUME NEW i \in 1..n PROVE es[i].id \in EventIds
  <2>1. Len(es) \in Nat /\ i \in 1..Len(es)
    OBVIOUS
  <2>2. es[i] \in Event
    BY <2>1
  <2> QED BY <2>2 DEF Event
<1> QED BY <1>1 DEF Identities

LEMMA AsFunction ==
  ASSUME NEW S, NEW s \in Seq(S)
  PROVE  s = [i \in 1..Len(s) |-> s[i]]
  OBVIOUS

LEMMA NoIdentities == Linked(<<>>) /\ Identities(<<>>, 0) = <<>> /\ Len(<<>>) = 0
<1>1. Identities(<<>>, 0) = [i \in 1..0 |-> <<>>[i].id] /\ 1..0 = {}
  BY DEF Identities
<1>2. [i \in 1..0 |-> <<>>[i].id] = <<>>
  BY <1>1
<1> QED BY <1>1, <1>2 DEF Linked

LEMMA ReappendedTyped ==
  ASSUME LedgerAssumption, NEW es \in Seq(Event)
  PROVE  /\ Reappended(es) \in Seq(Event)
         /\ Len(Reappended(es)) = IF Len(es) <= DefaultCapacity THEN Len(es)
                                  ELSE DefaultCapacity
<1> DEFINE n == IF Len(es) <= DefaultCapacity THEN Len(es) ELSE DefaultCapacity
<1>1. n \in 0..Len(es)
  BY DEF LedgerAssumption
<1>2. ASSUME NEW i \in 1..n
      PROVE  [id |-> es[i].id, prev |-> Identities(es, i - 1), hash |-> Identities(es, i)]
               \in Event
  <2>1. Len(es) \in Nat /\ i \in 1..Len(es) /\ i \in 0..Len(es) /\ i - 1 \in 0..Len(es)
    BY <1>1
  <2>2. es[i] \in Event
    BY <2>1
  <2> QED BY <2>1, <2>2, Identity DEF Event
<1> QED BY <1>1, <1>2 DEF Reappended

LEMMA TypesHold ==
  ASSUME LedgerAssumption, Types, LedgerNext
  PROVE  Types'
<1> USE DEF Types, bookVars, diskVars
<1>1. ASSUME NEW id \in EventIds, AppendEvent(id) PROVE Types'
  <2>1. lastHash' \in Seq(EventIds)
    BY <1>1 DEF AppendEvent
  <2>2. [id |-> id, prev |-> lastHash, hash |-> lastHash'] \in Event
    BY <2>1 DEF Event
  <2> QED BY <1>1, <2>1, <2>2 DEF AppendEvent
<1>2. CASE Verify \/ TamperDetection \/ Seal \/ Replay
  BY <1>2 DEF Verify, TamperDetection, Seal, Replay, verifyLocked
<1>3. ASSUME NEW g \in Goroutines, CreateSnapshot(g) PROVE Types'
  <2>1. clock' \in Millis
    BY <1>3, LedgerAssumption DEF CreateSnapshot, Millis, LedgerAssumption
  <2>2. <<>> \in Seq(Event)
    OBVIOUS
  <2> QED BY <1>3, <2>1, <2>2 DEF CreateSnapshot, Advance, Saving
<1>4. ASSUME NEW g \in Goroutines, Export(g) \/ ArchiveExport(g) PROVE Types'
  <2>1. Holding(TheExport) \in Archives
    <3>1. <<>> \in Seq(EventIds)
      OBVIOUS
    <3> QED BY <3>1 DEF Holding, TheExport, Archives, Exports
  <2> QED BY <1>4, <2>1 DEF Export, ArchiveExport, Advance, Saving, Archiving
<1>5. ASSUME NEW g \in Goroutines, OpenFile(g) PROVE Types'
  <2>1. Empty \in Files
    BY NothingTyped DEF Empty, Files
  <2> QED BY <1>5, <2>1 DEF OpenFile, Advance, Saving
<1>6. ASSUME NEW g \in Goroutines, WriteFile(g) \/ CheckpointFails(g) PROVE Types'
  <2>1. 0 \in Millis
    BY DEF Millis, LedgerAssumption
  <2>2. Broken \in Files /\ Whole(got[g].data) \in Files /\ dir[name[g]] \in Files
    BY NothingTyped DEF Broken, Whole, Files, Archives
  <2>3. dir' \in [Millis -> Files]
    <3>1. CASE WriteFile(g)
      BY <2>2, <3>1 DEF WriteFile, WrittenOver
    <3>2. CASE CheckpointFails(g)
      <4>1. PICK content \in {dir[name[g]], Broken} :
              dir' = dir \/ dir' = [dir EXCEPT ![name[g]] = content]
        BY <3>2 DEF CheckpointFails
      <4>2. content \in Files
        BY <2>2
      <4>3. [dir EXCEPT ![name[g]] = content] \in [Millis -> Files]
        BY <4>2
      <4> QED BY <4>1, <4>3
    <3> QED BY <1>6, <3>1, <3>2
  <2>4. returned' \subseteq Millis
    BY <1>6 DEF WriteFile, CheckpointFails
  <2>5. at' \in [Goroutines -> {"idle"} \cup Saving \cup Archiving]
    BY <1>6 DEF WriteFile, CheckpointFails, Advance
  <2>6. got' \in [Goroutines -> Archives] /\ name' \in [Goroutines -> Millis]
    <3>1. /\ got' = [got EXCEPT ![g] = Nothing]
          /\ name' = [name EXCEPT ![g] = 0]
      BY <1>6 DEF WriteFile, CheckpointFails
    <3> QED BY <2>1, <3>1, NothingTyped
  <2> QED BY <1>6, <2>3, <2>4, <2>5, <2>6 DEF WriteFile, CheckpointFails
<1>7. ASSUME NEW g \in Goroutines,
             ArchiveCount(g) \/ ArchiveRoot(g) \/ ArchiveVerified(g)
      PROVE  Types'
  <2>1. at' \in [Goroutines -> {"idle"} \cup Saving \cup Archiving]
    BY <1>7 DEF ArchiveCount, ArchiveRoot, ArchiveVerified, Advance, Archiving
  <2>2. got' \in [Goroutines -> Archives]
    <3>1. /\ [got[g] EXCEPT !.count = Len(events)] \in Archives
          /\ [got[g] EXCEPT !.root = lastHash] \in Archives
          /\ [got[g] EXCEPT !.verified = verified] \in Archives
      <4>1. got[g] \in Archives /\ Len(events) \in Nat
        OBVIOUS
      <4> QED BY <4>1 DEF Archives
    <3> QED BY <1>7, <3>1 DEF ArchiveCount, ArchiveRoot, ArchiveVerified
  <2> QED BY <1>7, <2>1, <2>2 DEF ArchiveCount, ArchiveRoot, ArchiveVerified
<1>8. ASSUME NEW g \in Goroutines, ArchiveSealed(g) PROVE Types'
  BY <1>8, NothingTyped DEF ArchiveSealed, Advance, Archives
<1>9. CASE Crash
  <2>1. Broken \in Files
    BY NothingTyped DEF Broken, Files
  <2>2. dir' \in [Millis -> Files]
    BY <1>9, <2>1 DEF Crash
  <2>3. <<>> \in Seq(Event) /\ <<>> \in Seq(EventIds) /\ 0 \in Millis
    BY DEF Millis, LedgerAssumption
  <2> QED BY <1>9, <2>2, <2>3, NothingTyped DEF Crash, OpenLedger
<1>10. CASE RecoverLatest
  <2>1. PICK m \in Millis : events' = Reappended(dir[m].data.events)
    BY <1>10 DEF RecoverLatest
  <2>2. dir[m].data.events \in Seq(Event)
    BY DEF Files, Exports
  <2>3. events' \in Seq(Event)
    BY <2>1, <2>2, ReappendedTyped
  <2>4. lastHash' \in Seq(EventIds)
    <3>1. Len(events') \in 0..Len(events')
      BY <2>3
    <3> QED BY <1>10, <2>3, <3>1, Identity DEF RecoverLatest
  <2> QED BY <1>10, <2>3, <2>4 DEF RecoverLatest
<1>11. CASE StartAfresh
  <2>1. <<>> \in Seq(Event) /\ <<>> \in Seq(EventIds)
    OBVIOUS
  <2> QED BY <1>11, <2>1 DEF StartAfresh, OpenLedger
<1> QED
  BY <1>1, <1>2, <1>3, <1>4, <1>5, <1>6, <1>7, <1>8, <1>9, <1>10, <1>11
  DEF LedgerNext, CheckpointNext, ArchiveNext

-----------------------------------------------------------------------------
(* The chain, and what a verified ledger keeps. *)

LEMMA ChainedHolds ==
  ASSUME LedgerAssumption, Types, Chained, ExportsLinked, LedgerNext
  PROVE  Chained'
<1> USE DEF bookVars, diskVars
<1>1. ASSUME NEW id \in EventIds, AppendEvent(id) PROVE Chained'
  <2> DEFINE new == [id |-> id, prev |-> lastHash, hash |-> Append(lastHash, id)]
  <2>1. events \in Seq(Event) /\ Len(events) \in Nat
    BY DEF Types
  <2>2. events' = Append(events, new) /\ lastHash' = Append(lastHash, id)
    BY <1>1 DEF AppendEvent
  <2>3. Len(events') = Len(events) + 1 /\ events'[Len(events) + 1] = new
    BY <2>1, <2>2
  <2>4. \A i \in 1..Len(events) : events'[i] = events[i]
    BY <2>1, <2>2
  <2>5. \A n \in 0..Len(events) : Identities(events', n) = Identities(events, n)
    BY <2>1, <2>4 DEF Identities
  <2>6. lastHash' = Identities(events', Len(events) + 1)
    <3>1. lastHash = Identities(events, Len(events)) /\ lastHash \in Seq(EventIds)
      BY DEF Chained, Types
    <3>2. Len(lastHash) = Len(events)
      BY <2>1, <3>1, Identity
    <3>3. \A i \in 1..Len(events) + 1 : lastHash'[i] = events'[i].id
      BY <2>1, <2>2, <2>3, <2>4, <3>1, <3>2 DEF Identities
    <3>4. lastHash' = [i \in 1..Len(events) + 1 |-> lastHash'[i]]
      <4>1. lastHash' \in Seq(EventIds) /\ Len(lastHash') = Len(events) + 1
        BY <2>1, <2>2, <3>1, <3>2
      <4> QED BY <4>1, AsFunction
    <3> QED BY <3>3, <3>4 DEF Identities
  <2>7. ASSUME NEW i \in DOMAIN events'
        PROVE  events'[i].prev = Identities(events', i - 1) /\ events'[i].hash = Identities(events', i)
    <3>1. CASE i = Len(events) + 1
      BY <2>1, <2>2, <2>3, <2>5, <2>6, <3>1 DEF Chained
    <3>2. CASE i \in 1..Len(events)
      BY <2>1, <2>4, <2>5, <3>2 DEF Chained, Linked
    <3> QED BY <2>1, <2>2, <2>3, <3>1, <3>2
  <2> QED BY <2>3, <2>6, <2>7 DEF Chained, Linked
<1>2. CASE Crash \/ StartAfresh
  <2>1. events' = <<>> /\ lastHash' = <<>>
    BY <1>2 DEF Crash, StartAfresh, OpenLedger
  <2> QED BY <2>1, NoIdentities DEF Chained
<1>3. CASE RecoverLatest
  <2>1. PICK m \in Millis : events' = Reappended(dir[m].data.events)
    BY <1>3 DEF RecoverLatest
  <2> DEFINE es == dir[m].data.events
  <2>2. es \in Seq(Event) /\ Len(es) \in Nat
    BY DEF Types, Files, Exports
  <2>3. /\ events' \in Seq(Event) /\ Len(events') \in 0..Len(es)
        /\ \A i \in 1..Len(events') : /\ events'[i].id = es[i].id
                                       /\ events'[i].prev = Identities(es, i - 1)
                                       /\ events'[i].hash = Identities(es, i)
    BY <2>1, <2>2, ReappendedTyped DEF Reappended, LedgerAssumption
  <2>4. ASSUME NEW n \in 0..Len(events')
        PROVE  Identities(events', n) = Identities(es, n)
    <3>1. \A i \in 1..n : events'[i].id = es[i].id
      BY <2>3
    <3> QED BY <3>1 DEF Identities
  <2>5. Linked(events')
    BY <2>3, <2>4 DEF Linked
  <2> QED BY <1>3, <2>5 DEF RecoverLatest, Chained
<1>4. CASE UNCHANGED <<events, lastHash>>
  BY <1>4 DEF Chained, Linked, Identities
<1> QED
  BY <1>1, <1>2, <1>3, <1>4
  DEF LedgerNext, CheckpointNext, ArchiveNext, Verify, TamperDetection, Seal, Replay,
      CreateSnapshot, Export, OpenFile, WriteFile, CheckpointFails, ArchiveExport, ArchiveCount,
      ArchiveRoot, ArchiveVerified, ArchiveSealed

LEMMA FrozenHolds ==
  ASSUME LedgerAssumption, Types, Frozen, LedgerNext
  PROVE  Frozen'
<1> USE DEF bookVars, diskVars, Frozen, Types
<1>1. ASSUME NEW id \in EventIds, AppendEvent(id) PROVE Frozen'
  BY <1>1 DEF AppendEvent
<1>2. CASE Verify \/ TamperDetection \/ Seal \/ Replay
  BY <1>2 DEF Verify, TamperDetection, Seal, Replay, verifyLocked
<1>3. ASSUME NEW g \in Goroutines, CheckpointNext(g) \/ ArchiveNext(g) PROVE Frozen'
  <2>1. up /\ up' /\ UNCHANGED <<verified, sealed, events, replays>>
    BY <1>3
    DEF CheckpointNext, ArchiveNext, Advance, CreateSnapshot, Export, OpenFile, WriteFile,
        CheckpointFails, ArchiveExport, ArchiveCount, ArchiveRoot, ArchiveVerified, ArchiveSealed
  <2> QED BY <2>1
<1>4. CASE Crash
  BY <1>4 DEF Crash, OpenLedger
<1>5. CASE RecoverLatest \/ StartAfresh
  BY <1>5 DEF RecoverLatest, StartAfresh, OpenLedger
<1> QED BY <1>1, <1>2, <1>3, <1>4, <1>5 DEF LedgerNext

LEMMA ExportsLinkedHolds ==
  ASSUME LedgerAssumption, Types, Chained, ExportsLinked, LedgerNext
  PROVE  ExportsLinked'
<1> USE DEF bookVars, diskVars, ExportsLinked, Types
<1>1. Linked(Nothing.data.events)
  BY DEF Nothing, Holding, NoData, Linked
<1>2. ASSUME NEW g \in Goroutines, Export(g) \/ ArchiveExport(g) PROVE ExportsLinked'
  <2>1. Linked(Holding(TheExport).data.events)
    BY DEF Chained, Holding, TheExport
  <2>2. got' = [got EXCEPT ![g] = Holding(TheExport)] /\ UNCHANGED dir
    BY <1>2 DEF Export, ArchiveExport
  <2> QED BY <2>1, <2>2
<1>3. ASSUME NEW g \in Goroutines, OpenFile(g) PROVE ExportsLinked'
  <2>1. dir' = [dir EXCEPT ![name[g]] = Empty] /\ UNCHANGED got /\ Empty.state # "whole"
    BY <1>3 DEF OpenFile, Empty
  <2> QED BY <2>1
<1>4. ASSUME NEW g \in Goroutines, WriteFile(g) \/ CheckpointFails(g) PROVE ExportsLinked'
  <2>1. PICK content \in {Whole(got[g].data), Broken, dir[name[g]]} :
          dir' = dir \/ dir' = [dir EXCEPT ![name[g]] = content]
    BY <1>4 DEF WriteFile, CheckpointFails, WrittenOver
  <2>2. content.state = "whole" => Linked(content.data.events)
    BY DEF Whole, Broken
  <2>3. got' = [got EXCEPT ![g] = Nothing]
    BY <1>4 DEF WriteFile, CheckpointFails
  <2> QED BY <1>1, <2>1, <2>2, <2>3
<1>5. ASSUME NEW g \in Goroutines,
             ArchiveCount(g) \/ ArchiveRoot(g) \/ ArchiveVerified(g) \/ ArchiveSealed(g)
      PROVE  ExportsLinked'
  <2>1. UNCHANGED dir /\ \A h \in Goroutines : got'[h].data = got[h].data \/ got'[h] = Nothing
    <3>1. CASE ArchiveCount(g)
      BY <3>1 DEF ArchiveCount, Archives
    <3>2. CASE ArchiveRoot(g)
      BY <3>2 DEF ArchiveRoot, Archives
    <3>3. CASE ArchiveVerified(g)
      BY <3>3 DEF ArchiveVerified, Archives
    <3>4. CASE ArchiveSealed(g)
      BY <3>4 DEF ArchiveSealed
    <3> QED BY <1>5, <3>1, <3>2, <3>3, <3>4
  <2>2. \A h \in Goroutines : Linked(got'[h].data.events)
    BY <1>1, <2>1
  <2> QED BY <2>1, <2>2
<1>6. CASE Crash
  <2>1. \A g \in Goroutines : got'[g] = Nothing
    BY <1>6 DEF Crash
  <2>2. \A m \in Millis : dir'[m] = dir[m] \/ dir'[m] = Broken
    BY <1>6 DEF Crash
  <2>3. \A g \in Goroutines : Linked(got'[g].data.events)
    BY <1>1, <2>1
  <2>4. Broken.state # "whole"
    BY DEF Broken
  <2>5. \A m \in Millis : dir'[m].state = "whole" => Linked(dir'[m].data.events)
    BY <2>2, <2>4
  <2> QED BY <2>3, <2>5
<1>7. CASE UNCHANGED <<got, dir>>
  BY <1>7
<1> QED
  BY <1>2, <1>3, <1>4, <1>5, <1>6, <1>7
  DEF LedgerNext, CheckpointNext, ArchiveNext, AppendEvent, Verify, TamperDetection, Seal, Replay,
      CreateSnapshot, RecoverLatest, StartAfresh

-----------------------------------------------------------------------------
(* Checkpoints. *)

LEMMA PrefixOfAppend ==
  ASSUME NEW S, NEW s \in Seq(S), NEW t \in Seq(S), NEW e \in S, Prefix(s, t)
  PROVE  Prefix(s, Append(t, e))
  BY DEF Prefix

LEMMA CoveringHolds ==
  ASSUME LedgerAssumption, Types, Frozen, Covering, Returned, LedgerNext
  PROVE  Covering'
<1> USE DEF bookVars, diskVars
<1>1. ASSUME NEW id \in EventIds, AppendEvent(id) PROVE Covering'
  <2>1. [id |-> id, prev |-> lastHash, hash |-> Append(lastHash, id)] \in Event
    BY DEF Types, Event
  <2>2. /\ events' = Append(events, [id |-> id, prev |-> lastHash, hash |-> Append(lastHash, id)])
        /\ UNCHANGED <<at, name, got, dir, begun, known, returned>>
    BY <1>1 DEF AppendEvent
  <2>3. \A m \in Millis : Prefix(known[m], events) => Prefix(known[m], events')
    BY <2>1, <2>2, PrefixOfAppend DEF Types
  <2>4. \A g \in Goroutines : name[g] \in Millis
    BY DEF Types
  <2> QED BY <2>2, <2>3, <2>4 DEF Covering, Covers, Alone
<1>2. ASSUME NEW g \in Goroutines, CreateSnapshot(g) PROVE Covering'
  <2>1. /\ at[g] = "idle" /\ clock' \in Millis
        /\ at' = [at EXCEPT ![g] = "export"] /\ name' = [name EXCEPT ![g] = clock']
        /\ begun' = [begun EXCEPT ![clock'] = @ + 1]
        /\ known' = [known EXCEPT ![clock'] = IF begun[clock'] = 0 THEN events ELSE <<>>]
        /\ UNCHANGED <<events, got, dir, returned>>
    BY <1>2 DEF CreateSnapshot, Advance, Types, Millis, LedgerAssumption
  <2>2. Prefix(events, events)
    BY DEF Prefix, Types
  <2>3. ASSUME NEW h \in Goroutines PROVE Covers(h)'
    <3>1. /\ name \in [Goroutines -> Millis] /\ begun \in [Millis -> Nat]
          /\ at \in [Goroutines -> {"idle"} \cup Saving \cup Archiving]
          /\ known \in [Millis -> Seq(Event)] /\ begun[clock'] \in Nat
      BY <2>1 DEF Types
    <3>2. Covers(h) /\ \A k \in Goroutines : at[k] \in Saving => begun[name[k]] >= 1
      BY DEF Covering, Covers
    <3>3. CASE h = g
      <4>1. at'[h] = "export" /\ name'[h] = clock' /\ begun'[clock'] = begun[clock'] + 1
        BY <2>1, <3>1, <3>3
      <4>2. CASE begun[clock'] = 0
        <5>1. clock' \notin returned
          BY <4>2 DEF Returned
        <5>2. \A k \in Goroutines : k # h /\ at'[k] \in Saving => name'[k] # name'[h]
          BY <2>1, <3>1, <3>2, <3>3, <4>1, <4>2
        <5>3. known'[clock'] = events
          BY <2>1, <3>1, <4>2
        <5> QED BY <2>1, <2>2, <4>1, <4>2, <5>1, <5>2, <5>3 DEF Covers, Alone
      <4>3. CASE begun[clock'] # 0
        BY <3>1, <4>1, <4>3 DEF Covers, Alone
      <4> QED BY <4>2, <4>3
    <3>4. CASE h # g
      <4>1. at'[h] = at[h] /\ name'[h] = name[h]
        BY <2>1, <3>1, <3>4
      <4>2. CASE name[h] = clock'
        <5>1. begun'[name[h]] = begun[name[h]] + 1
          BY <2>1, <3>1, <4>2
        <5> QED BY <3>1, <3>2, <4>1, <4>2, <5>1 DEF Covers, Alone
      <4>3. CASE name[h] # clock'
        <5>1. begun'[name[h]] = begun[name[h]] /\ known'[name[h]] = known[name[h]]
          BY <2>1, <3>1, <4>3
        <5>2. \A k \in Goroutines :
                k # h /\ at'[k] \in Saving =>
                  (k = g /\ name'[k] = clock') \/ (at[k] \in Saving /\ name'[k] = name[k])
          BY <2>1, <3>1
        <5> QED BY <2>1, <3>1, <3>2, <4>1, <4>3, <5>1, <5>2 DEF Covers, Alone
      <4> QED BY <4>2, <4>3
    <3> QED BY <3>3, <3>4
  <2> QED BY <2>3 DEF Covering
<1>3. ASSUME NEW g \in Goroutines, Export(g) PROVE Covering'
  <2>1. /\ at[g] = "export" /\ at' = [at EXCEPT ![g] = "create"]
        /\ got' = [got EXCEPT ![g] = Holding(TheExport)] /\ Holding(TheExport).data.events = events
        /\ UNCHANGED <<events, name, dir, begun, known, returned>>
    BY <1>3 DEF Export, Advance, Holding, TheExport
  <2>2. ASSUME NEW h \in Goroutines PROVE Covers(h)'
    <3>1. Covers(h) /\ (at'[h] \in Saving <=> at[h] \in Saving)
      BY <2>1 DEF Covering, Types, Saving
    <3>2. \A k \in Goroutines : at'[k] \in Saving <=> at[k] \in Saving
      BY <2>1 DEF Types, Saving
    <3>3. CASE h = g
      <4>1. at'[h] = "create" /\ got'[h].data.events = events
        BY <2>1, <3>3 DEF Types
      <4> QED BY <2>1, <3>1, <3>2, <3>3, <4>1 DEF Covers, Alone
    <3>4. CASE h # g
      <4>1. at'[h] = at[h] /\ got'[h] = got[h]
        BY <2>1, <3>4 DEF Types
      <4> QED BY <2>1, <3>1, <3>2, <4>1 DEF Covers, Alone
    <3> QED BY <3>3, <3>4
  <2> QED BY <2>2 DEF Covering
<1>4. ASSUME NEW g \in Goroutines, OpenFile(g) PROVE Covering'
  <2>1. /\ at[g] = "create" /\ at' = [at EXCEPT ![g] = "write"]
        /\ dir' = [dir EXCEPT ![name[g]] = Empty]
        /\ UNCHANGED <<events, name, got, begun, known, returned>>
    BY <1>4 DEF OpenFile, Advance
  <2>2. ASSUME NEW h \in Goroutines PROVE Covers(h)'
    <3>1. Covers(h) /\ Covers(g) /\ name \in [Goroutines -> Millis] /\ dir \in [Millis -> Files]
      BY DEF Covering, Types
    <3>2. \A k \in Goroutines : at'[k] \in Saving <=> at[k] \in Saving
      BY <2>1 DEF Types, Saving
    <3>3. CASE h = g
      <4>1. at'[h] = "write" /\ dir'[name[h]] = Empty
        BY <2>1, <3>1, <3>3 DEF Types
      <4> QED BY <2>1, <3>1, <3>2, <3>3, <4>1 DEF Covers, Alone
    <3>4. CASE h # g
      <4>1. at'[h] = at[h]
        BY <2>1, <3>4 DEF Types
      <4>2. at[h] = "write" /\ dir[name[h]] = Empty => dir'[name[h]] = Empty
        BY <2>1, <3>1
      <4> QED BY <2>1, <3>1, <3>2, <4>1, <4>2 DEF Covers, Alone
    <3> QED BY <3>3, <3>4
  <2> QED BY <2>2 DEF Covering
<1>5. ASSUME NEW g \in Goroutines, WriteFile(g) \/ CheckpointFails(g) PROVE Covering'
  <2>1. /\ at[g] \in Saving /\ at' = [at EXCEPT ![g] = "idle"]
        /\ \/ dir' = dir
           \/ \E content \in {Whole(got[g].data), Broken, dir[name[g]]} :
                 dir' = [dir EXCEPT ![name[g]] = content]
        /\ got' = [got EXCEPT ![g] = Nothing] /\ name' = [name EXCEPT ![g] = 0]
        /\ returned' \subseteq returned \cup {name[g]}
        /\ UNCHANGED <<events, begun, known>>
    BY <1>5 DEF WriteFile, CheckpointFails, Advance, Saving, WrittenOver
  <2>2. ASSUME NEW h \in Goroutines PROVE Covers(h)'
    <3>1. /\ Covers(h) /\ name \in [Goroutines -> Millis] /\ dir \in [Millis -> Files]
          /\ at \in [Goroutines -> {"idle"} \cup Saving \cup Archiving] /\ "idle" \notin Saving
      BY DEF Covering, Types, Saving
    <3>2. CASE h = g
      <4>1. at'[h] = "idle"
        BY <2>1, <3>1, <3>2
      <4> QED BY <3>1, <4>1 DEF Covers, Alone
    <3>3. CASE h # g
      <4>1. at'[h] = at[h] /\ name'[h] = name[h] /\ got'[h] = got[h]
        BY <2>1, <3>1, <3>3 DEF Types
      <4>2. \A k \in Goroutines : at'[k] \in Saving => at[k] \in Saving /\ name'[k] = name[k]
        BY <2>1, <3>1
      <4>3. name[g] # name[h] => dir'[name[h]] = dir[name[h]]
        BY <2>1, <3>1
      <4>4. Alone(h) => name[g] # name[h]
        BY <2>1, <3>1, <3>3 DEF Covers, Alone
      <4> QED BY <2>1, <3>1, <4>1, <4>2, <4>3, <4>4 DEF Covers, Alone
    <3> QED BY <3>2, <3>3
  <2> QED BY <2>2 DEF Covering
<1>6. ASSUME NEW g \in Goroutines, ArchiveNext(g) PROVE Covering'
  <2>1. /\ at[g] \notin Saving /\ at'[g] \notin Saving
        /\ \A h \in Goroutines \ {g} : at'[h] = at[h] /\ got'[h] = got[h]
        /\ UNCHANGED <<events, name, dir, begun, known, returned>>
    BY <1>6
    DEF ArchiveNext, ArchiveExport, ArchiveCount, ArchiveRoot, ArchiveVerified, ArchiveSealed,
        Advance, Saving, Types
  <2> QED BY <2>1 DEF Covering, Covers, Alone
<1>7. CASE Crash
  <2>1. \A g \in Goroutines : at'[g] \notin Saving
    BY <1>7 DEF Crash, Saving
  <2> QED BY <2>1 DEF Covering, Covers, Alone
<1>8. CASE RecoverLatest \/ StartAfresh
  <2>1. \A g \in Goroutines : at'[g] \notin Saving
    BY <1>8 DEF RecoverLatest, StartAfresh, Frozen, Saving
  <2> QED BY <2>1 DEF Covering, Covers, Alone
<1>9. CASE Verify \/ TamperDetection \/ Seal \/ Replay
  <2>1. UNCHANGED <<events, at, name, got, dir, begun, known, returned>>
    BY <1>9 DEF Verify, TamperDetection, Seal, Replay
  <2> QED BY <2>1 DEF Covering, Covers, Alone
<1> QED
  BY <1>1, <1>2, <1>3, <1>4, <1>5, <1>6, <1>7, <1>8, <1>9 DEF LedgerNext, CheckpointNext

LEMMA ReturnedHolds ==
  ASSUME LedgerAssumption, Types, Covering, Returned, LedgerNext
  PROVE  Returned'
<1> USE DEF bookVars, diskVars
<1>1. ASSUME NEW g \in Goroutines, CreateSnapshot(g) PROVE Returned'
  <2>1. /\ begun' = [begun EXCEPT ![clock'] = @ + 1]
        /\ known' = [known EXCEPT ![clock'] = IF begun[clock'] = 0 THEN events ELSE <<>>]
        /\ UNCHANGED <<dir, returned>>
    BY <1>1 DEF CreateSnapshot
  <2>2. ASSUME NEW m \in returned' PROVE begun'[m] >= 1 /\ (begun'[m] = 1 => clock' # m)
    BY <2>1 DEF Returned, Types
  <2>3. ASSUME NEW m \in returned', begun'[m] = 1
        PROVE  dir'[m].state = "whole" /\ Prefix(known'[m], dir'[m].data.events)
    <3>1. known'[m] = known[m] /\ begun[m] = 1
      BY <2>1, <2>2, <2>3 DEF Types
    <3> QED BY <2>1, <3>1 DEF Returned
  <2> QED BY <2>2, <2>3 DEF Returned
<1>2. ASSUME NEW g \in Goroutines, OpenFile(g) PROVE Returned'
  <2>1. /\ at[g] \in Saving /\ dir' = [dir EXCEPT ![name[g]] = Empty]
        /\ UNCHANGED <<begun, known, returned>>
    BY <1>2 DEF OpenFile, Advance, Saving
  <2>2. \A m \in returned : begun[m] = 1 => m # name[g]
    BY <2>1 DEF Covering, Covers, Alone
  <2>3. \A m \in returned : m # name[g] => dir'[m] = dir[m]
    BY <2>1 DEF Types
  <2> QED BY <2>1, <2>2, <2>3 DEF Returned
<1>3. ASSUME NEW g \in Goroutines, WriteFile(g) PROVE Returned'
  <2>1. PICK content \in WrittenOver(dir[name[g]], got[g].data) :
          dir' = [dir EXCEPT ![name[g]] = content]
    BY <1>3 DEF WriteFile
  <2>2. /\ at[g] = "write" /\ returned' = returned \cup {name[g]} /\ UNCHANGED <<begun, known>>
    BY <1>3 DEF WriteFile, Advance
  <2>3. Covers(g) /\ begun[name[g]] >= 1 /\ name[g] \in Millis /\ dir \in [Millis -> Files]
    BY <2>2 DEF Covering, Covers, Saving, Types
  <2>4. ASSUME begun[name[g]] = 1
        PROVE  dir'[name[g]].state = "whole" /\ Prefix(known[name[g]], dir'[name[g]].data.events)
    <3>1. Alone(g) /\ dir[name[g]] = Empty /\ Prefix(known[name[g]], got[g].data.events)
      BY <2>2, <2>3, <2>4 DEF Covers, Alone, Saving
    <3>2. dir'[name[g]] = Whole(got[g].data)
      BY <2>1, <2>3, <3>1 DEF WrittenOver
    <3> QED BY <3>1, <3>2 DEF Whole
  <2>5. ASSUME NEW m \in returned, m # name[g]
        PROVE  dir'[m] = dir[m]
    BY <2>1, <2>5 DEF Types
  <2> QED BY <2>2, <2>3, <2>4, <2>5 DEF Returned
<1>4. ASSUME NEW g \in Goroutines, CheckpointFails(g) PROVE Returned'
  <2>1. PICK content \in {Broken, dir[name[g]]} :
          dir' = dir \/ dir' = [dir EXCEPT ![name[g]] = content]
    BY <1>4 DEF CheckpointFails
  <2>2. /\ at[g] \in Saving /\ UNCHANGED <<begun, known, returned>>
    BY <1>4 DEF CheckpointFails, Advance, Saving
  <2>3. \A m \in returned : begun[m] = 1 => m # name[g]
    BY <2>2 DEF Covering, Covers, Alone
  <2>4. \A m \in returned : m # name[g] => dir'[m] = dir[m]
    BY <2>1 DEF Types
  <2> QED BY <2>2, <2>3, <2>4 DEF Returned
<1>5. CASE Crash
  <2>1. PICK cut \in SUBSET {name[g] : g \in {g \in Goroutines : at[g] = "write"}} :
          dir' = [m \in Millis |-> IF m \in cut THEN Broken ELSE dir[m]]
    BY <1>5 DEF Crash
  <2>2. ASSUME NEW m \in returned, begun[m] = 1
        PROVE  m \notin cut
    <3>1. \A g \in Goroutines : at[g] = "write" => m # name[g]
      BY <2>2 DEF Covering, Covers, Alone, Saving
    <3> QED BY <3>1
  <2>3. \A m \in returned : begun[m] = 1 => dir'[m] = dir[m]
    BY <2>1, <2>2 DEF Types
  <2>4. UNCHANGED <<begun, known, returned>>
    BY <1>5 DEF Crash
  <2> QED BY <2>3, <2>4 DEF Returned
<1>6. CASE UNCHANGED <<dir, begun, known, returned>>
  BY <1>6 DEF Returned
<1> QED
  BY <1>1, <1>2, <1>3, <1>4, <1>5, <1>6
  DEF LedgerNext, CheckpointNext, ArchiveNext, AppendEvent, Verify, TamperDetection, Seal, Replay,
      Export, ArchiveExport, ArchiveCount, ArchiveRoot, ArchiveVerified, ArchiveSealed,
      RecoverLatest, StartAfresh

-----------------------------------------------------------------------------
(* Archives. *)

LEMMA NothingConsistent == Consistent(Nothing)
  BY DEF Consistent, Nothing, Holding, NoData

LEMMA CollectingHolds ==
  ASSUME LedgerAssumption, Types, Chained, Frozen, Collecting, LedgerNext
  PROVE  Collecting'
<1> USE DEF bookVars, diskVars
<1>1. Len(events) \in Nat /\ Len(lastHash) = Len(events)
  <2>1. Len(events) \in 0..Len(events)
    BY DEF Types
  <2> QED BY <2>1, Identity DEF Chained, Types
<1>2. ASSUME NEW id \in EventIds, AppendEvent(id) PROVE Collecting'
  <2>1. /\ ~verified /\ UNCHANGED <<verified, at, got, archived>>
        /\ Len(events') = Len(events) + 1
    BY <1>2 DEF AppendEvent, Types
  <2>2. ASSUME NEW g \in Goroutines PROVE Collects(g)'
    <3>1. Collects(g) /\ Len(got[g].data.events) \in Nat /\ got[g].count \in Nat
      BY DEF Collecting, Types, Archives, Exports
    <3>2. at[g] \in Archiving => ~got[g].data.verified
      BY <2>1, <3>1 DEF Collects
    <3> QED BY <1>1, <2>1, <3>1, <3>2 DEF Collects, Archiving
  <2> QED BY <2>1, <2>2 DEF Collecting, Consistent
<1>3. CASE Verify \/ TamperDetection \/ Seal \/ Replay
  <2>1. /\ UNCHANGED <<events, lastHash, at, got, archived>>
        /\ verified => verified'
    BY <1>3 DEF Verify, TamperDetection, Seal, Replay, verifyLocked
  <2> QED BY <2>1 DEF Collecting, Collects, Consistent
<1>4. ASSUME NEW g \in Goroutines, CheckpointNext(g) PROVE Collecting'
  <2>1. /\ at'[g] \notin Archiving
        /\ \A h \in Goroutines \ {g} : at'[h] = at[h] /\ got'[h] = got[h]
        /\ UNCHANGED <<events, lastHash, verified, archived>>
    BY <1>4
    DEF CheckpointNext, CreateSnapshot, Export, OpenFile, WriteFile, CheckpointFails, Advance,
        Archiving, Types
  <2> QED BY <2>1 DEF Collecting, Collects, Consistent, Archiving
<1>5. ASSUME NEW g \in Goroutines, ArchiveNext(g) PROVE Collecting'
  <2>1. /\ \A h \in Goroutines \ {g} : at'[h] = at[h] /\ got'[h] = got[h]
        /\ UNCHANGED <<events, lastHash, verified>>
    BY <1>5
    DEF ArchiveNext, ArchiveExport, ArchiveCount, ArchiveRoot, ArchiveVerified, ArchiveSealed,
        Advance, Types
  <2>2. \A h \in Goroutines \ {g} : Collects(h)'
    BY <2>1 DEF Collecting, Collects
  <2>3. /\ Collects(g) /\ got[g] \in Archives /\ got \in [Goroutines -> Archives]
        /\ at \in [Goroutines -> {"idle"} \cup Saving \cup Archiving]
    BY DEF Collecting, Types
  <2>4. CASE ArchiveExport(g)
    <3>1. at'[g] = "count" /\ got'[g] = Holding(TheExport) /\ UNCHANGED archived
      BY <2>3, <2>4 DEF ArchiveExport, Advance
    <3>2. Collects(g)'
      BY <1>1, <2>1, <3>1 DEF Collects, Holding, TheExport
    <3> QED BY <2>2, <3>1, <3>2 DEF Collecting, Consistent
  <2>5. CASE ArchiveCount(g)
    <3>1. /\ at[g] = "count" /\ at'[g] = "root" /\ UNCHANGED archived
          /\ got'[g] = [got[g] EXCEPT !.count = Len(events)]
      BY <2>3, <2>5 DEF ArchiveCount, Advance
    <3>2. got'[g].data = got[g].data /\ got'[g].count = Len(events)
      BY <2>3, <3>1 DEF Archives
    <3>3. Collects(g)'
      BY <1>1, <2>1, <2>3, <3>1, <3>2 DEF Collects, Archiving
    <3> QED BY <2>2, <3>1, <3>3 DEF Collecting, Consistent
  <2>6. CASE ArchiveRoot(g)
    <3>1. /\ at[g] = "root" /\ at'[g] = "verified" /\ UNCHANGED archived
          /\ got'[g] = [got[g] EXCEPT !.root = lastHash]
      BY <2>3, <2>6 DEF ArchiveRoot, Advance
    <3>2. got'[g].data = got[g].data /\ got'[g].count = got[g].count /\ got'[g].root = lastHash
      BY <2>3, <3>1 DEF Archives
    <3>3. Collects(g)'
      BY <1>1, <2>1, <2>3, <3>1, <3>2 DEF Collects, Archiving
    <3> QED BY <2>2, <3>1, <3>3 DEF Collecting, Consistent
  <2>7. CASE ArchiveVerified(g)
    <3>1. /\ at[g] = "verified" /\ at'[g] = "sealed" /\ UNCHANGED archived
          /\ got'[g] = [got[g] EXCEPT !.verified = verified]
      BY <2>3, <2>7 DEF ArchiveVerified, Advance
    <3>2. /\ got'[g].data = got[g].data /\ got'[g].count = got[g].count
          /\ got'[g].root = got[g].root /\ got'[g].verified = verified
      BY <2>3, <3>1 DEF Archives
    <3>3. Collects(g)'
      BY <1>1, <2>1, <2>3, <3>1, <3>2 DEF Collects, Archiving
    <3> QED BY <2>2, <3>1, <3>3 DEF Collecting, Consistent
  <2>8. CASE ArchiveSealed(g)
    <3>1. /\ at[g] = "sealed" /\ at'[g] = "idle"
          /\ archived' = [got[g] EXCEPT !.sealed = sealed]
      BY <2>3, <2>8 DEF ArchiveSealed, Advance
    <3>2. /\ archived'.data = got[g].data /\ archived'.count = got[g].count
          /\ archived'.root = got[g].root /\ archived'.verified = got[g].verified
      BY <2>3, <3>1 DEF Archives
    <3>3. Consistent(archived')
      BY <2>3, <3>1, <3>2 DEF Collects, Consistent
    <3>4. Collects(g)'
      BY <3>1 DEF Collects, Archiving
    <3> QED BY <2>2, <3>3, <3>4 DEF Collecting, Consistent
  <2> QED BY <1>5, <2>4, <2>5, <2>6, <2>7, <2>8 DEF ArchiveNext
<1>6. CASE Crash
  <2>1. (\A g \in Goroutines : at'[g] = "idle") /\ archived' = Nothing
    BY <1>6 DEF Crash
  <2> QED BY <2>1, NothingConsistent DEF Collecting, Collects, Archiving, Consistent
<1>7. CASE RecoverLatest \/ StartAfresh
  <2>1. (\A g \in Goroutines : at'[g] = "idle") /\ UNCHANGED archived
    BY <1>7 DEF RecoverLatest, StartAfresh, Frozen
  <2> QED BY <2>1 DEF Collecting, Collects, Archiving, Consistent
<1> QED BY <1>2, <1>3, <1>4, <1>5, <1>6, <1>7 DEF LedgerNext

-----------------------------------------------------------------------------
(* The invariant, and what it means for callers. *)

LEMMA InitHolds ==
  ASSUME LedgerAssumption, LedgerInit
  PROVE  IInv
<1> USE DEF LedgerInit
<1>1. <<>> \in Seq(Event) /\ <<>> \in Seq(EventIds) /\ 0 \in Millis
  BY DEF LedgerAssumption, Millis
<1>2. NoFile \in Files /\ NoFile.state # "whole"
  BY NothingTyped DEF NoFile, Files
<1>3. Types
  <2>1. dir \in [Millis -> Files] /\ got \in [Goroutines -> Archives]
    BY <1>2, NothingTyped
  <2> QED BY <1>1, <2>1, NothingTyped DEF Types
<1>4. Chained
  BY NoIdentities DEF Chained
<1>5. Frozen
  BY DEF Frozen
<1>6. ExportsLinked
  <2>1. Linked(Nothing.data.events)
    BY NoIdentities DEF Nothing, Holding, NoData
  <2> QED BY <1>2, <2>1 DEF ExportsLinked
<1>7. Covering /\ Returned
  BY DEF Covering, Covers, Alone, Saving, Returned
<1>8. Collecting
  BY NothingConsistent DEF Collecting, Collects, Archiving
<1> QED BY <1>3, <1>4, <1>5, <1>6, <1>7, <1>8 DEF IInv

(***************************************************************************)
(* Goroutines that append, verify, seal, replay, save checkpoints and make *)
(* archives, with crashes and failed writes, keep the strengthened         *)
(* invariant: the chain of the ledger and of every export, what a verified *)
(* ledger freezes, what a checkpoint under way still covers, and what an   *)
(* archive under way has read.                                             *)
(***************************************************************************)
THEOREM LedgerInvariant ==
  ASSUME LedgerAssumption
  PROVE  LedgerSpec => []IInv
<1>1. LedgerInit => IInv
  BY InitHolds
<1>2. IInv /\ [LedgerNext]_ledgerVars => IInv'
  <2>1. ASSUME IInv, LedgerNext PROVE IInv'
    BY <2>1, TypesHold, ChainedHolds, FrozenHolds, ExportsLinkedHolds, CoveringHolds,
       ReturnedHolds, CollectingHolds DEF IInv
  <2>2. ASSUME IInv, UNCHANGED ledgerVars PROVE IInv'
    BY <2>2
    DEF ledgerVars, bookVars, diskVars, IInv, Types, Chained, Linked, Frozen, ExportsLinked,
        Covering, Covers, Alone, Returned, Collecting, Collects, Consistent
  <2> QED BY <2>1, <2>2
<1> QED BY <1>1, <1>2, PTL DEF LedgerSpec

LEMMA CoverMeans ==
  ASSUME LedgerAssumption, IInv
  PROVE  CheckpointsCover
<1> SUFFICES ASSUME NEW m \in Millis, Own(m)
             PROVE  /\ Readable(m)
                    /\ IsPrefix(UpTo(known[m], DefaultCapacity), Reappended(dir[m].data.events))
  BY DEF CheckpointsCover
<1> DEFINE es == dir[m].data.events
<1> DEFINE s == UpTo(known[m], DefaultCapacity)
<1> DEFINE t == Reappended(es)
<1>1. dir[m].state = "whole" /\ Prefix(known[m], es) /\ Linked(es)
  BY DEF Own, IInv, Returned, ExportsLinked
<1>2. /\ known[m] \in Seq(Event) /\ es \in Seq(Event) /\ Len(es) \in Nat
      /\ Len(known[m]) \in Nat /\ DefaultCapacity \in Nat
  BY DEF IInv, Types, Files, Exports, LedgerAssumption
<1>3. /\ t \in Seq(Event)
      /\ Len(t) = IF Len(es) <= DefaultCapacity THEN Len(es) ELSE DefaultCapacity
  BY <1>2, ReappendedTyped
<1>4. ASSUME NEW i \in 1..Len(t) PROVE t[i] = es[i]
  <2>1. i \in 1..Len(es) /\ es[i] \in Event
    BY <1>2, <1>3
  <2>2. t[i] = [id |-> es[i].id, prev |-> Identities(es, i - 1), hash |-> Identities(es, i)]
    BY <1>2, <1>3 DEF Reappended
  <2>3. es[i].prev = Identities(es, i - 1) /\ es[i].hash = Identities(es, i)
    BY <1>1, <1>2, <2>1 DEF Linked
  <2>4. es[i] = [id |-> es[i].id, prev |-> es[i].prev, hash |-> es[i].hash]
    BY <2>1 DEF Event
  <2> QED BY <2>2, <2>3, <2>4
<1>5. /\ s \in Seq(Event) /\ Len(s) \in Nat /\ Len(s) <= Len(t)
      /\ \A i \in 1..Len(s) : s[i] = known[m][i] /\ known[m][i] = es[i]
  <2> DEFINE k == known[m]
  <2> DEFINE n == IF Len(k) <= DefaultCapacity THEN Len(k) ELSE DefaultCapacity
  <2>1. n \in Nat /\ n <= Len(k) /\ n <= Len(t) /\ Len(k) <= Len(es)
    BY <1>1, <1>2, <1>3 DEF Prefix
  <2>2. \A i \in 1..n : k[i] \in Event /\ k[i] = es[i]
    BY <1>1, <1>2, <2>1 DEF Prefix
  <2>3. s = [i \in 1..n |-> k[i]]
    BY DEF UpTo
  <2> HIDE DEF k, n, s, t
  <2>4. s \in Seq(Event) /\ Len(s) = n
    BY <2>1, <2>2, <2>3
  <2> QED BY <2>1, <2>2, <2>3, <2>4 DEF k
<1>6. \A i \in 1..Len(s) : s[i] = t[i]
  BY <1>3, <1>4, <1>5
<1>7. SubSeq(s, 1, Len(s)) = SubSeq(t, 1, Len(s))
  BY <1>3, <1>5, <1>6
<1> QED BY <1>1, <1>5, <1>7 DEF Readable, IsPrefix

(***************************************************************************)
(* A checkpoint that was returned and shares its millisecond with no other *)
(* is recovered with every event the ledger held when it was begun, up to  *)
(* the capacity of a new ledger.                                           *)
(***************************************************************************)
THEOREM CheckpointsCoverTheirLedger ==
  ASSUME LedgerAssumption
  PROVE  LedgerSpec => []CheckpointsCover
BY LedgerInvariant, CoverMeans, PTL

(***************************************************************************)
(* A verified ledger gives one replay, archives never carry more than they *)
(* say, and the archive of a verified ledger agrees with itself.           *)
(***************************************************************************)
THEOREM AnswersAlwaysAgree ==
  ASSUME LedgerAssumption
  PROVE  LedgerSpec => []AnswersAgree
<1>1. IInv => AnswersAgree
  BY DEF IInv, Frozen, Collecting, AnswersAgree
<1> QED BY <1>1, LedgerInvariant, PTL

-----------------------------------------------------------------------------
(* The Merkle tree over the events. *)

\* The leaves of a chained ledger are leaves, and no two are the same.
LEMMA LeavesAre ==
  ASSUME events \in Seq(Event), Linked(events)
  PROVE  /\ IsSeq(Leaves) /\ Len(Leaves) = Len(events) /\ DOMAIN Leaves = 1..Len(events)
         /\ \A i \in DOMAIN Leaves : \E x : Leaves[i] = Leaf(x)
         /\ \A i, j \in DOMAIN Leaves : Leaves[i] = Leaves[j] => i = j
<1>1. Len(events) \in Nat /\ DOMAIN events = 1..Len(events)
  OBVIOUS
<1>2. Leaves = [i \in 1..Len(events) |-> Leaf(events[i].hash)]
  BY <1>1 DEF Leaves
<1>3. IsSeq(Leaves) /\ Len(Leaves) = Len(events) /\ DOMAIN Leaves = 1..Len(events)
  <2>1. Leaves = [i \in 1..Len(events) |-> Leaves[i]]
    BY <1>2
  <2> QED BY <1>1, <2>1, FunctionIsSeq
<1>4. \A i \in 1..Len(events) : Len(events[i].hash) = i
  BY <1>1, Identity DEF Linked
<1>5. ASSUME NEW i \in 1..Len(events), NEW j \in 1..Len(events), Leaves[i] = Leaves[j]
      PROVE  i = j
  <2>1. events[i].hash = events[j].hash
    BY <1>2, <1>5 DEF Leaf
  <2>2. Len(events[i].hash) = i /\ Len(events[j].hash) = j
    BY <1>4
  <2> QED BY <2>1, <2>2
<1> QED BY <1>2, <1>3, <1>5

(***************************************************************************)
(* Whatever the ledger holds, a proof from the tree over its events is     *)
(* accepted for the event it was made for, where every level on the way up *)
(* has a sibling, and for no other event.                                  *)
(***************************************************************************)
THEOREM ProofsAlwaysVerify ==
  ASSUME LedgerAssumption
  PROVE  LedgerSpec => []ProofsVerify
<1>1. ASSUME IInv PROVE ProofsVerify
  <2> SUFFICES ASSUME events # <<>>, NEW i \in 0..Len(events) - 1, NEW j \in 0..Len(events) - 1
               PROVE  VerifyProof(Tree(Leaves), i, Proof(Tree(Leaves), i), Leaves[j + 1])
                        <=> i = j /\ Paired(Tree(Leaves), i)
    BY DEF ProofsVerify
  <2>1. events \in Seq(Event) /\ Linked(events)
    BY <1>1 DEF IInv, Types, Chained
  <2> QED BY <2>1, LeavesAre, ProofsAccepted
<1> QED BY <1>1, LedgerInvariant, PTL
=============================================================================
