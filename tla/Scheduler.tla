----------------------------- MODULE Scheduler -----------------------------
(***************************************************************************)
(* Scheduler.run of the constraint harness: waves of ready tasks on a      *)
(* thread pool, collected with as_completed under a timeout.               *)
(*                                                                         *)
(* The loop runs in the caller's thread; the pool's threads start and      *)
(* finish queued tasks on their own.  `late` is whether time.time() has    *)
(* passed the deadline.  as_completed may give up while a future of the    *)
(* wave is not yet collected, finished or not: its limit is cut to whole   *)
(* seconds, so it may also fire a little before the deadline.  Leaving the *)
(* `with` block then waits for every submitted task before TimeoutError    *)
(* goes up.                                                                *)
(***************************************************************************)
EXTENDS Contract

VARIABLES
    stage,      \* "idle", "loop", "wave", "drain", "returned" or "raised"
    edges,      \* the DAG of the run
    workers,    \* the size of the pool
    completed,  \* ids whose result was collected
    results,    \* task id -> status
    remaining,  \* ids without a collected result
    wave,       \* futures as_completed has not yielded yet
    queued,     \* submitted, no thread has taken them
    running,    \* being executed by a thread of the pool
    finished,   \* executed
    late        \* the deadline has passed

poolVars == <<queued, running, finished>>
schedVars == <<stage, edges, workers, completed, results, remaining, wave,
               queued, running, finished, late>>

NoResults == [t \in {} |-> ""]

SchedInit ==
    /\ stage = "idle" /\ late = FALSE /\ workers = 1
    /\ edges = [t \in {} |-> {}] /\ results = NoResults
    /\ completed = {} /\ remaining = {} /\ wave = {}
    /\ queued = {} /\ running = {} /\ finished = {}

\* Scheduler(max_workers, timeout).run(dag, ...): everything up to the loop.
StartRun(e, maxWorkers) ==
    /\ stage = "idle"
    /\ stage' = "loop" /\ late' = FALSE
    /\ edges' = e /\ workers' = IF maxWorkers < 1 THEN 1 ELSE maxWorkers
    /\ results' = NoResults /\ completed' = {} /\ remaining' = DOMAIN e
    /\ wave' = {} /\ queued' = {} /\ running' = {} /\ finished' = {}

DeadlinePasses ==
    /\ stage \in {"loop", "wave"}
    /\ ~late
    /\ late' = TRUE
    /\ UNCHANGED <<stage, edges, workers, completed, results, remaining, wave, poolVars>>

Ready == ReadyTasks(edges, completed) \cap remaining

\* Give every remaining task the same status and leave the loop.
GiveUp(status) ==
    /\ results' = [t \in DOMAIN results \cup remaining |->
                      IF t \in remaining THEN status ELSE results[t]]
    /\ stage' = "returned"
    /\ UNCHANGED <<edges, workers, completed, remaining, wave, poolVars, late>>

LoopEnds ==
    /\ stage = "loop" /\ remaining = {}
    /\ stage' = "returned"
    /\ UNCHANGED <<edges, workers, completed, results, remaining, wave, poolVars, late>>

LoopTimesOut == stage = "loop" /\ remaining # {} /\ late /\ GiveUp("timeout")

LoopBlocks == stage = "loop" /\ remaining # {} /\ ~late /\ Ready = {} /\ GiveUp("blocked")

SubmitWave ==
    /\ stage = "loop" /\ ~late /\ Ready # {}
    /\ stage' = "wave"
    /\ wave' = Ready /\ queued' = Ready
    /\ UNCHANGED <<edges, workers, completed, results, remaining, running, finished, late>>

\* Variant: the bound of the pool is off by one.
StartTaskBelow(t) ==
    /\ t \in queued
    /\ Cardinality(running) < workers - 1
    /\ queued' = queued \ {t} /\ running' = running \cup {t}
    /\ UNCHANGED <<stage, edges, workers, completed, results, remaining, wave, finished, late>>


\* A thread of the pool takes a task; execute_one cannot fail.
StartTask(t) ==
    /\ t \in queued
    /\ Cardinality(running) < workers
    /\ queued' = queued \ {t} /\ running' = running \cup {t}
    /\ UNCHANGED <<stage, edges, workers, completed, results, remaining, wave, finished, late>>

FinishTask(t) ==
    /\ t \in running
    /\ running' = running \ {t} /\ finished' = finished \cup {t}
    /\ UNCHANGED <<stage, edges, workers, completed, results, remaining, wave, queued, late>>

\* as_completed yields a finished future; after the last one the loop goes on.
Collect(t) ==
    /\ stage = "wave" /\ t \in wave \cap finished
    /\ results' = [r \in DOMAIN results \cup {t} |-> IF r = t THEN "ok" ELSE results[r]]
    /\ completed' = completed \cup {t} /\ remaining' = remaining \ {t}
    /\ wave' = wave \ {t}
    /\ stage' = IF wave' = {} THEN "loop" ELSE "wave"
    /\ UNCHANGED <<edges, workers, poolVars, late>>

WaveTimesOut ==
    /\ stage = "wave"
    /\ stage' = "drain"
    /\ UNCHANGED <<edges, workers, completed, results, remaining, wave, poolVars, late>>

\* Variant: the pool is shut down without waiting for it.
DrainedAtOnce ==
    /\ stage = "drain"
    /\ stage' = "raised"
    /\ UNCHANGED <<edges, workers, completed, results, remaining, wave, poolVars, late>>


\* ThreadPoolExecutor.__exit__ has waited for the queue to run dry.
Drained ==
    /\ stage = "drain" /\ queued = {} /\ running = {}
    /\ stage' = "raised"
    /\ UNCHANGED <<edges, workers, completed, results, remaining, wave, poolVars, late>>

PoolNext == \E t \in queued \cup running : StartTask(t) \/ FinishTask(t)

LoopNext == \/ LoopEnds \/ LoopTimesOut \/ LoopBlocks \/ SubmitWave
            \/ \E t \in wave : Collect(t)
            \/ Drained

SchedNext == PoolNext \/ LoopNext \/ WaveTimesOut \/ DeadlinePasses

-----------------------------------------------------------------------------
Stages == {"idle", "loop", "wave", "drain", "returned", "raised"}

(***************************************************************************)
(* The inductive invariant of the scheduler.                               *)
(***************************************************************************)
SchedTypes ==
    /\ stage \in Stages /\ late \in BOOLEAN /\ workers \in Nat \ {0}
    /\ \A t \in DOMAIN results : results[t] \in {"ok", "timeout", "blocked"}

\* Completed and remaining tasks part the DAG, and what is completed is closed below.
DagInv ==
    /\ Acyclic(edges)
    /\ \A t \in DOMAIN edges : edges[t] \subseteq DOMAIN edges
    /\ completed \cup remaining = DOMAIN edges /\ completed \cap remaining = {}
    /\ \A t \in completed : edges[t] \subseteq completed

\* The pool holds the wave and nothing else; tasks of a wave rest on completed ones.
PoolInv ==
    /\ wave \subseteq remaining
    /\ \A t \in wave : edges[t] \subseteq completed
    /\ queued \cup running \subseteq wave /\ queued \cap running = {}
    /\ finished \cap (queued \cup running) = {}
    /\ completed \subseteq finished /\ finished \subseteq completed \cup wave
    /\ stage \in {"loop", "returned"} => wave = {}
    /\ stage \in {"idle", "raised"} => queued \cup running = {}

ResultsInv ==
    /\ DOMAIN results \in {completed, completed \cup remaining}
    /\ stage \in {"loop", "wave", "drain", "raised"} => DOMAIN results = completed
    /\ stage \in {"idle", "returned"} /\ DOMAIN results # completed => wave = {}
    /\ \A t \in DOMAIN results : results[t] = IF t \in completed THEN "ok" ELSE "timeout"

SchedInv == SchedTypes /\ DagInv /\ PoolInv /\ ResultsInv

(***************************************************************************)
(* A result "ok" rests on results "ok" of everything the task depends on;  *)
(* a result "timeout" is of a task no thread ever took, although the       *)
(* deadline is compared with a clock the pool does not know.               *)
(***************************************************************************)
ResultsSound ==
    \A t \in DOMAIN results :
        /\ results[t] = "ok" => /\ t \in finished
                               /\ \A d \in edges[t] : d \in DOMAIN results /\ results[d] = "ok"
        /\ results[t] = "timeout" => t \notin queued \cup running \cup finished

(***************************************************************************)
(* The "blocked" branch of the loop is never taken: whatever waves the     *)
(* pool has got through, some remaining task of a DAG is ready.            *)
(***************************************************************************)
NeverBlocked == \A t \in DOMAIN results : results[t] # "blocked"

(***************************************************************************)
(* Outside the loop no task of the pool is queued or running: run() leaves *)
(* no work behind, not even when as_completed gave up on a wave.           *)
(***************************************************************************)
QuietWhenDone == stage \in {"idle", "returned", "raised"} => queued \cup running = {}
=============================================================================
