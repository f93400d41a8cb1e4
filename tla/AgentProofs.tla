---------------------------- MODULE AgentProofs -----------------------------
(***************************************************************************)
(* Theorems about what runs agents and keeps their work: the coordinator of *)
(* the tablet session, the sprint board of the Telegram bot, and the ISA   *)
(* runtime.  For any number of threads, chats and agents, any programs, and *)
(* any number of calls, stops and starts.                                  *)
(***************************************************************************)
EXTENDS Coordinator, SprintBoard, IsaAgents, DataLemmas

-----------------------------------------------------------------------------
(***************************************************************************)
(* The coordinator.                                                        *)
(***************************************************************************)
\* The steps a session can be in, and the places of a thread in transition().
CoordSteps == {"boot", "authenticate", "hydrate", "work", "complete"}
Places == {"free", "accepted", "moved", "counting", "counted", "tasks", "judging"}

\* What the variables hold.
CoordTypeOK ==
    /\ step \in CoordSteps /\ checkpoint \in Nat /\ tasks_done \in Nat
    /\ pc \in [Threads -> Places] /\ event \in [Threads -> Events]
    /\ read \in [Threads -> Nat] /\ accepted \in [Events -> Nat]

\* What was accepted before a session could be in step s.
Passed(s) ==
    /\ s # "boot" => accepted["device_hello"] > 0
    /\ s \in {"hydrate", "work", "complete"} => accepted["signed_in"] > 0
    /\ s \in {"work", "complete"} => accepted["local_ready"] > 0
    /\ s = "complete" => accepted["flow_complete"] > 0 \/ accepted["task_done"] >= 3

\* The threads with a finished task that is not counted yet.
Pending == {t \in Threads : event[t] = "task_done" /\ pc[t] \notin {"free", "judging"}}

\* A thread inside transition() holds an event that was accepted in a step that was passed.
Underway ==
    \A t \in Threads : pc[t] # "free" =>
        accepted[event[t]] > 0 /\ Passed(Transitions[event[t]][1])

\* Only task_done writes the count of tasks.
OnlyTasksCount ==
    \A t \in Threads : pc[t] \in {"counted", "tasks", "judging"} => event[t] = "task_done"

\* The tasks that are counted, those a thread read, and those still to be counted
\* are together no more than were accepted.
Counted ==
    /\ IsFiniteSet(Pending)
    /\ tasks_done + Cardinality(Pending) <= accepted["task_done"]
    /\ \A t \in Threads : pc[t] = "tasks" => read[t] + Cardinality(Pending) <= accepted["task_done"]

\* The inductive invariant.
CoordInv == CoordTypeOK /\ Passed(step) /\ Underway /\ OnlyTasksCount /\ Counted

-----------------------------------------------------------------------------
\* The table of transitions, edge by edge.
LEMMA EdgesOf ==
    /\ Events = {"device_hello", "signed_in", "auth_failed", "local_ready", "hydrate_failed",
                 "task_done", "task_failed", "flow_complete", "ack"}
    /\ Transitions["device_hello"] = <<"boot", "authenticate", "show_auth">>
    /\ Transitions["signed_in"] = <<"authenticate", "hydrate", "hydrate">>
    /\ Transitions["auth_failed"] = <<"authenticate", "authenticate", "show_auth">>
    /\ Transitions["local_ready"] = <<"hydrate", "work", "show_work">>
    /\ Transitions["hydrate_failed"] = <<"hydrate", "hydrate", "retry_hydrate">>
    /\ Transitions["task_done"] = <<"work", "work", "show_work">>
    /\ Transitions["task_failed"] = <<"work", "work", "show_work">>
    /\ Transitions["flow_complete"] = <<"work", "complete", "complete">>
    /\ Transitions["ack"] = <<"complete", "complete", "idle">>
BY DEF Events, Transitions

\* An edge taken by an accepted event leads from a step that was passed to one that is.
LEMMA EdgePasses ==
    ASSUME CoordTypeOK, NEW e \in Events, accepted[e] > 0, Passed(Transitions[e][1])
    PROVE  Passed(Transitions[e][2]) /\ Transitions[e][2] \in CoordSteps
<1> USE EdgesOf DEF Passed, CoordSteps
<1>1. CASE e = "device_hello"  BY <1>1
<1>2. CASE e \in {"signed_in", "auth_failed"}  BY <1>2
<1>3. CASE e \in {"local_ready", "hydrate_failed"}  BY <1>3
<1>4. CASE e \in {"task_done", "task_failed"}  BY <1>4
<1>5. CASE e \in {"flow_complete", "ack"}  BY <1>5
<1> QED  BY <1>1, <1>2, <1>3, <1>4, <1>5

\* A step that accepts nothing keeps what was passed, and what its threads passed, if it
\* assigns no event but those of threads it sets free.
LEMMA PassedStays ==
    ASSUME CoordInv, accepted' = accepted, NEW t \in Threads, NEW to \in Places,
           pc[t] # "free", pc' = [pc EXCEPT ![t] = to],
           event' = IF to = "free" THEN [event EXCEPT ![t] = "ack"] ELSE event
    PROVE  /\ \A s \in CoordSteps : Passed(s)' <=> Passed(s)
           /\ Underway'
           /\ \A u \in Threads \ {t} : pc'[u] = pc[u] /\ event'[u] = event[u]
           /\ pc'[t] = to /\ pc' \in [Threads -> Places] /\ event' \in [Threads -> Events]
           /\ to # "free" => event'[t] = event[t]
<1> USE DEF CoordInv
<1>1. /\ \A u \in Threads \ {t} : pc'[u] = pc[u] /\ event'[u] = event[u]
      /\ pc'[t] = to /\ pc' \in [Threads -> Places] /\ event' \in [Threads -> Events]
      /\ to # "free" => event'[t] = event[t]
  BY EdgesOf DEF CoordTypeOK
<1>2. \A s : Passed(s)' <=> Passed(s)  BY DEF Passed
<1>3. Underway'
  <2> SUFFICES ASSUME NEW u \in Threads, pc'[u] # "free"
               PROVE accepted[event'[u]] > 0 /\ Passed(Transitions[event'[u]][1])
    BY <1>2 DEF Underway
  <2>1. pc[u] # "free" /\ event'[u] = event[u]  BY <1>1
  <2> QED  BY <2>1 DEF Underway
<1> QED  BY <1>1, <1>2, <1>3

\* A new session.
LEMMA CoordStart == ASSUME CoordInit PROVE CoordInv
<1> USE DEF CoordInit
<1>1. CoordTypeOK  BY EdgesOf DEF CoordTypeOK, CoordSteps, Places
<1>2. Passed(step) /\ Underway /\ OnlyTasksCount  BY DEF Passed, Underway, OnlyTasksCount
<1>3. Pending = {}  BY DEF Pending
<1>4. accepted["task_done"] = 0  BY EdgesOf
<1>5. Counted  BY <1>3, <1>4, FS_EmptySet DEF Counted
<1> QED  BY <1>1, <1>2, <1>5 DEF CoordInv

\* One lemma for each action, in the order of transition().
LEMMA AcceptStep ==
    ASSUME CoordInv, NEW t \in Threads, NEW e \in Events, Accept(t, e) PROVE CoordInv'
<1> USE DEF CoordInv, Accept, Goes
<1>0. CoordTypeOK  OBVIOUS
<1>a. /\ \A u \in Threads \ {t} : pc'[u] = pc[u] /\ event'[u] = event[u]
      /\ pc[t] = "free" /\ pc'[t] = "accepted" /\ event'[t] = e
      /\ pc' \in [Threads -> Places] /\ event' \in [Threads -> Events]
  BY <1>0 DEF CoordTypeOK, Places
<1>b. /\ accepted' \in [Events -> Nat] /\ accepted'[e] = accepted[e] + 1 /\ accepted[e] \in Nat
      /\ \A d \in Events \ {e} : accepted'[d] = accepted[d]
      /\ \A d \in Events : accepted[d] \in Nat /\ accepted'[d] >= accepted[d]
  BY <1>0 DEF CoordTypeOK
<1>1. CoordTypeOK'  BY <1>0, <1>a, <1>b DEF CoordTypeOK
<1>2. \A s : Passed(s) => Passed(s)'
  <2>1. {"device_hello", "signed_in", "local_ready", "flow_complete", "task_done"} \subseteq Events  BY EdgesOf
  <2>2. \A d \in Events : (accepted[d] > 0 => accepted'[d] > 0) /\ (accepted[d] >= 3 => accepted'[d] >= 3)
    BY <1>b
  <2> QED  BY <2>1, <2>2 DEF Passed
<1>3. Underway'
  <2> SUFFICES ASSUME NEW u \in Threads, pc'[u] # "free", NEW s, s = Transitions[event'[u]][1]
               PROVE accepted'[event'[u]] > 0 /\ Passed(s)'
    BY DEF Underway
  <2>1. CASE u = t
    <3>1. s = step /\ Passed(s)  BY <2>1, <1>a
    <3>2. accepted'[e] > 0  BY <1>b
    <3> QED  BY <3>1, <3>2, <2>1, <1>2, <1>a
  <2>2. CASE u # t
    <3>1. event'[u] = event[u] /\ event[u] \in Events /\ accepted[event[u]] > 0
          /\ Passed(s)
      BY <2>2, <1>0, <1>a DEF Underway, CoordTypeOK
    <3>2. accepted'[event[u]] > 0  BY <3>1, <1>b
    <3>3. Passed(s)'  BY <3>1, <1>2
    <3> QED  BY <3>1, <3>2, <3>3
  <2> QED  BY <2>1, <2>2
<1>4. OnlyTasksCount'  BY <1>a DEF OnlyTasksCount
<1>5. Counted'
  <2>0. /\ IsFiniteSet(Pending) /\ Cardinality(Pending) \in Nat /\ t \notin Pending
        /\ tasks_done + Cardinality(Pending) <= accepted["task_done"]
        /\ \A u \in Threads : pc[u] = "tasks" => read[u] + Cardinality(Pending) <= accepted["task_done"]
        /\ tasks_done \in Nat /\ \A u \in Threads : read[u] \in Nat
    BY <1>0, <1>a, FS_CardinalityType DEF Counted, Pending, CoordTypeOK
  <2>1. CASE e = "task_done"
    <3>1. Pending' = Pending \cup {t}  BY <2>1, <1>a DEF Pending
    <3>2. IsFiniteSet(Pending') /\ Cardinality(Pending') = Cardinality(Pending) + 1
      BY <3>1, <2>0, FS_AddElement
    <3>3. accepted'["task_done"] = accepted["task_done"] + 1 /\ accepted["task_done"] \in Nat  BY <2>1, <1>b
    <3> QED  BY <2>0, <3>2, <3>3, <1>a DEF Counted
  <2>2. CASE e # "task_done"
    <3>1. Pending' = Pending  BY <2>2, <1>a DEF Pending
    <3>2. accepted'["task_done"] = accepted["task_done"]  BY <2>2, <1>b, EdgesOf
    <3> QED  BY <2>0, <3>1, <3>2, <1>a DEF Counted
  <2> QED  BY <2>1, <2>2
<1>6. Passed(step)'  BY <1>2
<1> QED  BY <1>1, <1>3, <1>4, <1>5, <1>6

LEMMA SetStepStep == ASSUME CoordInv, NEW t \in Threads, SetStep(t) PROVE CoordInv'
<1> USE DEF CoordInv, SetStep, Goes
<1>0. CoordTypeOK /\ event[t] \in Events /\ "moved" \in Places  BY DEF CoordTypeOK, Places
<1>a. /\ Underway' /\ \A s \in CoordSteps : Passed(s)' <=> Passed(s)
      /\ \A u \in Threads \ {t} : pc'[u] = pc[u] /\ event'[u] = event[u]
      /\ pc'[t] = "moved" /\ pc' \in [Threads -> Places] /\ event' \in [Threads -> Events]
      /\ event'[t] = event[t]
  BY <1>0, PassedStays
<1>1. Passed(step)' /\ step' \in CoordSteps  BY <1>0, <1>a, EdgePasses DEF Underway
<1>2. CoordTypeOK'  BY <1>0, <1>a, <1>1 DEF CoordTypeOK
<1>3. OnlyTasksCount'  BY <1>a DEF OnlyTasksCount
<1>4. Pending' = Pending  BY <1>a DEF Pending
<1>5. Counted'  BY <1>a, <1>4 DEF Counted
<1> QED  BY <1>1, <1>2, <1>3, <1>5, <1>a

LEMMA ReadCheckpointStep == ASSUME CoordInv, NEW t \in Threads, ReadCheckpoint(t) PROVE CoordInv'
<1> USE DEF CoordInv, ReadCheckpoint, Goes
<1>0. CoordTypeOK /\ "counting" \in Places /\ step \in CoordSteps  BY DEF CoordTypeOK, Places
<1>a. /\ Underway' /\ \A s \in CoordSteps : Passed(s)' <=> Passed(s)
      /\ \A u \in Threads \ {t} : pc'[u] = pc[u] /\ event'[u] = event[u]
      /\ pc'[t] = "counting" /\ pc' \in [Threads -> Places] /\ event' \in [Threads -> Events]
      /\ event'[t] = event[t]
  BY <1>0, PassedStays
<1>b. read' \in [Threads -> Nat] /\ \A u \in Threads \ {t} : read'[u] = read[u]  BY DEF CoordTypeOK
<1>1. Passed(step)'  BY <1>0, <1>a
<1>2. CoordTypeOK'  BY <1>0, <1>a, <1>b DEF CoordTypeOK
<1>3. OnlyTasksCount'  BY <1>a DEF OnlyTasksCount
<1>4. Pending' = Pending  BY <1>a DEF Pending
<1>5. Counted'  BY <1>a, <1>b, <1>4 DEF Counted
<1> QED  BY <1>1, <1>2, <1>3, <1>5, <1>a

LEMMA WriteCheckpointStep == ASSUME CoordInv, NEW t \in Threads, WriteCheckpoint(t) PROVE CoordInv'
<1> USE DEF CoordInv, WriteCheckpoint, Goes
<1> DEFINE to == IF event[t] = "task_done" THEN "counted" ELSE "free"
<1>0. CoordTypeOK /\ to \in Places /\ step \in CoordSteps  BY DEF CoordTypeOK, Places
<1>a. /\ Underway' /\ \A s \in CoordSteps : Passed(s)' <=> Passed(s)
      /\ \A u \in Threads \ {t} : pc'[u] = pc[u] /\ event'[u] = event[u]
      /\ pc'[t] = to /\ pc' \in [Threads -> Places] /\ event' \in [Threads -> Events]
      /\ to # "free" => event'[t] = event[t]
  BY <1>0, PassedStays
<1>b. read' \in [Threads -> Nat] /\ \A u \in Threads \ {t} : read'[u] = read[u]  BY DEF CoordTypeOK
<1>c. checkpoint' \in Nat  BY DEF CoordTypeOK
<1>1. Passed(step)'  BY <1>0, <1>a
<1>2. CoordTypeOK'  BY <1>0, <1>a, <1>b, <1>c DEF CoordTypeOK
<1>3. OnlyTasksCount'  BY <1>a DEF OnlyTasksCount
<1>4. Pending' = Pending  BY <1>a DEF Pending
<1>5. Counted'  BY <1>a, <1>b, <1>4 DEF Counted
<1> QED  BY <1>1, <1>2, <1>3, <1>5, <1>a

LEMMA ReadTasksStep == ASSUME CoordInv, NEW t \in Threads, ReadTasks(t) PROVE CoordInv'
<1> USE DEF CoordInv, ReadTasks, Goes
<1>0. CoordTypeOK /\ "tasks" \in Places /\ step \in CoordSteps  BY DEF CoordTypeOK, Places
<1>a. /\ Underway' /\ \A s \in CoordSteps : Passed(s)' <=> Passed(s)
      /\ \A u \in Threads \ {t} : pc'[u] = pc[u] /\ event'[u] = event[u]
      /\ pc'[t] = "tasks" /\ pc' \in [Threads -> Places] /\ event' \in [Threads -> Events]
      /\ event'[t] = event[t]
  BY <1>0, PassedStays
<1>b. /\ read' \in [Threads -> Nat] /\ read'[t] = tasks_done
      /\ \A u \in Threads \ {t} : read'[u] = read[u]
  BY DEF CoordTypeOK
<1>1. Passed(step)'  BY <1>0, <1>a
<1>2. CoordTypeOK'  BY <1>0, <1>a, <1>b DEF CoordTypeOK
<1>3. OnlyTasksCount'  BY <1>a DEF OnlyTasksCount
<1>4. Pending' = Pending  BY <1>a DEF Pending
<1>5. Counted'  BY <1>a, <1>b, <1>4 DEF Counted
<1> QED  BY <1>1, <1>2, <1>3, <1>5, <1>a

\* The thread leaves the pending ones with the count it read, and one more.
LEMMA WriteTasksStep == ASSUME CoordInv, NEW t \in Threads, WriteTasks(t) PROVE CoordInv'
<1> USE DEF CoordInv, WriteTasks, Goes
<1>0. CoordTypeOK /\ "judging" \in Places /\ step \in CoordSteps  BY DEF CoordTypeOK, Places
<1>a. /\ Underway' /\ \A s \in CoordSteps : Passed(s)' <=> Passed(s)
      /\ \A u \in Threads \ {t} : pc'[u] = pc[u] /\ event'[u] = event[u]
      /\ pc'[t] = "judging" /\ pc' \in [Threads -> Places] /\ event' \in [Threads -> Events]
      /\ event'[t] = event[t]
  BY <1>0, PassedStays
<1>b. /\ read' \in [Threads -> Nat] /\ \A u \in Threads \ {t} : read'[u] = read[u]
      /\ tasks_done' = read[t] + 1 /\ \A u \in Threads : read[u] \in Nat
  BY DEF CoordTypeOK
<1>1. Passed(step)'  BY <1>0, <1>a
<1>2. CoordTypeOK'  BY <1>0, <1>a, <1>b DEF CoordTypeOK
<1>3. OnlyTasksCount'  BY <1>a DEF OnlyTasksCount
<1>4. t \in Pending /\ Pending' = Pending \ {t}  BY <1>a DEF Pending, OnlyTasksCount
<1>5. Counted'
  <2>1. /\ IsFiniteSet(Pending) /\ Cardinality(Pending) \in Nat /\ accepted["task_done"] \in Nat
        /\ \A u \in Threads : pc[u] = "tasks" => read[u] + Cardinality(Pending) <= accepted["task_done"]
    BY <1>0, EdgesOf, FS_CardinalityType DEF Counted, CoordTypeOK
  <2>2. IsFiniteSet(Pending') /\ Cardinality(Pending') = Cardinality(Pending) - 1
    BY <1>4, <2>1, FS_RemoveElement
  <2> QED  BY <2>1, <2>2, <1>a, <1>b DEF Counted
<1> QED  BY <1>1, <1>2, <1>3, <1>5, <1>a

\* The third finished task: none is counted twice, so three were accepted.
LEMMA Judge3Step == ASSUME CoordInv, NEW t \in Threads, Judge3(t) PROVE CoordInv'
<1> USE DEF CoordInv, Judge3, Goes
<1>0. CoordTypeOK /\ "free" \in Places /\ step \in CoordSteps  BY DEF CoordTypeOK, Places
<1>a. /\ Underway' /\ \A s \in CoordSteps : Passed(s)' <=> Passed(s)
      /\ \A u \in Threads \ {t} : pc'[u] = pc[u] /\ event'[u] = event[u]
      /\ pc'[t] = "free" /\ pc' \in [Threads -> Places] /\ event' \in [Threads -> Events]
  BY <1>0, PassedStays
<1>1. Passed(step)' /\ step' \in CoordSteps
  <2>1. CASE tasks_done >= 3
    <3>1. Passed("work")  BY EdgesOf DEF OnlyTasksCount, Underway
    <3>2. accepted["task_done"] >= 3
      BY <1>0, <2>1, EdgesOf, FS_CardinalityType DEF Counted, CoordTypeOK
    <3>3. Passed("complete") /\ "complete" \in CoordSteps  BY <3>1, <3>2 DEF Passed, CoordSteps
    <3> QED  BY <3>3, <2>1, <1>a
  <2>2. CASE ~(tasks_done >= 3)  BY <2>2, <1>0, <1>a
  <2> QED  BY <2>1, <2>2
<1>2. CoordTypeOK'  BY <1>0, <1>a, <1>1 DEF CoordTypeOK
<1>3. OnlyTasksCount'  BY <1>a DEF OnlyTasksCount
<1>4. Pending' = Pending  BY <1>a DEF Pending
<1>5. Counted'  BY <1>a, <1>4 DEF Counted
<1> QED  BY <1>1, <1>2, <1>3, <1>5, <1>a

\* Every step of every thread keeps the invariant.
LEMMA CoordStep == ASSUME CoordInv, [CoordNext]_coordVars PROVE CoordInv'
<1>1. CASE UNCHANGED coordVars
  BY <1>1 DEF coordVars, CoordInv, CoordTypeOK, Passed, Underway, OnlyTasksCount, Counted, Pending
<1>2. CASE CoordNext
  BY <1>2, AcceptStep, SetStepStep, ReadCheckpointStep, WriteCheckpointStep, ReadTasksStep,
     WriteTasksStep, Judge3Step DEF CoordNext
<1> QED  BY <1>1, <1>2

(***************************************************************************)
(* Threads that serve one session at a time, in any number and any order,  *)
(* keep the invariant: every step an event leads from was reached by an    *)
(* accepted event, also where another thread has moved the session since.  *)
(***************************************************************************)
THEOREM CoordInvariant == CoordSpec => []CoordInv
<1>1. CoordInit => CoordInv  BY CoordStart
<1>2. CoordInv /\ [CoordNext]_coordVars => CoordInv'  BY CoordStep
<1> QED  BY <1>1, <1>2, PTL DEF CoordSpec

(***************************************************************************)
(* A session is in no step that the accepted events did not lead to, and   *)
(* complete only after flow_complete or three tasks: the count of tasks,   *)
(* read and written in two accesses, may lose tasks but never gains one.   *)
(***************************************************************************)
THEOREM StepsAreReached == CoordSpec => []NoStepSkipped
<1>1. CoordInv => NoStepSkipped  BY EdgesOf DEF CoordInv, Passed, NoStepSkipped, Reached
<1> QED  BY <1>1, CoordInvariant, PTL

-----------------------------------------------------------------------------
(***************************************************************************)
(* The sprint board.                                                       *)
(***************************************************************************)
\* A sprint's status, and a flush under way.
Statuses == {"Planning", "Active", "Completed"}

Flushes == [phase : {"off", "sprints", "issues"}, records : Seq(Statuses) \cup Seq(Nat),
            done : Nat, sprints : Nat]

\* What the variables hold.
BoardTypeOK ==
    /\ status \in Seq(Statuses) /\ listed \in Seq(SUBSET Nat) /\ sprint_id \in Seq(Nat)
    /\ active_sprint_id \in Nat /\ serving \in [Chats -> Nat]
    /\ online \in BOOLEAN /\ connected \in BOOLEAN
    /\ flush \in Flushes
    /\ table \in [sprints : Seq(Statuses), issues : Seq(Nat)]
    /\ stops \in Nat /\ loaded \in [issues : SUBSET Nat, active : SUBSET Nat]
    /\ saved \in [sprints : Nat, issues : Nat]

\* The cache has a list of issues for each sprint.
Matched == Len(listed) = Len(status)

\* A bot that is not running keeps nothing in memory.
Stopped ==
    ~online => /\ status = <<>> /\ listed = <<>> /\ sprint_id = <<>>
               /\ serving = [c \in Chats |-> NoIssue] /\ flush = NoFlush /\ active_sprint_id = NoSprint

\* An issue a chat still adds to its sprint is in the cache, is not one the bot
\* started with, and is served to that chat alone.
Served ==
    \A c \in Chats : serving[c] # NoIssue =>
        /\ serving[c] \in DOMAIN sprint_id \ loaded.issues
        /\ sprint_id[serving[c]] # NoSprint
        /\ \A d \in Chats \ {c} : serving[d] # serving[c]

\* The cache of a running bot that has a database is never behind the tables.
Ahead ==
    online => /\ loaded.issues \subseteq DOMAIN sprint_id
              /\ connected => /\ Len(table.sprints) <= Len(status)
                              /\ Len(table.issues) <= Len(sprint_id)

\* The records a flush listed are still a beginning of the cache, and the rows
\* it saved are in the table: first of the sprints, then of the issues.
SprintsUnderway ==
    flush.phase = "sprints" =>
        /\ flush.records \in Seq(Statuses) /\ flush.sprints = Len(flush.records)
        /\ Len(flush.records) <= Len(status)
        /\ flush.done <= Len(flush.records) /\ flush.done <= Len(table.sprints)

IssuesUnderway ==
    flush.phase = "issues" =>
        /\ flush.records \in Seq(Nat) /\ flush.sprints <= Len(table.sprints)
        /\ Len(flush.records) <= Len(sprint_id)
        /\ flush.done <= Len(flush.records) /\ flush.done <= Len(table.issues)

\* What a finished flush saved stays in the tables, and an issue names a sprint
\* that its table or the cache has.
Kept ==
    /\ saved.sprints <= Len(table.sprints) /\ saved.issues <= Len(table.issues)
    /\ Resolved(table.issues, table.sprints) /\ Resolved(sprint_id, status)

\* The inductive invariant.
BoardInv ==
    /\ BoardTypeOK /\ Matched /\ Stopped /\ Served /\ Ahead
    /\ SprintsUnderway /\ IssuesUnderway /\ Kept /\ BoardConsistent

-----------------------------------------------------------------------------
\* A list with other values at the same places.
LEMMA SameDomain ==
    ASSUME NEW S, NEW s \in Seq(S), NEW f \in [1..Len(s) -> S]
    PROVE  f \in Seq(S) /\ Len(f) = Len(s) /\ DOMAIN f = 1..Len(s)
<1>1. Len(s) \in Nat  OBVIOUS
<1> QED  BY <1>1

\* A row of an upsert replaces one that is there or is the next.
LEMMA UpsertRow ==
    ASSUME NEW S, NEW rows \in Seq(S), flush.done \in Nat, flush.done <= Len(rows), Record \in S
    PROVE  /\ Upsert(rows) \in Seq(S)
           /\ Len(rows) <= Len(Upsert(rows)) /\ Next1 <= Len(Upsert(rows))
           /\ Len(Upsert(rows)) = Len(rows) \/ Len(Upsert(rows)) = Next1
           /\ \A i \in DOMAIN Upsert(rows) :
                 Upsert(rows)[i] = Record \/ (i \in DOMAIN rows /\ Upsert(rows)[i] = rows[i])
<1>1. CASE Next1 \in DOMAIN rows
  <2> DEFINE new == [rows EXCEPT ![Next1] = Record]
  <2>1. new \in [1..Len(rows) -> S]  BY <1>1
  <2>2. new \in Seq(S) /\ Len(new) = Len(rows) /\ DOMAIN new = 1..Len(rows)  BY <2>1, SameDomain
  <2> QED  BY <1>1, <2>2 DEF Upsert, Next1
<1>2. CASE Next1 \notin DOMAIN rows
  <2>1. Upsert(rows) = Append(rows, Record) /\ Next1 = Len(rows) + 1  BY <1>2 DEF Upsert, Next1
  <2> QED  BY <2>1
<1> QED  BY <1>1, <1>2

\* A bot that has never run.
LEMMA BoardStart == ASSUME BoardAssumption, BoardInit PROVE BoardInv
<1> USE DEF BoardInit, NoSprint, NoIssue
<1>1. BoardTypeOK
  <2>1. flush \in Flushes  BY DEF NoFlush, Flushes
  <2>2. status \in Seq(Statuses) /\ listed \in Seq(SUBSET Nat) /\ sprint_id \in Seq(Nat)  OBVIOUS
  <2>3. table \in [sprints : Seq(Statuses), issues : Seq(Nat)]  BY DEF NoRows
  <2>4. loaded \in [issues : SUBSET Nat, active : SUBSET Nat] /\ saved \in [sprints : Nat, issues : Nat]
    OBVIOUS
  <2> QED  BY <2>1, <2>2, <2>3, <2>4 DEF BoardTypeOK
<1>2. Matched /\ Stopped /\ Served /\ Ahead /\ BoardConsistent
  BY DEF Matched, Stopped, Served, Ahead, BoardConsistent
<1>3. SprintsUnderway /\ IssuesUnderway  BY DEF SprintsUnderway, IssuesUnderway, NoFlush
<1>4. Kept  BY DEF Kept, Resolved, NoRows
<1> QED  BY <1>1, <1>2, <1>3, <1>4 DEF BoardInv

\* The lengths of the lists.
LEMMA ListsOf ==
    ASSUME BoardTypeOK
    PROVE  /\ Len(status) \in Nat /\ DOMAIN status = 1..Len(status)
           /\ Len(sprint_id) \in Nat /\ DOMAIN sprint_id = 1..Len(sprint_id)
           /\ \A i \in DOMAIN sprint_id : sprint_id[i] \in Nat
           /\ Len(table.sprints) \in Nat /\ DOMAIN table.sprints = 1..Len(table.sprints)
           /\ Len(table.issues) \in Nat /\ DOMAIN table.issues = 1..Len(table.issues)
           /\ saved.sprints \in Nat /\ saved.issues \in Nat
BY DEF BoardTypeOK

\* The parts of a flush.
LEMMA FlushOf ==
    ASSUME BoardTypeOK
    PROVE  /\ flush.done \in Nat /\ flush.sprints \in Nat /\ flush.records \in Seq(Statuses) \cup Seq(Nat)
           /\ \A n \in Nat : [flush EXCEPT !.done = n] \in Flushes
           /\ NoFlush \in Flushes
<1>1. flush \in Flushes  BY DEF BoardTypeOK
<1>2. NoFlush \in Flushes  BY DEF NoFlush, Flushes
<1> QED  BY <1>1, <1>2 DEF Flushes

\* One lemma for each action.
LEMMA CreateSprintStep ==
    ASSUME BoardAssumption, BoardInv, NEW c \in Chats, CreateSprint(c) PROVE BoardInv'
<1> USE DEF NoSprint, NoIssue, NoFlush
<1> USE DEF BoardInv, CreateSprint, Idle, storeVars
<1>0. BoardTypeOK /\ Matched  OBVIOUS
<1>a. /\ status' \in Seq(Statuses) /\ Len(status') = Len(status) + 1
      /\ listed' \in Seq(SUBSET Nat) /\ Len(listed') = Len(status) + 1
      /\ \A s \in 1..Len(status) : status'[s] = status[s] /\ listed'[s] = listed[s]
      /\ status'[Len(status) + 1] = "Planning" /\ listed'[Len(status) + 1] = {}
  BY <1>0 DEF BoardTypeOK, Matched, Statuses
<1>1. BoardTypeOK'  BY <1>0, <1>a DEF BoardTypeOK
<1>2. Matched'  BY <1>0, <1>a DEF Matched
<1>3. Stopped' /\ Served' /\ IssuesUnderway'  BY DEF Stopped, Served, IssuesUnderway
<1>4. Ahead' /\ SprintsUnderway'  BY <1>0, <1>a DEF BoardTypeOK, Ahead, SprintsUnderway
<1>5. Kept'  BY <1>0, <1>a DEF BoardTypeOK, Kept, Resolved
<1>6. BoardConsistent'
  <2> SUFFICES ASSUME NEW s \in DOMAIN status'
               PROVE /\ status'[s] = "Active" => s = active_sprint_id' \/ s \in loaded'.active
                     /\ listed'[s] = {i \in DOMAIN sprint_id' \ loaded'.issues :
                                        sprint_id'[i] = s /\ \A d \in Chats : serving'[d] # i}
    BY DEF BoardConsistent
  <2>1. CASE s \in DOMAIN status  BY <2>1, <1>0, <1>a DEF BoardTypeOK, BoardConsistent
  <2>2. CASE s = Len(status) + 1
    <3>1. ASSUME NEW i \in DOMAIN sprint_id PROVE sprint_id[i] # s
      <4>1. sprint_id[i] \in 1..Len(status) \cup {0} /\ Len(status) \in Nat
        BY <1>0, ListsOf DEF Kept, Resolved
      <4> QED  BY <4>1, <2>2
    <3> QED  BY <2>2, <3>1, <1>0, <1>a
  <2> QED  BY <2>1, <2>2, <1>0, <1>a DEF BoardTypeOK
<1> QED  BY <1>1, <1>2, <1>3, <1>4, <1>5, <1>6

LEMMA ActivateStep ==
    ASSUME BoardAssumption, BoardInv, NEW c \in Chats, NEW s \in DOMAIN status, Activate(c, s)
    PROVE  BoardInv'
<1> USE DEF NoSprint, NoIssue, NoFlush
<1> USE DEF BoardInv, Activate, Idle, storeVars
<1>0. BoardTypeOK /\ Matched  OBVIOUS
<1>a. status' \in [1..Len(status) -> Statuses] /\ s \in Nat  BY <1>0 DEF BoardTypeOK, Statuses
<1>b. status' \in Seq(Statuses) /\ Len(status') = Len(status) /\ DOMAIN status' = 1..Len(status)
  BY <1>0, <1>a, SameDomain DEF BoardTypeOK
<1>1. BoardTypeOK'  BY <1>0, <1>a, <1>b DEF BoardTypeOK
<1>2. Matched'  BY <1>0, <1>b DEF Matched
<1>3. Stopped' /\ Served' /\ IssuesUnderway'  BY DEF Stopped, Served, IssuesUnderway
<1>4. Ahead' /\ SprintsUnderway'  BY <1>0, <1>b DEF BoardTypeOK, Ahead, SprintsUnderway
<1>5. Kept'  BY <1>0, <1>b DEF BoardTypeOK, Kept, Resolved
<1>6. BoardConsistent'
  <2>1. \A t \in DOMAIN status : status'[t] = "Active" => t = s \/ (status[t] = "Active" /\ t # active_sprint_id)
    OBVIOUS
  <2>2. DOMAIN status' = DOMAIN status  BY <1>0, <1>b, ListsOf
  <2> QED  BY <2>1, <2>2 DEF BoardConsistent
<1> QED  BY <1>1, <1>2, <1>3, <1>4, <1>5, <1>6

LEMMA CompleteStep ==
    ASSUME BoardAssumption, BoardInv, NEW c \in Chats, NEW s \in DOMAIN status, Complete(c, s)
    PROVE  BoardInv'
<1> USE DEF NoSprint, NoIssue, NoFlush
<1> USE DEF BoardInv, Complete, Idle, storeVars
<1>0. BoardTypeOK /\ Matched  OBVIOUS
<1>a. status' \in [1..Len(status) -> Statuses]  BY <1>0 DEF BoardTypeOK, Statuses
<1>b. status' \in Seq(Statuses) /\ Len(status') = Len(status) /\ DOMAIN status' = 1..Len(status)
  BY <1>0, <1>a, SameDomain DEF BoardTypeOK
<1>1. BoardTypeOK'  BY <1>0, <1>b DEF BoardTypeOK
<1>2. Matched'  BY <1>0, <1>b DEF Matched
<1>3. Stopped' /\ Served' /\ IssuesUnderway'  BY DEF Stopped, Served, IssuesUnderway
<1>4. Ahead' /\ SprintsUnderway'  BY <1>0, <1>b DEF BoardTypeOK, Ahead, SprintsUnderway
<1>5. Kept'  BY <1>0, <1>b DEF BoardTypeOK, Kept, Resolved
<1>6. BoardConsistent'
  <2>1. \A t \in DOMAIN status : status'[t] = "Active" => status[t] = "Active"  OBVIOUS
  <2> QED  BY <2>1, <1>0, <1>b DEF BoardTypeOK, BoardConsistent
<1> QED  BY <1>1, <1>2, <1>3, <1>4, <1>5, <1>6

LEMMA CreateIssueStep ==
    ASSUME BoardAssumption, BoardInv, NEW c \in Chats, NEW s \in DOMAIN status \cup {NoSprint},
           CreateIssue(c, s)
    PROVE  BoardInv'
<1> USE DEF NoSprint, NoIssue, NoFlush
<1> USE DEF BoardInv, CreateIssue, Idle, storeVars
<1> DEFINE new == Len(sprint_id) + 1
<1>0. BoardTypeOK /\ Matched  OBVIOUS
<1>a. /\ s \in Nat /\ sprint_id' \in Seq(Nat) /\ Len(sprint_id') = new /\ DOMAIN sprint_id' = 1..new
      /\ \A i \in DOMAIN sprint_id : sprint_id'[i] = sprint_id[i]
      /\ sprint_id'[new] = s /\ DOMAIN sprint_id = 1..Len(sprint_id) /\ new \in Nat \ {0}
      /\ new \notin DOMAIN sprint_id
  <2>1. s \in Nat /\ new \in Nat \ {0}  BY <1>0, ListsOf
  <2>2. sprint_id \in Seq(Nat) /\ sprint_id' = Append(sprint_id, s)  BY <1>0 DEF BoardTypeOK
  <2> QED  BY <2>1, <2>2
<1>b. /\ \A d \in Chats \ {c} : serving'[d] = serving[d]
      /\ serving'[c] = IF s = 0 THEN 0 ELSE new
      /\ serving' \in [Chats -> Nat] /\ serving[c] = 0
  BY <1>0, <1>a DEF BoardTypeOK
<1>c. \A d \in Chats : serving[d] # new  BY <1>0, <1>a DEF BoardTypeOK, Served
<1>1. BoardTypeOK'  BY <1>0, <1>a, <1>b DEF BoardTypeOK
<1>2. Matched'  BY <1>0 DEF Matched
<1>3. Stopped' /\ SprintsUnderway'  BY DEF Stopped, SprintsUnderway
<1>4. Ahead'  BY <1>0, <1>a DEF BoardTypeOK, Ahead
<1>5. IssuesUnderway'  BY <1>0, <1>a DEF BoardTypeOK, IssuesUnderway
<1>6. new \notin loaded.issues  BY <1>a DEF Ahead
<1>7. Served'
  <2> SUFFICES ASSUME NEW d \in Chats, serving'[d] # 0
               PROVE /\ serving'[d] \in DOMAIN sprint_id' \ loaded'.issues
                     /\ sprint_id'[serving'[d]] # 0
                     /\ \A e \in Chats \ {d} : serving'[e] # serving'[d]
    BY DEF Served
  <2>1. CASE d = c  BY <2>1, <1>0, <1>a, <1>b, <1>c, <1>6
  <2>2. CASE d # c  BY <2>2, <1>0, <1>a, <1>b, <1>c, <1>6 DEF Served
  <2> QED  BY <2>1, <2>2
<1>8. Kept'
  <2>1. \A i \in DOMAIN sprint_id' : i = new \/ i \in DOMAIN sprint_id  BY <1>a
  <2> QED  BY <2>1, <1>a DEF Kept, Resolved
<1>9. BoardConsistent'
  <2> SUFFICES ASSUME NEW t \in DOMAIN status
               PROVE listed[t] = {i \in DOMAIN sprint_id' \ loaded.issues :
                                   sprint_id'[i] = t /\ \A d \in Chats : serving'[d] # i}
    BY DEF BoardConsistent
  <2>1. t # 0  BY <1>0 DEF BoardTypeOK
  <2>2. \A i \in DOMAIN sprint_id : (\A d \in Chats : serving'[d] # i) <=> (\A d \in Chats : serving[d] # i)
    BY <1>a, <1>b
  <2>3. ~(sprint_id'[new] = t /\ \A d \in Chats : serving'[d] # new)  BY <2>1, <1>a, <1>b
  <2>4. DOMAIN sprint_id' = DOMAIN sprint_id \cup {new}  BY <1>a
  <2>5. listed[t] = {i \in DOMAIN sprint_id \ loaded.issues :
                       sprint_id[i] = t /\ \A d \in Chats : serving[d] # i}  BY DEF BoardConsistent
  <2>6. \A i : i \in DOMAIN sprint_id' \ loaded.issues /\ sprint_id'[i] = t
                   /\ (\A d \in Chats : serving'[d] # i)
               <=> i \in DOMAIN sprint_id \ loaded.issues /\ sprint_id[i] = t
                   /\ (\A d \in Chats : serving[d] # i)
    BY <2>2, <2>3, <2>4, <1>a
  <2> QED  BY <2>5, <2>6
<1> QED  BY <1>1, <1>2, <1>3, <1>4, <1>5, <1>7, <1>8, <1>9

LEMMA AddIssueStep ==
    ASSUME BoardAssumption, BoardInv, NEW c \in Chats, AddIssue(c) PROVE BoardInv'
<1> USE DEF NoSprint, NoIssue, NoFlush
<1> USE DEF BoardInv, AddIssue, storeVars
<1> DEFINE i0 == serving[c]
           s0 == sprint_id[i0]
<1>0. BoardTypeOK /\ Matched  OBVIOUS
<1>a. i0 \in DOMAIN sprint_id \ loaded.issues /\ s0 # 0 /\ \A d \in Chats \ {c} : serving[d] # i0
  BY DEF Served
<1>b. s0 \in DOMAIN status /\ i0 \in Nat /\ DOMAIN listed = DOMAIN status /\ DOMAIN listed = 1..Len(listed)
  BY <1>0, <1>a DEF BoardTypeOK, Matched, Kept, Resolved
<1>c. listed' \in [1..Len(listed) -> SUBSET Nat]  BY <1>0, <1>b DEF BoardTypeOK
<1>d. listed' \in Seq(SUBSET Nat) /\ Len(listed') = Len(listed) /\ DOMAIN listed' = 1..Len(listed)
  BY <1>0, <1>c, SameDomain DEF BoardTypeOK
<1>e. serving' \in [Chats -> Nat] /\ serving'[c] = 0 /\ \A d \in Chats \ {c} : serving'[d] = serving[d]
  BY <1>0 DEF BoardTypeOK
<1>1. BoardTypeOK'  BY <1>0, <1>d, <1>e DEF BoardTypeOK
<1>2. Matched'  BY <1>0, <1>d DEF Matched
<1>3. Stopped'  BY DEF Stopped
<1>4. SprintsUnderway' /\ IssuesUnderway' /\ Ahead' /\ Kept'
  BY <1>0 DEF BoardTypeOK, SprintsUnderway, IssuesUnderway, Ahead, Kept, Resolved
<1>5. Served'  BY <1>e DEF Served
<1>6. BoardConsistent'
  <2> SUFFICES ASSUME NEW t \in DOMAIN status
               PROVE listed'[t] = {i \in DOMAIN sprint_id \ loaded.issues :
                                   sprint_id[i] = t /\ \A d \in Chats : serving'[d] # i}
    BY DEF BoardConsistent
  <2>1. listed[t] = {i \in DOMAIN sprint_id \ loaded.issues :
                       sprint_id[i] = t /\ \A d \in Chats : serving[d] # i}  BY DEF BoardConsistent
  <2>2. \A i \in DOMAIN sprint_id : (\A d \in Chats : serving'[d] # i)
                                     <=> i = i0 \/ (\A d \in Chats : serving[d] # i)
    <3> SUFFICES ASSUME NEW i \in DOMAIN sprint_id
                 PROVE (\A d \in Chats : serving'[d] # i) <=> i = i0 \/ (\A d \in Chats : serving[d] # i)
      OBVIOUS
    <3>1. i # 0  BY <1>0 DEF BoardTypeOK
    <3> QED  BY <3>1, <1>a, <1>e
  <2>3. listed'[t] = IF t = s0 THEN listed[t] \cup {i0} ELSE listed[t]  BY <1>b
  <2>4. \A i : i \in DOMAIN sprint_id \ loaded.issues /\ sprint_id[i] = t
                   /\ (\A d \in Chats : serving'[d] # i)
               <=> i \in listed'[t]
    BY <2>1, <2>2, <2>3, <1>a
  <2> QED  BY <2>4, <2>3, <2>1
<1> QED  BY <1>1, <1>2, <1>3, <1>4, <1>5, <1>6

LEMMA ListSprintsStep == ASSUME BoardAssumption, BoardInv, ListSprints PROVE BoardInv'
<1> USE DEF NoSprint, NoIssue, NoFlush
<1> USE DEF BoardInv, ListSprints, memoryVars
<1>0. BoardTypeOK /\ Matched  OBVIOUS
<1>1. BoardTypeOK'  BY <1>0 DEF BoardTypeOK, Flushes
<1>2. Matched' /\ Stopped' /\ Served' /\ Kept' /\ BoardConsistent' /\ Ahead' /\ IssuesUnderway'
  BY DEF Matched, Stopped, Served, Kept, Resolved, BoardConsistent, Ahead, IssuesUnderway
<1>3. SprintsUnderway'  BY <1>0 DEF BoardTypeOK, SprintsUnderway
<1> QED  BY <1>1, <1>2, <1>3

LEMMA SaveSprintStep == ASSUME BoardAssumption, BoardInv, SaveSprint PROVE BoardInv'
<1> USE DEF NoSprint, NoIssue, NoFlush
<1> USE DEF BoardInv, SaveSprint, memoryVars, Saving
<1> DEFINE rows == table.sprints
<1>0. BoardTypeOK /\ Matched  OBVIOUS
<1>a. /\ flush.records \in Seq(Statuses) /\ flush.done \in Nat /\ flush.done < Len(flush.records)
      /\ flush.done <= Len(rows) /\ rows \in Seq(Statuses) /\ Len(flush.records) <= Len(status)
      /\ flush.sprints = Len(flush.records) /\ Len(flush.records) \in Nat /\ Len(status) \in Nat
  <2>1. /\ flush.records \in Seq(Statuses) /\ flush.done < Len(flush.records) /\ flush.done <= Len(rows)
        /\ Len(flush.records) <= Len(status) /\ flush.sprints = Len(flush.records)
    BY DEF SprintsUnderway
  <2>2. flush.done \in Nat /\ rows \in Seq(Statuses) /\ Len(status) \in Nat
    BY <1>0, ListsOf, FlushOf DEF BoardTypeOK
  <2> QED  BY <2>1, <2>2
<1>b. Record \in Statuses  BY <1>a DEF Record, Next1
<1>c. /\ Upsert(rows) \in Seq(Statuses)
      /\ Len(rows) <= Len(Upsert(rows)) /\ Next1 <= Len(Upsert(rows))
      /\ Len(Upsert(rows)) = Len(rows) \/ Len(Upsert(rows)) = Next1
  BY <1>a, <1>b, UpsertRow
<1>d. /\ table' \in [sprints : Seq(Statuses), issues : Seq(Nat)]
      /\ table'.sprints = Upsert(rows) /\ table'.issues = table.issues
  BY <1>0, <1>c DEF BoardTypeOK
<1>e. /\ flush'.done = flush.done + 1 /\ flush'.records = flush.records /\ flush'.sprints = flush.sprints
      /\ flush'.phase = "sprints" /\ Next1 = flush.done + 1 /\ flush' = [flush EXCEPT !.done = flush.done + 1]
  BY <1>0 DEF BoardTypeOK, Next1
<1>f. Len(rows) \in Nat /\ Len(Upsert(rows)) \in Nat  BY <1>a, <1>c
<1>1. BoardTypeOK'
  <2>a. flush.done + 1 \in Nat  BY <1>a
  <2>b. \A n \in Nat : [flush EXCEPT !.done = n] \in Flushes  BY <1>0, FlushOf
  <2>c. flush' = [flush EXCEPT !.done = flush.done + 1]  BY <1>e
  <2>1. flush' \in Flushes  BY <2>a, <2>b, <2>c
  <2> QED  BY <2>1, <1>0, <1>d DEF BoardTypeOK
<1>2. Matched' /\ Served' /\ BoardConsistent' /\ IssuesUnderway'
  BY <1>e DEF Matched, Served, BoardConsistent, IssuesUnderway
<1>3. Stopped'  BY DEF Stopped
<1>4. Ahead'
  <2>1. Next1 <= Len(flush.records) /\ Next1 \in Nat  BY <1>a DEF Next1
  <2>2. Len(rows) <= Len(status) => Len(Upsert(rows)) <= Len(status)  BY <1>a, <1>c, <1>f, <2>1
  <2>3. /\ table'.sprints = Upsert(rows) /\ table'.issues = table.issues
        /\ UNCHANGED <<online, connected, status, sprint_id, loaded>>
    BY <1>d
  <2> QED  BY <2>2, <2>3 DEF Ahead
<1>5. SprintsUnderway'
  <2>1. Next1 <= Len(flush.records) /\ Next1 <= Len(Upsert(rows))  BY <1>a, <1>c, <1>e
  <2>2. /\ flush'.records \in Seq(Statuses) /\ flush'.sprints = Len(flush'.records)
        /\ Len(flush'.records) <= Len(status')
    BY <1>a, <1>e DEF SprintsUnderway
  <2>3. flush'.done <= Len(flush'.records) /\ flush'.done <= Len(table'.sprints)  BY <1>d, <1>e, <2>1
  <2> QED  BY <2>2, <2>3 DEF SprintsUnderway
<1>6. Kept'
  <2>1. DOMAIN rows \subseteq DOMAIN Upsert(rows)  BY <1>a, <1>c, <1>f
  <2>2. saved.sprints <= Len(Upsert(rows))  BY <1>0, <1>c, <1>f DEF BoardTypeOK, Kept
  <2> QED  BY <2>1, <2>2, <1>d DEF Kept, Resolved
<1> QED  BY <1>1, <1>2, <1>3, <1>4, <1>5, <1>6

LEMMA ListIssuesStep == ASSUME BoardAssumption, BoardInv, ListIssues PROVE BoardInv'
<1> USE DEF NoSprint, NoIssue, NoFlush
<1> USE DEF BoardInv, ListIssues, memoryVars
<1>0. BoardTypeOK /\ Matched  OBVIOUS
<1>a. /\ flush'.phase = "issues" /\ flush'.records = sprint_id /\ flush'.done = 0
      /\ flush'.sprints = flush.sprints
      /\ flush' \in Flushes
  BY <1>0 DEF BoardTypeOK, Flushes
<1>1. BoardTypeOK'  BY <1>0, <1>a DEF BoardTypeOK
<1>2. Matched' /\ Stopped' /\ Served' /\ Kept' /\ BoardConsistent' /\ Ahead' /\ SprintsUnderway'
  BY <1>a DEF Matched, Stopped, Served, Kept, Resolved, BoardConsistent, Ahead, SprintsUnderway
<1>3. IssuesUnderway'
  <2>1. flush.sprints = Len(flush.records) /\ flush.done <= Len(table.sprints) /\ flush.done = Len(flush.records)
    BY <1>0, FlushOf DEF SprintsUnderway, Saving
  <2> QED  BY <2>1, <1>0, <1>a, ListsOf DEF IssuesUnderway, BoardTypeOK
<1> QED  BY <1>1, <1>2, <1>3

LEMMA SaveIssueStep == ASSUME BoardAssumption, BoardInv, SaveIssue PROVE BoardInv'
<1> USE DEF NoSprint, NoIssue, NoFlush
<1> USE DEF BoardInv, SaveIssue, memoryVars, Saving
<1> DEFINE rows == table.issues
<1>0. BoardTypeOK /\ Matched  OBVIOUS
<1>a. /\ flush.records \in Seq(Nat) /\ flush.done \in Nat /\ flush.done < Len(flush.records)
      /\ flush.done <= Len(rows) /\ rows \in Seq(Nat) /\ Len(flush.records) <= Len(sprint_id)
      /\ flush.sprints <= Len(table.sprints) /\ Len(flush.records) \in Nat /\ Len(sprint_id) \in Nat
  <2>1. /\ flush.records \in Seq(Nat) /\ flush.done < Len(flush.records) /\ flush.done <= Len(rows)
        /\ Len(flush.records) <= Len(sprint_id) /\ flush.sprints <= Len(table.sprints)
    BY DEF IssuesUnderway
  <2>2. flush.done \in Nat /\ rows \in Seq(Nat) /\ Len(sprint_id) \in Nat
    BY <1>0, ListsOf, FlushOf DEF BoardTypeOK
  <2> QED  BY <2>1, <2>2
<1>b. Record \in Nat
  <2>1. Next1 \in 1..Len(flush.records)  BY <1>a DEF Next1
  <2>2. flush.records[Next1] \in Nat  BY <1>a, <2>1
  <2> QED  BY <2>2 DEF Record
<1>c. /\ Upsert(rows) \in Seq(Nat)
      /\ Len(rows) <= Len(Upsert(rows)) /\ Next1 <= Len(Upsert(rows))
      /\ Len(Upsert(rows)) = Len(rows) \/ Len(Upsert(rows)) = Next1
      /\ \A i \in DOMAIN Upsert(rows) :
            Upsert(rows)[i] = Record \/ (i \in DOMAIN rows /\ Upsert(rows)[i] = rows[i])
  BY <1>a, <1>b, UpsertRow
<1>d. /\ table' \in [sprints : Seq(Statuses), issues : Seq(Nat)]
      /\ table'.issues = Upsert(rows) /\ table'.sprints = table.sprints
  BY <1>0, <1>c DEF BoardTypeOK
<1>e. /\ flush'.done = flush.done + 1 /\ flush'.records = flush.records /\ flush'.sprints = flush.sprints
      /\ flush'.phase = "issues" /\ Next1 = flush.done + 1 /\ flush' = [flush EXCEPT !.done = flush.done + 1]
  BY <1>0 DEF BoardTypeOK, Next1
<1>f. Len(rows) \in Nat /\ Len(Upsert(rows)) \in Nat  BY <1>a, <1>c
<1>1. BoardTypeOK'
  <2>a. flush.done + 1 \in Nat  BY <1>a
  <2>b. \A n \in Nat : [flush EXCEPT !.done = n] \in Flushes  BY <1>0, FlushOf
  <2>c. flush' = [flush EXCEPT !.done = flush.done + 1]  BY <1>e
  <2>1. flush' \in Flushes  BY <2>a, <2>b, <2>c
  <2> QED  BY <2>1, <1>0, <1>d DEF BoardTypeOK
<1>2. Matched' /\ Served' /\ BoardConsistent' /\ SprintsUnderway'
  BY <1>e DEF Matched, Served, BoardConsistent, SprintsUnderway
<1>3. Stopped'  BY DEF Stopped
<1>4. Ahead'
  <2>1. Next1 <= Len(flush.records) /\ Next1 \in Nat  BY <1>a DEF Next1
  <2>2. Len(rows) <= Len(sprint_id) => Len(Upsert(rows)) <= Len(sprint_id)  BY <1>a, <1>c, <1>f, <2>1
  <2>3. /\ table'.issues = Upsert(rows) /\ table'.sprints = table.sprints
        /\ UNCHANGED <<online, connected, status, sprint_id>>
    BY <1>d
  <2> QED  BY <2>2, <2>3 DEF Ahead
<1>5. IssuesUnderway'
  <2>1. Next1 <= Len(flush.records) /\ Next1 <= Len(Upsert(rows))  BY <1>a, <1>c, <1>e
  <2>2. /\ flush'.records \in Seq(Nat) /\ flush'.sprints <= Len(table'.sprints)
        /\ Len(flush'.records) <= Len(sprint_id')
    BY <1>a, <1>d, <1>e
  <2>3. flush'.done <= Len(flush'.records) /\ flush'.done <= Len(table'.issues)  BY <1>d, <1>e, <2>1
  <2> QED  BY <2>2, <2>3 DEF IssuesUnderway
<1>6. Kept'
  <2>1. Resolved(Upsert(rows), table.sprints)  BY <1>c DEF Kept, Resolved, Referenced
  <2>2. saved.issues <= Len(Upsert(rows))  BY <1>0, <1>c, <1>f DEF BoardTypeOK, Kept
  <2> QED  BY <2>1, <2>2, <1>d DEF Kept, Resolved
<1> QED  BY <1>1, <1>2, <1>3, <1>4, <1>5, <1>6

\* A flush that is given up, and one that is done, leave the tables and the memory as they are.
LEMMA FlushEndsStep ==
    ASSUME BoardAssumption, BoardInv, IssueRefused \/ FlushDone \/ FlushFails PROVE BoardInv'
<1> USE DEF NoSprint, NoIssue, NoFlush
<1> USE DEF BoardInv, memoryVars
<1>0. BoardTypeOK /\ Matched  OBVIOUS
<1>a. /\ UNCHANGED <<memoryVars, serving, online, connected, table, stops, loaded>>
      /\ flush' = NoFlush
      /\ \/ saved' = saved
         \/ /\ FlushDone /\ saved' = [sprints |-> flush.sprints, issues |-> Len(flush.records)]
            /\ flush.phase = "issues" /\ ~(flush.done < Len(flush.records))
  BY DEF IssueRefused, FlushDone, FlushFails, Saving
<1>b. saved' \in [sprints : Nat, issues : Nat]
      /\ saved'.sprints <= Len(table.sprints) /\ saved'.issues <= Len(table.issues)
  <2>1. CASE saved' = saved  BY <2>1, <1>0 DEF BoardTypeOK, Kept
  <2>2. CASE FlushDone
    <3>1. /\ flush.records \in Seq(Nat) /\ flush.done \in Nat /\ flush.done <= Len(table.issues)
          /\ flush.sprints \in Nat /\ flush.sprints <= Len(table.sprints)
          /\ ~(flush.done < Len(flush.records)) /\ flush.done <= Len(flush.records)
          /\ table.issues \in Seq(Nat)
      BY <2>2, <1>0, FlushOf DEF FlushDone, Saving, BoardTypeOK, IssuesUnderway
    <3>2. saved' = [sprints |-> flush.sprints, issues |-> Len(flush.records)]  BY <2>2 DEF FlushDone
    <3> QED  BY <3>1, <3>2
  <2> QED  BY <2>1, <2>2, <1>a
<1>1. BoardTypeOK'
  <2>1. flush' \in Flushes  BY <1>0, <1>a, FlushOf
  <2> QED  BY <2>1, <1>0, <1>a, <1>b DEF BoardTypeOK
<1>2. Matched' /\ Stopped' /\ Served' /\ BoardConsistent' /\ Ahead' /\ SprintsUnderway' /\ IssuesUnderway'
  BY <1>a DEF Matched, Stopped, Served, BoardConsistent, Ahead, SprintsUnderway, IssuesUnderway
<1>3. Kept'  BY <1>a, <1>b DEF Kept, Resolved
<1> QED  BY <1>1, <1>2, <1>3

LEMMA BotStopsStep == ASSUME BoardAssumption, BoardInv, BotStops PROVE BoardInv'
<1> USE DEF NoSprint, NoIssue, NoFlush
<1> USE DEF BoardInv, BotStops, Forget
<1>0. BoardTypeOK /\ Matched  OBVIOUS
<1>1. BoardTypeOK'
  <2>1. flush' \in Flushes  BY DEF Flushes
  <2>2. status' \in Seq(Statuses) /\ listed' \in Seq(SUBSET Nat) /\ sprint_id' \in Seq(Nat)  OBVIOUS
  <2>3. serving' \in [Chats -> Nat] /\ stops' \in Nat /\ active_sprint_id' \in Nat  BY <1>0 DEF BoardTypeOK
  <2> QED  BY <2>1, <2>2, <2>3, <1>0 DEF BoardTypeOK
<1>2. Matched' /\ Stopped' /\ Served' /\ Ahead' /\ SprintsUnderway' /\ IssuesUnderway' /\ BoardConsistent'
  BY DEF Matched, Stopped, Served, Ahead, SprintsUnderway, IssuesUnderway, BoardConsistent
<1>3. Kept'  BY DEF Kept, Resolved
<1> QED  BY <1>1, <1>2, <1>3

\* What a bot that starts has loaded or made: sprints and issues that name them, and
\* not fewer than the tables hold when it has a database.
LEMMA StartedWith ==
    ASSUME BoardAssumption, BoardInv, BotStarts
    PROVE  /\ status' \in Seq(Statuses) /\ sprint_id' \in Seq(Nat) /\ active_sprint_id' \in Nat
           /\ loaded'.issues = DOMAIN sprint_id' /\ loaded' \in [issues : SUBSET Nat, active : SUBSET Nat]
           /\ Resolved(sprint_id', status')
           /\ connected' => Len(table.sprints) <= Len(status') /\ Len(table.issues) <= Len(sprint_id')
           /\ \A s \in DOMAIN status' :
                 status'[s] = "Active" => s = active_sprint_id' \/ s \in loaded'.active
<1> DEFINE rows == IF connected' THEN table ELSE NoRows
<1>1. /\ rows.sprints \in Seq(Statuses) /\ rows.issues \in Seq(Nat)
      /\ Resolved(rows.issues, rows.sprints)
      /\ connected' => rows = table
  <2>1. NoRows.sprints = <<>> /\ NoRows.issues = <<>>  BY DEF NoRows
  <2>2. Resolved(<<>>, <<>>)  BY DEF Resolved
  <2>3. CASE connected'  BY <2>3 DEF BoardInv, BoardTypeOK, Kept
  <2>4. CASE ~connected'
    <3>1. rows = NoRows  BY <2>4
    <3>2. rows.sprints = <<>> /\ rows.issues = <<>>  BY <2>1, <3>1
    <3> HIDE DEF rows
    <3>3. rows.sprints \in Seq(Statuses) /\ rows.issues \in Seq(Nat)  BY <3>2
    <3>4. Resolved(rows.issues, rows.sprints)  BY <2>2, <3>2
    <3> QED  BY <2>4, <3>3, <3>4
  <2> QED  BY <2>3, <2>4
<1>2. IF rows.sprints = <<>> THEN Seeded(rows) ELSE Restored(rows)  BY DEF BotStarts
<1> HIDE DEF rows
<1>3. CASE rows.sprints = <<>>
  <2> DEFINE demo == [i \in 1..DemoIssues |-> 1]
  <2>1. /\ status' = <<"Active">> /\ sprint_id' = rows.issues \o demo /\ active_sprint_id' = 1
        /\ loaded' = [issues |-> DOMAIN sprint_id', active |-> {}]
    BY <1>2, <1>3 DEF Seeded
  <2>2. demo \in Seq(Nat) /\ Len(demo) = DemoIssues /\ \A i \in 1..DemoIssues : demo[i] = 1
    BY DEF BoardAssumption
  <2>3. \A i \in DOMAIN rows.issues : rows.issues[i] = NoSprint
    BY <1>1, <1>3 DEF Resolved
  <2> HIDE DEF demo
  <2>4. /\ sprint_id' \in Seq(Nat) /\ Len(sprint_id') = Len(rows.issues) + DemoIssues
        /\ DOMAIN sprint_id' = 1..Len(sprint_id')
        /\ \A i \in DOMAIN sprint_id' : sprint_id'[i] = NoSprint \/ sprint_id'[i] = 1
    <3>1. rows.issues \in Seq(Nat) /\ demo \in Seq(Nat)  BY <1>1, <2>2
    <3>2. \A i \in 1..(Len(rows.issues) + Len(demo)) :
             (rows.issues \o demo)[i] = IF i <= Len(rows.issues) THEN rows.issues[i]
                                        ELSE demo[i - Len(rows.issues)]
      BY <3>1
    <3>3. /\ rows.issues \o demo \in Seq(Nat)
          /\ Len(rows.issues \o demo) = Len(rows.issues) + Len(demo)
      BY <3>1
    <3>4. \A i \in 1..(Len(rows.issues) + Len(demo)) :
             (rows.issues \o demo)[i] = NoSprint \/ (rows.issues \o demo)[i] = 1
      <4> TAKE i \in 1..(Len(rows.issues) + Len(demo))
      <4>1. Len(rows.issues) \in Nat /\ Len(demo) \in Nat /\ i \in Nat  BY <3>1
      <4>2. CASE i <= Len(rows.issues)
        <5>1. i \in DOMAIN rows.issues  BY <3>1, <4>1, <4>2
        <5> QED  BY <3>2, <4>2, <5>1, <2>3
      <4>3. CASE ~(i <= Len(rows.issues))
        <5>1. i - Len(rows.issues) \in 1..DemoIssues  BY <4>1, <4>3, <2>2
        <5> QED  BY <3>2, <4>3, <5>1, <2>2
      <4> QED  BY <4>2, <4>3
    <3> QED  BY <2>1, <2>2, <3>3, <3>4
  <2>5. status' \in Seq(Statuses) /\ DOMAIN status' = {1} /\ Len(status') = 1
    BY <2>1 DEF Statuses
  <2>6. Resolved(sprint_id', status')  BY <2>4, <2>5 DEF Resolved
  <2>7. DOMAIN sprint_id' \subseteq Nat  BY <2>4
  <2>8. loaded'.issues = DOMAIN sprint_id' /\ loaded' \in [issues : SUBSET Nat, active : SUBSET Nat]
    BY <2>1, <2>7
  <2>9. connected' => Len(table.sprints) <= Len(status') /\ Len(table.issues) <= Len(sprint_id')
    <3> SUFFICES ASSUME connected'
                 PROVE Len(table.sprints) <= Len(status') /\ Len(table.issues) <= Len(sprint_id')
      OBVIOUS
    <3>1. table.sprints = <<>> /\ table.issues = rows.issues  BY <1>1, <1>3
    <3>2. Len(rows.issues) \in Nat /\ Len(sprint_id') = Len(rows.issues) + DemoIssues
      BY <1>1, <2>4
    <3>3. Len(rows.issues) <= Len(sprint_id')  BY <3>2 DEF BoardAssumption
    <3>4. Len(table.sprints) = 0  BY <3>1
    <3> QED  BY <3>1, <3>3, <3>4, <2>5
  <2> QED  BY <2>1, <2>4, <2>5, <2>6, <2>8, <2>9
<1>4. CASE rows.sprints # <<>>
  <2>1. /\ status' = rows.sprints /\ sprint_id' = rows.issues /\ active_sprint_id' = NoSprint
        /\ loaded' = [issues |-> DOMAIN rows.issues,
                      active |-> {s \in DOMAIN rows.sprints : rows.sprints[s] = "Active"}]
    BY <1>2, <1>4 DEF Restored
  <2>2. DOMAIN rows.sprints = 1..Len(rows.sprints) /\ DOMAIN rows.issues = 1..Len(rows.issues)
        /\ Len(rows.sprints) \in Nat /\ Len(rows.issues) \in Nat
    BY <1>1
  <2>3. loaded' \in [issues : SUBSET Nat, active : SUBSET Nat]  BY <2>1, <2>2
  <2>4. active_sprint_id' \in Nat  BY <2>1 DEF NoSprint
  <2> QED  BY <1>1, <2>1, <2>2, <2>3, <2>4
<1> QED  BY <1>3, <1>4

LEMMA BotStartsStep == ASSUME BoardAssumption, BoardInv, BotStarts PROVE BoardInv'
<1> USE DEF NoSprint, NoIssue, NoFlush
<1>0. BoardTypeOK /\ Stopped /\ Kept  BY DEF BoardInv
<1>a. /\ status' \in Seq(Statuses) /\ sprint_id' \in Seq(Nat) /\ active_sprint_id' \in Nat
      /\ loaded'.issues = DOMAIN sprint_id' /\ loaded' \in [issues : SUBSET Nat, active : SUBSET Nat]
      /\ Resolved(sprint_id', status')
      /\ connected' => Len(table.sprints) <= Len(status') /\ Len(table.issues) <= Len(sprint_id')
      /\ \A s \in DOMAIN status' :
            status'[s] = "Active" => s = active_sprint_id' \/ s \in loaded'.active
  BY StartedWith
<1>b. /\ online' = TRUE /\ connected' \in BOOLEAN /\ ~online
      /\ listed' = [s \in DOMAIN status' |-> {}]
      /\ UNCHANGED <<serving, flush, table, stops, saved>>
  BY DEF BotStarts
<1>c. listed' \in Seq(SUBSET Nat) /\ Len(listed') = Len(status') /\ \A s \in DOMAIN status' : listed'[s] = {}
  <2>1. DOMAIN status' = 1..Len(status') /\ Len(status') \in Nat  BY <1>a
  <2> QED  BY <1>b, <2>1
<1>d. serving' = [c \in Chats |-> 0] /\ flush'.phase = "off"  BY <1>0, <1>b DEF Stopped
<1>1. BoardTypeOK'  BY <1>0, <1>a, <1>b, <1>c DEF BoardTypeOK
<1>2. Matched'  BY <1>c DEF Matched
<1>3. Stopped' /\ Served' /\ SprintsUnderway' /\ IssuesUnderway'
  BY <1>b, <1>d DEF Stopped, Served, SprintsUnderway, IssuesUnderway
<1>4. Ahead'  BY <1>a, <1>b DEF Ahead
<1>5. Kept'  BY <1>0, <1>a, <1>b DEF Kept, Resolved
<1>6. BoardConsistent'  BY <1>a, <1>c DEF BoardConsistent
<1> QED  BY <1>1, <1>2, <1>3, <1>4, <1>5, <1>6 DEF BoardInv

\* Every step of every chat, of the flush, and of the process keeps the invariant.
LEMMA BoardStep == ASSUME BoardAssumption, BoardInv, [BoardNext]_boardVars PROVE BoardInv'
<1>1. CASE UNCHANGED boardVars
  BY <1>1 DEF boardVars, storeVars, memoryVars, BoardInv, BoardTypeOK, Matched, Stopped, Served, Ahead,
      SprintsUnderway, IssuesUnderway, Kept, Resolved, BoardConsistent
<1>2. CASE \E c \in Chats : CommandNext(c)
  <2>1. PICK c \in Chats : CommandNext(c)  BY <1>2
  <2> QED  BY <2>1, CreateSprintStep, ActivateStep, CompleteStep, CreateIssueStep, AddIssueStep DEF CommandNext
<1>3. CASE FlushNext
  BY <1>3, ListSprintsStep, SaveSprintStep, ListIssuesStep, SaveIssueStep, FlushEndsStep DEF FlushNext
<1>4. CASE BotStops  BY <1>4, BotStopsStep
<1>5. CASE BotStarts  BY <1>5, BotStartsStep
<1> QED  BY <1>1, <1>2, <1>3, <1>4, <1>5 DEF BoardNext

(***************************************************************************)
(* Chats that create sprints and issues, flushes between any two steps of  *)
(* them, stops and starts of the bot keep the invariant.                   *)
(***************************************************************************)
THEOREM BoardInvariant == ASSUME BoardAssumption PROVE BoardSpec => []BoardInv
<1>1. BoardInit => BoardInv  BY BoardStart
<1>2. BoardInv /\ [BoardNext]_boardVars => BoardInv'  BY BoardStep
<1> QED  BY <1>1, <1>2, PTL DEF BoardSpec

(***************************************************************************)
(* In the cache a sprint lists an issue that a command of this run made if *)
(* and only if the issue names the sprint, except while the command is     *)
(* between the two writes; it lists no issue that was loaded or that came  *)
(* with the demo sprint.  And a sprint is active if it is the pinned one,  *)
(* or was loaded so.                                                       *)
(***************************************************************************)
THEOREM SprintsAndIssuesAgree == ASSUME BoardAssumption PROVE BoardSpec => []BoardConsistent
<1>1. BoardInv => BoardConsistent  BY DEF BoardInv
<1> QED  BY <1>1, BoardInvariant, PTL

(***************************************************************************)
(* What a finished flush reported stays in the tables, with every reference *)
(* resolved, through later commands, failed flushes, stops and starts.     *)
(***************************************************************************)
THEOREM FinishedFlushIsKept == ASSUME BoardAssumption PROVE BoardSpec => []FlushKeeps
<1>1. BoardInv => FlushKeeps
  <2> SUFFICES ASSUME BoardInv PROVE FlushKeeps  OBVIOUS
  <2>1. Kept  BY DEF BoardInv
  <2>2. ASSUME online, connected PROVE saved.sprints <= Len(status) /\ saved.issues <= Len(sprint_id)
    <3>1. /\ saved.sprints \in Nat /\ saved.issues \in Nat /\ Len(table.sprints) \in Nat
          /\ Len(table.issues) \in Nat /\ Len(status) \in Nat /\ Len(sprint_id) \in Nat
      BY DEF BoardInv, BoardTypeOK
    <3> QED  BY <2>1, <2>2, <3>1 DEF BoardInv, Ahead, Kept
  <2> QED  BY <2>1, <2>2 DEF FlushKeeps, Kept
<1> QED  BY <1>1, BoardInvariant, PTL

-----------------------------------------------------------------------------
(***************************************************************************)
(* The ISA runtime.                                                        *)
(***************************************************************************)
\* A set in order is an increasing list of all its elements.
LEMMA InOrderIs ==
    ASSUME NEW S, S \subseteq Int, IsFiniteSet(S)
    PROVE  /\ Cardinality(S) \in Nat
           /\ InOrder(S) \in [1..Cardinality(S) -> S]
           /\ \A i, j \in 1..Cardinality(S) : i < j => InOrder(S)[i] < InOrder(S)[j]
           /\ \A x \in S : \E i \in 1..Cardinality(S) : InOrder(S)[i] = x
           /\ \A i \in 1..Cardinality(S) : Cardinality({y \in S : y < InOrder(S)[i]}) = i - 1
<1> DEFINE n == Cardinality(S)
           below(x) == {y \in S : y < x}
           rank == [x \in S |-> Cardinality(below(x))]
<1>1. n \in Nat  BY FS_CardinalityType
<1>2. \A x \in S : IsFiniteSet(below(x)) /\ Cardinality(below(x)) \in Nat
  <2> TAKE x \in S
  <2>1. below(x) \in SUBSET S  OBVIOUS
  <2> QED  BY <2>1, FS_Subset, FS_CardinalityType
<1>3. \A x \in S : rank[x] \in 0..(n - 1)
  <2> TAKE x \in S
  <2>1. IsFiniteSet(S \ {x}) /\ Cardinality(S \ {x}) = n - 1  BY FS_RemoveElement
  <2>2. below(x) \in SUBSET (S \ {x})  OBVIOUS
  <2>3. Cardinality(below(x)) <= n - 1  BY <2>1, <2>2, FS_Subset
  <2> QED  BY <2>3, <1>1, <1>2
<1>4. \A x, z \in S : x < z => rank[x] < rank[z]
  <2> SUFFICES ASSUME NEW x \in S, NEW z \in S, x < z PROVE rank[x] < rank[z]  OBVIOUS
  <2>1. Cardinality(below(x) \cup {x}) = Cardinality(below(x)) + 1
    <3>1. x \notin below(x) /\ IsFiniteSet(below(x))  BY <1>2
    <3> HIDE DEF below
    <3> QED  BY <3>1, FS_AddElement
  <2>2. below(x) \cup {x} \in SUBSET below(z)
    <3>1. \A y \in S : y \in Int  OBVIOUS
    <3>2. ASSUME NEW y \in below(x) \cup {x} PROVE y \in below(z)  BY <3>1
    <3> QED  BY <3>2
  <2>3. Cardinality(below(x) \cup {x}) <= Cardinality(below(z))  BY <2>2, <1>2, FS_Subset
  <2> QED  BY <2>1, <2>3, <1>2
<1>5. \A i \in 0..(n - 1) : \E x \in S : rank[x] = i
  <2>1. IsFiniteSet(0..(n - 1)) /\ Cardinality(0..(n - 1)) = n  BY <1>1, FS_Interval
  <2>2. rank \in Injection(S, 0..(n - 1))
    <3>1. \A x, z \in S : rank[x] = rank[z] => x = z
      <4> SUFFICES ASSUME NEW x \in S, NEW z \in S, rank[x] = rank[z], x # z PROVE FALSE  OBVIOUS
      <4>1. x < z \/ z < x  OBVIOUS
      <4> QED  BY <4>1, <1>3, <1>4
    <3>2. rank \in [S -> 0..(n - 1)]  BY <1>3
    <3> HIDE DEF rank
    <3> QED  BY <3>1, <3>2 DEF Injection, IsInjective
  <2>3. rank \in Surjection(S, 0..(n - 1))  BY <2>1, <2>2, FS_Injection
  <2> QED  BY <2>3 DEF Surjection
<1> DEFINE r == InOrder(S)
<1>a. \A x \in S : rank[x] = Cardinality(below(x)) /\ x \in Int  OBVIOUS
<1>b. r = [i \in 1..n |-> CHOOSE x \in S : Cardinality(below(x)) = i - 1]  BY DEF InOrder
<1> HIDE DEF r, rank, below
<1>6. \A i \in 1..n : r[i] \in S /\ Cardinality(below(r[i])) = i - 1
  <2> TAKE i \in 1..n
  <2>1. \E x \in S : Cardinality(below(x)) = i - 1
    <3>1. i - 1 \in 0..(n - 1)  BY <1>1
    <3> QED  BY <3>1, <1>5, <1>a
  <2>2. r[i] = CHOOSE x \in S : Cardinality(below(x)) = i - 1  BY <1>b
  <2> QED  BY <2>1, <2>2
<1>7. r \in [1..n -> S]
  <2>1. r = [i \in 1..n |-> r[i]]  BY <1>b
  <2> QED  BY <2>1, <1>6
<1>8. \A i, j \in 1..n : i < j => r[i] < r[j]
  <2> SUFFICES ASSUME NEW i \in 1..n, NEW j \in 1..n, i < j PROVE r[i] < r[j]  OBVIOUS
  <2>1. PICK x \in S : x = r[i] /\ rank[x] = i - 1  BY <1>6, <1>a
  <2>2. PICK z \in S : z = r[j] /\ rank[z] = j - 1  BY <1>6, <1>a
  <2>3. x # z /\ ~(z < x)  BY <2>1, <2>2, <1>4
  <2>4. x \in Int /\ z \in Int  OBVIOUS
  <2>5. x < z  BY <2>3, <2>4
  <2> QED  BY <2>1, <2>2, <2>5
<1>9. \A x \in S : \E i \in 1..n : r[i] = x
  <2> TAKE x \in S
  <2>1. rank[x] + 1 \in 1..n /\ (rank[x] + 1) - 1 = rank[x]  BY <1>1, <1>3
  <2>2. PICK z \in S : z = r[rank[x] + 1] /\ rank[z] = rank[x]  BY <2>1, <1>6, <1>a
  <2>3. ~(x < z) /\ ~(z < x)  BY <2>2, <1>3, <1>4
  <2>4. x \in Int /\ z \in Int  OBVIOUS
  <2>5. x = z  BY <2>3, <2>4
  <2> QED  BY <2>1, <2>2, <2>5
<1> QED  BY <1>1, <1>6, <1>7, <1>8, <1>9 DEF r, below

\* What the parser makes sure of for one instruction.
Sound(prog, instr) ==
    /\ instr.op \in DOMAIN OperandKinds
    /\ DOMAIN instr.args = DOMAIN OperandKinds[instr.op]
    /\ \A k \in DOMAIN instr.args :
          LET arg == instr.args[k]
          IN  /\ arg.kind = OperandKinds[instr.op][k]
              /\ arg.kind = "REG" => arg.val \in Nat
              /\ arg.kind = "IMM" => arg.val \in Int
              /\ arg.kind = "LABEL" => arg.val \in DOMAIN prog.labels

\* A function on 1..n is a list.
LEMMA ListOf ==
    ASSUME NEW n \in Nat, NEW S, NEW f \in [1..n -> S]
    PROVE  f \in Seq(S) /\ Len(f) = n /\ DOMAIN f = 1..n
OBVIOUS

\* The instructions of a program are sound, and its labels stand for places in it or its end.
LEMMA ProgramIs ==
    ASSUME IsaAssumption, NEW prog \in Programs
    PROVE  /\ Size(prog) \in Nat /\ DOMAIN prog.instructions = 1..Size(prog)
           /\ \A l \in DOMAIN prog.labels : prog.labels[l] \in 0..Size(prog)
           /\ \A i \in 1..Size(prog) : Sound(prog, prog.instructions[i])
<1>1. PICK src \in Sources : Parses(src) /\ prog = ParseProgram(src)  BY DEF Programs
<1> DEFINE held == HoldingLines(src)
           n == Cardinality(held)
           lines == {src[k] : k \in DOMAIN src}
<1>2. src \in Seq(lines) /\ Len(src) \in Nat /\ DOMAIN src = 1..Len(src)
  <2>1. src \in Seq(lines)  BY DEF IsaAssumption
  <2> HIDE DEF lines
  <2> QED  BY <2>1
<1>3. IsFiniteSet(DOMAIN src)  BY <1>2, FS_Interval
<1>4. held \subseteq Int /\ IsFiniteSet(held) /\ held \subseteq DOMAIN src
  <2>1. held \in SUBSET DOMAIN src  BY DEF HoldingLines
  <2> QED  BY <2>1, <1>2, <1>3, FS_Subset
<1>5. n \in Nat /\ InOrder(held) \in [1..n -> held]  BY <1>4, InOrderIs
<1>6. /\ prog.instructions = [i \in 1..n |-> src[InOrder(held)[i]]]
      /\ prog.labels = [l \in {src[k].label : k \in LabelLines(src)} |->
                           Before(src, CHOOSE k \in LabelLines(src) : src[k].label = l)]
  BY <1>1 DEF ParseProgram
<1>7. prog.instructions \in [1..n -> lines]  BY <1>4, <1>5, <1>6
<1>8. Size(prog) = n /\ DOMAIN prog.instructions = 1..n
  <2> HIDE DEF lines, n
  <2> QED  BY <1>5, <1>7, ListOf DEF Size
<1>9. \A k \in DOMAIN src : Before(src, k) \in 0..n
  <2> TAKE k \in DOMAIN src
  <2> DEFINE before == {j \in 1..(k - 1) : Holds(src[j])}
  <2>1. before \in SUBSET held  BY <1>2 DEF HoldingLines
  <2>2. IsFiniteSet(before) /\ Cardinality(before) <= n  BY <2>1, <1>4, FS_Subset
  <2>3. Cardinality(before) \in Nat  BY <2>2, FS_CardinalityType
  <2> QED  BY <2>2, <2>3, <1>5 DEF Before
<1>10. \A l \in DOMAIN prog.labels : prog.labels[l] \in 0..n
  <2> TAKE l \in DOMAIN prog.labels
  <2>1. PICK k \in LabelLines(src) : src[k].label = l  BY <1>6
  <2> DEFINE k0 == CHOOSE j \in LabelLines(src) : src[j].label = l
  <2>2. k0 \in LabelLines(src)  BY <2>1
  <2>3. k0 \in DOMAIN src  BY <2>2 DEF LabelLines
  <2>4. prog.labels[l] = Before(src, k0)  BY <1>6
  <2> QED  BY <2>3, <2>4, <1>9
<1>11. \A i \in 1..n : Sound(prog, prog.instructions[i])
  <2> TAKE i \in 1..n
  <2>1. PICK k \in held : prog.instructions[i] = src[k]  BY <1>5, <1>6
  <2> DEFINE line == src[k]
  <2>2. k \in DOMAIN src /\ WellFormed(line) /\ Targets(line) \subseteq {src[j].label : j \in LabelLines(src)}
    BY <1>1, <1>4 DEF HoldingLines, Parses
  <2>3. \A a \in DOMAIN line.args : line.args[a].kind \in {"REG", "IMM"} => line.args[a].val \in Int
    BY <2>2 DEF IsaAssumption
  <2>4. /\ line.op \in DOMAIN OperandKinds
        /\ [a \in DOMAIN line.args |-> line.args[a].kind] = OperandKinds[line.op]
        /\ \A a \in DOMAIN line.args : line.args[a].kind = "REG" => line.args[a].val >= 0
    BY <2>2 DEF WellFormed
  <2>5. \A a \in DOMAIN line.args : line.args[a].kind = "LABEL" => line.args[a].val \in DOMAIN prog.labels
    BY <2>2, <1>6 DEF Targets
  <2>6. DOMAIN line.args = DOMAIN OperandKinds[line.op]  BY <2>4
  <2>7. \A a \in DOMAIN line.args : line.args[a].kind = OperandKinds[line.op][a]  BY <2>4
  <2>8. Sound(prog, line)  BY <2>3, <2>4, <2>5, <2>6, <2>7 DEF Sound
  <2> QED  BY <2>1, <2>8
<1> QED  BY <1>5, <1>8, <1>10, <1>11

-----------------------------------------------------------------------------
\* Machines and register files.
Memories == UNION {[A -> Int] : A \in SUBSET Int}
Machines == [stack : Seq(Int), memory : Memories, pc : Int, eq : BOOLEAN, lt : BOOLEAN, gt : BOOLEAN,
             status : {"READY", "SUSPENDED", "TERMINATED"}, halted : BOOLEAN, channels : Seq(Seq(Int))]
Registers == [0..31 -> Int]

\* The operation codes by their operands.
LEMMA KindsOf ==
    /\ \A op \in DOMAIN OperandKinds :
          op \in {"NOP", "MOVE", "LOAD_IMM", "PUSH", "POP", "ADD", "SUB", "MUL", "DIV", "CMP", "TEST", "JMP",
                 "JE", "JNE", "JL", "JG", "CALL", "RET", "HALT", "LOAD", "STORE", "SYNC", "CAS", "CHAN_CREATE",
                 "CHAN_WRITE", "CHAN_READ", "AGENT_SPAWN", "AGENT_SEND", "AGENT_YIELD", "AGENT_HALT",
                 "TENSOR_ADD"}
    /\ \A op \in {"MOVE", "CMP", "LOAD", "STORE", "CHAN_WRITE", "CHAN_READ"} :
          OperandKinds[op] = <<"REG", "REG">>
    /\ \A op \in {"ADD", "SUB", "MUL", "DIV", "CAS"} : OperandKinds[op] = <<"REG", "REG", "REG">>
    /\ \A op \in {"LOAD_IMM", "CHAN_CREATE"} : OperandKinds[op] = <<"REG", "IMM">>
    /\ \A op \in {"PUSH", "POP", "TEST"} : OperandKinds[op] = <<"REG">>
    /\ \A op \in {"JMP", "JE", "JNE", "JL", "JG", "CALL"} : OperandKinds[op] = <<"LABEL">>
BY DEF OperandKinds

\* An instruction of a program that was verified, and what its operands are.
LEMMA OperandsOf ==
    ASSUME IsaAssumption, NEW prog \in Programs, Verifies(prog),
           NEW at \in Int, -Size(prog) <= at, at < Size(prog), NEW instr, instr = InstrAt(prog, at)
    PROVE  /\ instr.op \in DOMAIN OperandKinds
           /\ instr.op \in {"MOVE", "CMP", "LOAD", "STORE", "CHAN_WRITE", "CHAN_READ", "ADD", "SUB", "MUL",
                            "DIV", "CAS", "LOAD_IMM", "CHAN_CREATE", "PUSH", "POP", "TEST"}
              => Arg(instr, 1) \in 0..31
           /\ instr.op \in {"MOVE", "CMP", "LOAD", "STORE", "CHAN_WRITE", "CHAN_READ", "ADD", "SUB", "MUL",
                            "DIV", "CAS"}
              => Arg(instr, 2) \in 0..31
           /\ instr.op \in {"ADD", "SUB", "MUL", "DIV", "CAS"} => Arg(instr, 3) \in 0..31
           /\ instr.op \in {"LOAD_IMM", "CHAN_CREATE"} => Arg(instr, 2) \in Int
           /\ instr.op \in {"JMP", "JE", "JNE", "JL", "JG", "CALL"}
              => Arg(instr, 1) \in DOMAIN prog.labels /\ Arg(instr, 1) \in Targets(instr)
<1> DEFINE i == (IF at < 0 THEN Size(prog) + at ELSE at) + 1
<1>1. Size(prog) \in Nat  BY ProgramIs
<1>2. i \in 1..Size(prog)  BY <1>1
<1>3. instr = prog.instructions[i]  BY DEF InstrAt
<1>4. Sound(prog, instr)  BY <1>2, <1>3, ProgramIs
<1>5. \A k \in DOMAIN instr.args : instr.args[k].kind = "REG" => instr.args[k].val \in 0..31
  BY <1>2, <1>3 DEF Verifies
<1> DEFINE kinds == OperandKinds[instr.op]
<1>6. /\ instr.op \in DOMAIN OperandKinds
      /\ DOMAIN instr.args = DOMAIN kinds
      /\ \A k \in DOMAIN kinds : instr.args[k].kind = kinds[k]
  BY <1>4 DEF Sound
<1>7. \A k \in DOMAIN kinds : /\ kinds[k] = "REG" => Arg(instr, k) \in 0..31
                              /\ kinds[k] = "IMM" => Arg(instr, k) \in Int
                              /\ kinds[k] = "LABEL" => Arg(instr, k) \in DOMAIN prog.labels
                                                    /\ Arg(instr, k) \in Targets(instr)
  BY <1>4, <1>5, <1>6 DEF Sound, Arg, Targets
<1> HIDE DEF kinds
<1>8. /\ kinds = <<"REG", "REG", "REG">> => Arg(instr, 1) \in 0..31 /\ Arg(instr, 2) \in 0..31 /\ Arg(instr, 3) \in 0..31
      /\ kinds = <<"REG", "REG">> => Arg(instr, 1) \in 0..31 /\ Arg(instr, 2) \in 0..31
      /\ kinds = <<"REG", "IMM">> => Arg(instr, 1) \in 0..31 /\ Arg(instr, 2) \in Int
      /\ kinds = <<"REG">> => Arg(instr, 1) \in 0..31
      /\ kinds = <<"LABEL">> => Arg(instr, 1) \in DOMAIN prog.labels /\ Arg(instr, 1) \in Targets(instr)
  <2>1. ASSUME kinds = <<"REG", "REG", "REG">>
        PROVE Arg(instr, 1) \in 0..31 /\ Arg(instr, 2) \in 0..31 /\ Arg(instr, 3) \in 0..31
    <3>1. {1, 2, 3} \subseteq DOMAIN kinds /\ kinds[1] = "REG" /\ kinds[2] = "REG" /\ kinds[3] = "REG"  BY <2>1
    <3> QED  BY <3>1, <1>7
  <2>2. ASSUME kinds = <<"REG", "REG">> PROVE Arg(instr, 1) \in 0..31 /\ Arg(instr, 2) \in 0..31
    <3>1. {1, 2} \subseteq DOMAIN kinds /\ kinds[1] = "REG" /\ kinds[2] = "REG"  BY <2>2
    <3> QED  BY <3>1, <1>7
  <2>3. ASSUME kinds = <<"REG", "IMM">> PROVE Arg(instr, 1) \in 0..31 /\ Arg(instr, 2) \in Int
    <3>1. {1, 2} \subseteq DOMAIN kinds /\ kinds[1] = "REG" /\ kinds[2] = "IMM"  BY <2>3
    <3> QED  BY <3>1, <1>7
  <2>4. ASSUME kinds = <<"REG">> PROVE Arg(instr, 1) \in 0..31
    <3>1. 1 \in DOMAIN kinds /\ kinds[1] = "REG"  BY <2>4
    <3> QED  BY <3>1, <1>7
  <2>5. ASSUME kinds = <<"LABEL">>
        PROVE Arg(instr, 1) \in DOMAIN prog.labels /\ Arg(instr, 1) \in Targets(instr)
    <3>1. 1 \in DOMAIN kinds /\ kinds[1] = "LABEL"  BY <2>5
    <3> QED  BY <3>1, <1>7
  <2> QED  BY <2>1, <2>2, <2>3, <2>4, <2>5
<1> QED  BY <1>6, <1>8, KindsOf DEF kinds

-----------------------------------------------------------------------------
\* Division rounds towards zero; only the divisor 0 has no quotient.
LEMMA QuotientIs == ASSUME NEW a \in Int, NEW b \in Int, b # 0 PROVE Quotient(a, b) \in Int
<1> DEFINE abs(x) == IF x < 0 THEN -x ELSE x
<1>1. abs(a) \in Nat /\ abs(b) \in Nat \ {0}  OBVIOUS
<1>2. abs(a) \div abs(b) \in Int  BY <1>1
<1> QED  BY <1>2 DEF Quotient

\* A machine that neither ends nor raises has an instruction at its pc.
LEMMA Execution ==
    ASSUME NEW prog, NEW m \in Machines, NEW regs, ~Finished(prog, m), ~Raises(prog, m, regs), Size(prog) \in Nat
    PROVE  -Size(prog) <= m.pc /\ m.pc < Size(prog) /\ m.pc \in Int
<1>1. m.pc \in Int  BY DEF Machines
<1> QED  BY <1>1 DEF Finished, Raises

\* What an instruction leaves is a machine and a register file again.
LEMMA StepTypes ==
    ASSUME IsaAssumption, NEW prog \in Programs, Verifies(prog), NEW m \in Machines, NEW regs \in Registers,
           ~Finished(prog, m), ~Raises(prog, m, regs), NEW instr, instr = InstrAt(prog, m.pc)
    PROVE  NextMachine(prog, m, instr, regs) \in Machines /\ NextRegisters(m, instr, regs) \in Registers
<1>1. Size(prog) \in Nat  BY ProgramIs
<1>2. -Size(prog) <= m.pc /\ m.pc < Size(prog) /\ m.pc \in Int  BY <1>1, Execution
<1>r. /\ Arg(instr, 1) \in 0..31 => regs[Arg(instr, 1)] \in Int
      /\ Arg(instr, 2) \in 0..31 => regs[Arg(instr, 2)] \in Int
      /\ Arg(instr, 3) \in 0..31 => regs[Arg(instr, 3)] \in Int
  BY DEF Registers
<1>m. /\ m.stack \in Seq(Int) /\ m.memory \in Memories /\ m.channels \in Seq(Seq(Int))
      /\ m.eq \in BOOLEAN /\ m.lt \in BOOLEAN /\ m.gt \in BOOLEAN /\ m.halted \in BOOLEAN
      /\ m.status \in {"READY", "SUSPENDED", "TERMINATED"}
  BY DEF Machines
<1>o. /\ instr.op \in {"MOVE", "CMP", "LOAD", "STORE", "CHAN_WRITE", "CHAN_READ", "ADD", "SUB", "MUL",
                       "DIV", "CAS", "LOAD_IMM", "CHAN_CREATE", "PUSH", "POP", "TEST"}
         => Arg(instr, 1) \in 0..31
      /\ instr.op \in {"MOVE", "CMP", "LOAD", "STORE", "CHAN_WRITE", "CHAN_READ", "ADD", "SUB", "MUL",
                       "DIV", "CAS"}
         => Arg(instr, 2) \in 0..31
      /\ instr.op \in {"ADD", "SUB", "MUL", "DIV", "CAS"} => Arg(instr, 3) \in 0..31
      /\ instr.op \in {"LOAD_IMM", "CHAN_CREATE"} => Arg(instr, 2) \in Int
      /\ instr.op \in {"JMP", "JE", "JNE", "JL", "JG", "CALL"} => Arg(instr, 1) \in DOMAIN prog.labels
  BY <1>2, OperandsOf
<1>n. /\ instr.op \in {"POP", "RET"} => m.stack # <<>>
      /\ instr.op = "DIV" => regs[Arg(instr, 3)] # 0
      /\ instr.op = "LOAD" => regs[Arg(instr, 2)] \in DOMAIN m.memory
      /\ instr.op = "CHAN_WRITE" => regs[Arg(instr, 1)] \in DOMAIN m.channels
  BY <1>2 DEF Raises
<1>l. m.stack # <<>> => Last(m.stack) \in Int /\ Front(m.stack) \in Seq(Int)
  BY <1>m DEF Last, Front
<1>3. PICK A \in SUBSET Int : m.memory \in [A -> Int]  BY <1>m DEF Memories
<1>4. NextRegisters(m, instr, regs) \in Registers
  <2>1. CASE instr.op \notin Setters  BY <2>1 DEF NextRegisters
  <2>2. CASE instr.op \in Setters
    <3>1. Arg(instr, 1) \in 0..31  BY <2>2, <1>o DEF Setters
    <3>2. Result(m, instr, regs) \in Int
      <4>1. CASE instr.op \in {"MOVE", "LOAD_IMM"}  BY <4>1, <1>o, <1>r DEF Result
      <4>8. CASE instr.op \in {"ADD", "SUB", "MUL"}
        <5>1. regs[Arg(instr, 2)] \in Int /\ regs[Arg(instr, 3)] \in Int  BY <4>8, <1>o, <1>r
        <5> QED  BY <5>1, <4>8 DEF Result
      <4>2. CASE instr.op = "POP"  BY <4>2, <1>n, <1>l DEF Result
      <4>3. CASE instr.op = "DIV"  BY <4>3, <1>o, <1>r, <1>n, QuotientIs DEF Result
      <4>4. CASE instr.op = "LOAD"  BY <4>4, <1>n, <1>3 DEF Result
      <4>5. CASE instr.op = "CHAN_CREATE"  BY <4>5, <1>m DEF Result
      <4>6. CASE instr.op = "CHAN_READ"
        <5>1. \A c : Received(m, c) \in Int  BY <1>m DEF Received
        <5> QED  BY <5>1, <4>6 DEF Result
      <4>7. CASE instr.op = "CAS"  BY <4>7 DEF Result
      <4> QED  BY <2>2, <4>1, <4>2, <4>3, <4>4, <4>5, <4>6, <4>7, <4>8 DEF Setters
    <3> QED  BY <2>2, <3>1, <3>2 DEF NextRegisters, Registers
  <2> QED  BY <2>1, <2>2
<1>5. NextStack(m, instr, regs) \in Seq(Int)
  <2>1. CASE instr.op = "PUSH"  BY <2>1, <1>o, <1>r, <1>m DEF NextStack
  <2>2. CASE instr.op = "CALL"  BY <2>2, <1>2, <1>m DEF NextStack
  <2>3. CASE instr.op \in {"POP", "RET"}  BY <2>3, <1>n, <1>l DEF NextStack
  <2>4. CASE instr.op \notin {"PUSH", "CALL", "POP", "RET"}  BY <2>4, <1>m DEF NextStack
  <2> QED  BY <2>1, <2>2, <2>3, <2>4
<1>6. NextMemory(m, instr, regs) \in Memories
  <2>1. ASSUME NEW addr \in Int, NEW val \in Int
        PROVE [x \in DOMAIN m.memory \cup {addr} |-> IF x = addr THEN val ELSE m.memory[x]] \in Memories
    <3>1. A \cup {addr} \in SUBSET Int  OBVIOUS
    <3>2. [x \in DOMAIN m.memory \cup {addr} |-> IF x = addr THEN val ELSE m.memory[x]] \in [A \cup {addr} -> Int]
      BY <1>3
    <3> QED  BY <3>1, <3>2 DEF Memories
  <2>2. CASE instr.op = "STORE"  BY <2>1, <2>2, <1>o, <1>r DEF NextMemory
  <2>3. CASE instr.op = "CAS"  BY <2>1, <2>3, <1>o, <1>r, <1>m DEF NextMemory
  <2>4. CASE instr.op \notin {"STORE", "CAS"}  BY <2>4, <1>m DEF NextMemory
  <2> QED  BY <2>2, <2>3, <2>4
<1>7. NextChannels(m, instr, regs) \in Seq(Seq(Int))
  <2> DEFINE chs == m.channels
  <2>0. chs \in Seq(Seq(Int)) /\ \A c \in DOMAIN chs : chs[c] \in Seq(Int)  BY <1>m
  <2>1. ASSUME NEW c \in DOMAIN chs, NEW q \in Seq(Int) PROVE [chs EXCEPT ![c] = q] \in Seq(Seq(Int))
    <3>1. Len(chs) \in Nat /\ [chs EXCEPT ![c] = q] \in [1..Len(chs) -> Seq(Int)]  BY <2>0
    <3> QED  BY <3>1, ListOf
  <2>2. CASE instr.op = "CHAN_CREATE"  BY <2>2, <2>0 DEF NextChannels
  <2>3. CASE instr.op = "CHAN_WRITE"
    <3>1. regs[Arg(instr, 1)] \in DOMAIN chs /\ regs[Arg(instr, 2)] \in Int  BY <2>3, <1>n, <1>o, <1>r
    <3>2. Append(chs[regs[Arg(instr, 1)]], regs[Arg(instr, 2)]) \in Seq(Int)  BY <3>1, <2>0
    <3>3. NextChannels(m, instr, regs)
            = [chs EXCEPT ![regs[Arg(instr, 1)]] = Append(chs[regs[Arg(instr, 1)]], regs[Arg(instr, 2)])]
      BY <2>3 DEF NextChannels
    <3> QED  BY <3>1, <3>2, <3>3, <2>1
  <2>4. CASE instr.op = "CHAN_READ" /\ regs[Arg(instr, 2)] \in DOMAIN chs /\ chs[regs[Arg(instr, 2)]] # <<>>
    <3>1. Tail(chs[regs[Arg(instr, 2)]]) \in Seq(Int)  BY <2>4, <2>0
    <3>2. NextChannels(m, instr, regs) = [chs EXCEPT ![regs[Arg(instr, 2)]] = Tail(chs[regs[Arg(instr, 2)]])]
      BY <2>4 DEF NextChannels
    <3> QED  BY <2>4, <3>1, <3>2, <2>1
  <2>5. CASE /\ instr.op \notin {"CHAN_CREATE", "CHAN_WRITE"}
             /\ ~(instr.op = "CHAN_READ" /\ regs[Arg(instr, 2)] \in DOMAIN chs /\ chs[regs[Arg(instr, 2)]] # <<>>)
    BY <2>5, <2>0 DEF NextChannels
  <2> QED  BY <2>2, <2>3, <2>4, <2>5
<1>8. NextPc(prog, m, instr) \in Int
  <2>1. \A l \in DOMAIN prog.labels : prog.labels[l] \in 0..Size(prog)  BY ProgramIs
  <2>2. \A l \in DOMAIN prog.labels : prog.labels[l] \in Int  BY <2>1
  <2> QED  BY <2>2, <1>2, <1>o, <1>n, <1>l DEF NextPc
<1> HIDE DEF Memories
<1> DEFINE next == NextMachine(prog, m, instr, regs)
<1>9. next \in Machines
  <2> DEFINE eq == IF instr.op = "CMP" THEN regs[Arg(instr, 1)] = regs[Arg(instr, 2)]
                   ELSE IF instr.op = "TEST" THEN regs[Arg(instr, 1)] = 0 ELSE m.eq
             lt == IF instr.op = "CMP" THEN regs[Arg(instr, 1)] < regs[Arg(instr, 2)] ELSE m.lt
             gt == IF instr.op = "CMP" THEN regs[Arg(instr, 1)] > regs[Arg(instr, 2)] ELSE m.gt
             halts == instr.op \in {"HALT", "AGENT_HALT", "AGENT_YIELD"}
             halted == m.halted \/ halts
             mode == IF ~halts THEN m.status
                     ELSE IF instr.op = "AGENT_YIELD" THEN "SUSPENDED" ELSE "TERMINATED"
  <2>1. eq \in BOOLEAN /\ lt \in BOOLEAN /\ gt \in BOOLEAN
    <3>1. \A x, y : (x = y) \in BOOLEAN /\ (x < y) \in BOOLEAN /\ (x > y) \in BOOLEAN  OBVIOUS
    <3>2. CASE instr.op = "CMP"  BY <3>1, <3>2, Zenon
    <3>3. CASE instr.op # "CMP"  BY <3>1, <3>3, <1>m, Zenon
    <3> QED  BY <3>2, <3>3
  <2>2. halted \in BOOLEAN /\ mode \in {"READY", "SUSPENDED", "TERMINATED"}  BY <1>m
  <2>3. next = [stack |-> NextStack(m, instr, regs), memory |-> NextMemory(m, instr, regs),
                channels |-> NextChannels(m, instr, regs), pc |-> NextPc(prog, m, instr),
                eq |-> eq, lt |-> lt, gt |-> gt, halted |-> halted, status |-> mode]
    BY DEF NextMachine
  <2> HIDE DEF eq, lt, gt, halted, mode, next
  <2> QED  BY <2>1, <2>2, <2>3, <1>5, <1>6, <1>7, <1>8 DEF Machines
<1> QED  BY <1>4, <1>9

-----------------------------------------------------------------------------
(***************************************************************************)
(* The scheduler.                                                          *)
(***************************************************************************)
Agents == [program : Programs, machine : Machines,
           status : {"READY", "RUNNING", "SUSPENDED", "TERMINATED"}, file : Nat]

\* What the variables hold: every agent runs a program that was verified, on a
\* register file that exists.
AgentsTypeOK ==
    /\ agents \in Seq(Agents) /\ files \in Seq(Registers)
    /\ \A a \in Ids : Verifies(agents[a].program) /\ agents[a].file \in 1..Len(files)
    /\ limit \in Nat /\ steps \in Nat /\ calls \in Nat
    /\ turns \in Seq(Nat) /\ Len(turns) = Len(agents)
    /\ round \in Seq(Nat)

\* The machine a turn leaves the agent.
MachineAfter(a) ==
    LET agent == agents[a]
    IN  IF Finished(agent.program, agent.machine) THEN [agent.machine EXCEPT !.halted = TRUE]
        ELSE NextMachine(agent.program, agent.machine,
                         InstrAt(agent.program, agent.machine.pc), files[agent.file])

\* An agent and its parts.
LEMMA AgentIs ==
    ASSUME AgentsTypeOK, NEW a \in Ids
    PROVE  /\ Len(agents) \in Nat /\ Ids = 1..Len(agents) /\ a \in Nat
           /\ agents[a] \in Agents
           /\ agents[a].program \in Programs /\ Verifies(agents[a].program)
           /\ agents[a].machine \in Machines
           /\ agents[a].file \in DOMAIN files /\ files[agents[a].file] \in Registers
<1>1. /\ agents \in Seq(Agents) /\ files \in Seq(Registers)
      /\ Verifies(agents[a].program) /\ agents[a].file \in 1..Len(files)
  BY DEF AgentsTypeOK
<1>2. Len(agents) \in Nat /\ Ids = 1..Len(agents) /\ a \in Nat /\ agents[a] \in Agents  BY <1>1 DEF Ids
<1>3. agents[a].program \in Programs /\ agents[a].machine \in Machines  BY <1>2 DEF Agents
<1>4. agents[a].file \in DOMAIN files /\ files[agents[a].file] \in Registers  BY <1>1
<1> QED  BY <1>1, <1>2, <1>3, <1>4

\* A turn changes the agent's machine and its register file, and nothing else.
LEMMA TurnIs ==
    ASSUME IsaAssumption, AgentsTypeOK, NEW a \in Ids, ~Fails(a), Turn(a)
    PROVE  /\ agents' \in Seq(Agents) /\ Len(agents') = Len(agents)
           /\ files' \in Seq(Registers) /\ Len(files') = Len(files)
           /\ \A b \in Ids \ {a} : agents'[b] = agents[b]
           /\ MachineAfter(a) \in Machines
           /\ agents'[a].program = agents[a].program /\ agents'[a].file = agents[a].file
           /\ agents'[a].machine = MachineAfter(a)
           /\ agents'[a].status = StatusAfter(MachineAfter(a))
<1> DEFINE agent == agents[a]
           regs == files[agent.file]
           instr == InstrAt(agent.program, agent.machine.pc)
           done == Finished(agent.program, agent.machine)
           m == MachineAfter(a)
           st == StatusAfter(m)
<1>1. /\ Len(agents) \in Nat /\ Ids = 1..Len(agents) /\ agent \in Agents
      /\ agent.program \in Programs /\ Verifies(agent.program) /\ agent.machine \in Machines
      /\ agent.file \in DOMAIN files /\ regs \in Registers
  BY AgentIs
<1>2. ~done => /\ NextMachine(agent.program, agent.machine, instr, regs) \in Machines
               /\ NextRegisters(agent.machine, instr, regs) \in Registers
  BY <1>1, StepTypes DEF Fails
<1>3. m \in Machines
  <2>1. CASE done
    <3>1. [agent.machine EXCEPT !.halted = TRUE] \in Machines  BY <1>1 DEF Machines
    <3> QED  BY <2>1, <3>1 DEF MachineAfter
  <2>2. CASE ~done  BY <2>2, <1>2 DEF MachineAfter
  <2> QED  BY <2>1, <2>2
<1>4. st \in {"READY", "RUNNING", "SUSPENDED", "TERMINATED"}  BY DEF StatusAfter
<1>5. /\ agents' = [agents EXCEPT ![a].machine = m, ![a].status = st]
      /\ files' = IF done THEN files
                  ELSE [files EXCEPT ![agent.file] = NextRegisters(agent.machine, instr, regs)]
  BY DEF Turn, MachineAfter
<1>6. files' \in Seq(Registers) /\ Len(files') = Len(files)
  <2>0. files \in Seq(Registers) /\ Len(files) \in Nat  BY DEF AgentsTypeOK
  <2>1. CASE done  BY <2>0, <2>1, <1>5
  <2>2. CASE ~done
    <3>1. files' \in [1..Len(files) -> Registers]  BY <2>0, <2>2, <1>1, <1>2, <1>5
    <3> QED  BY <2>0, <3>1, ListOf
  <2> QED  BY <2>1, <2>2
<1> DEFINE new == [agent EXCEPT !.machine = m, !.status = st]
<1> HIDE DEF m, st
<1>7. new \in Agents /\ new.program = agent.program /\ new.file = agent.file /\ new.machine = m /\ new.status = st
  BY <1>1, <1>3, <1>4 DEF Agents
<1>8. agents' = [agents EXCEPT ![a] = new]  BY <1>1, <1>5
<1> HIDE DEF new
<1>9. agents \in [1..Len(agents) -> Agents]  BY <1>1 DEF AgentsTypeOK
<1>10. agents' \in [1..Len(agents) -> Agents] /\ agents'[a] = new /\ \A b \in Ids \ {a} : agents'[b] = agents[b]
  BY <1>1, <1>7, <1>8, <1>9
<1>11. agents' \in Seq(Agents) /\ Len(agents') = Len(agents)  BY <1>1, <1>10, ListOf
<1> QED  BY <1>3, <1>6, <1>7, <1>10, <1>11 DEF m, st

\* A runtime without agents.
LEMMA AgentsStart == ASSUME IsaAssumption, AgentsInit PROVE AgentsTypeOK
BY DEF AgentsInit, AgentsTypeOK, Ids

\* A new agent starts on an empty machine.
LEMMA NewIs == NewMachine \in Machines /\ NewRegisters \in Registers
<1>1. [addr \in {} |-> 0] \in Memories
  <2>1. [addr \in {} |-> 0] \in [{} -> Int] /\ {} \in SUBSET Int  OBVIOUS
  <2> QED  BY <2>1 DEF Memories
<1> QED  BY <1>1 DEF NewMachine, Machines, NewRegisters, Registers

\* One lemma for each action: what the variables hold stays so.
LEMMA SpawnTypes ==
    ASSUME IsaAssumption, AgentsTypeOK, NEW prog \in Programs, NEW parent \in Ids \cup {0}, Spawn(prog, parent)
    PROVE  AgentsTypeOK'
<1> DEFINE f == IF parent = 0 THEN Len(files) + 1 ELSE agents[parent].file
           new == [program |-> prog, machine |-> NewMachine, status |-> "READY", file |-> f]
<1>1. files \in Seq(Registers) /\ Len(files) \in Nat /\ agents \in Seq(Agents) /\ turns \in Seq(Nat)
      /\ Len(turns) = Len(agents) /\ Len(agents) \in Nat
  BY DEF AgentsTypeOK
<1>2. files' \in Seq(Registers) /\ Len(files') >= Len(files) /\ Len(files') \in Nat
      /\ (parent = 0 => Len(files') = Len(files) + 1)
  BY <1>1, NewIs DEF Spawn
<1>3. f \in 1..Len(files')
  <2>1. CASE parent = 0  BY <2>1, <1>1, <1>2
  <2>2. CASE parent # 0
    <3>1. agents[parent].file \in 1..Len(files)  BY <2>2 DEF AgentsTypeOK
    <3> QED  BY <2>2, <3>1, <1>1, <1>2
  <2> QED  BY <2>1, <2>2
<1>4. new \in Agents  BY <1>2, <1>3, NewIs DEF Agents
<1>5. agents' = Append(agents, new) /\ turns' = Append(turns, 0) /\ Verifies(prog)  BY DEF Spawn
<1>6. new.program = prog /\ new.file = f  OBVIOUS
<1> HIDE DEF new, f
<1>7. agents' \in Seq(Agents) /\ turns' \in Seq(Nat) /\ Len(turns') = Len(agents')  BY <1>1, <1>4, <1>5
<1>8. \A a \in Ids' : Verifies(agents'[a].program) /\ agents'[a].file \in 1..Len(files')
  <2> TAKE a \in Ids'
  <2>1. (a \in Ids /\ agents'[a] = agents[a]) \/ agents'[a] = new  BY <1>1, <1>4, <1>5 DEF Ids
  <2>2. CASE a \in Ids /\ agents'[a] = agents[a]
    <3>1. Verifies(agents[a].program) /\ agents[a].file \in 1..Len(files)  BY <2>2 DEF AgentsTypeOK
    <3> QED  BY <2>2, <3>1, <1>1, <1>2
  <2>3. CASE agents'[a] = new  BY <2>3, <1>3, <1>5, <1>6
  <2> QED  BY <2>1, <2>2, <2>3
<1> QED  BY <1>2, <1>7, <1>8 DEF AgentsTypeOK, Spawn

\* Some of finitely many agents can run.
LEMMA RunnableFinite ==
    ASSUME AgentsTypeOK PROVE Runnable \subseteq Int /\ Runnable \subseteq Ids /\ IsFiniteSet(Runnable)
<1>1. Len(agents) \in Nat /\ Ids = 1..Len(agents)  BY DEF AgentsTypeOK, Ids
<1>2. Runnable \in SUBSET Ids  BY DEF Runnable
<1>3. IsFiniteSet(Ids)
  <2>1. IsFiniteSet(1..Len(agents))  BY <1>1, FS_Interval
  <2> QED  BY <1>1, <2>1
<1>4. IsFiniteSet(Runnable)  BY <1>2, <1>3, FS_Subset
<1>5. Ids \subseteq Int  BY <1>1
<1> QED  BY <1>2, <1>4, <1>5

LEMMA CallTypes ==
    ASSUME IsaAssumption, AgentsTypeOK, NEW max \in Limits, Call(max) PROVE AgentsTypeOK'
<1>1. max \in Nat  BY DEF IsaAssumption
<1>2. Len(agents) \in Nat /\ Ids = 1..Len(agents)  BY DEF AgentsTypeOK, Ids
<1>3. turns' \in [1..Len(agents) -> Nat]  BY <1>2 DEF Call
<1>4. turns' \in Seq(Nat) /\ Len(turns') = Len(agents)  BY <1>2, <1>3, ListOf
<1> QED  BY <1>1, <1>4 DEF Call, AgentsTypeOK, Ids

LEMMA NewRoundTypes ==
    ASSUME IsaAssumption, AgentsTypeOK, NewRound
    PROVE  /\ AgentsTypeOK'
           /\ {round'[i] : i \in DOMAIN round'} = Runnable
           /\ \A i, j \in DOMAIN round' : i < j => round'[i] < round'[j]
<1> DEFINE n == Cardinality(Runnable)
<1>1. /\ n \in Nat /\ round' \in [1..n -> Runnable]
      /\ \A i, j \in 1..n : i < j => round'[i] < round'[j]
      /\ \A x \in Runnable : \E i \in 1..n : round'[i] = x
  BY RunnableFinite, InOrderIs DEF NewRound
<1> HIDE DEF n
<1>2. round' \in Seq(Runnable) /\ DOMAIN round' = 1..n  BY <1>1, ListOf
<1>3. Runnable \subseteq Nat
  <2>1. Len(agents) \in Nat /\ Ids = 1..Len(agents)  BY DEF AgentsTypeOK, Ids
  <2> QED  BY <2>1, RunnableFinite
<1>4. round' \in [1..n -> Nat]  BY <1>1, <1>3
<1>5. round' \in Seq(Nat)  BY <1>1, <1>4, ListOf
<1>6. AgentsTypeOK'  BY <1>5 DEF NewRound, AgentsTypeOK, Ids
<1> QED  BY <1>1, <1>2, <1>6

LEMMA TakeTurnTypes ==
    ASSUME IsaAssumption, AgentsTypeOK, TakeTurn, Head(round) \in Ids PROVE AgentsTypeOK'
<1> DEFINE a == Head(round)
<1>1. /\ agents' \in Seq(Agents) /\ Len(agents') = Len(agents)
      /\ files' \in Seq(Registers) /\ Len(files') = Len(files)
      /\ \A b \in Ids \ {a} : agents'[b] = agents[b]
      /\ agents'[a].program = agents[a].program /\ agents'[a].file = agents[a].file
  BY TurnIs DEF TakeTurn
<1>2. Ids' = Ids  BY <1>1 DEF Ids, AgentsTypeOK
<1>3. \A b \in Ids : Verifies(agents'[b].program) /\ agents'[b].file \in 1..Len(files')
  <2> TAKE b \in Ids
  <2>1. Verifies(agents[b].program) /\ agents[b].file \in 1..Len(files)  BY DEF AgentsTypeOK
  <2>2. agents'[b].program = agents[b].program /\ agents'[b].file = agents[b].file  BY <1>1
  <2> QED  BY <2>1, <2>2, <1>1
<1>4. turns' \in Seq(Nat) /\ Len(turns') = Len(turns)
  <2>1. turns \in [1..Len(turns) -> Nat] /\ Len(turns) \in Nat /\ a \in 1..Len(turns)
    BY DEF AgentsTypeOK, Ids
  <2>2. turns' = [turns EXCEPT ![a] = turns[a] + 1]  BY DEF TakeTurn
  <2> HIDE DEF a
  <2>3. turns' \in [1..Len(turns) -> Nat]  BY <2>1, <2>2
  <2> QED  BY <2>1, <2>3, ListOf
<1>5. steps' \in Nat /\ round' \in Seq(Nat) /\ UNCHANGED <<limit, calls>>  BY DEF TakeTurn, AgentsTypeOK
<1> QED  BY <1>1, <1>2, <1>3, <1>4, <1>5 DEF AgentsTypeOK

LEMMA TurnRaisesTypes ==
    ASSUME IsaAssumption, AgentsTypeOK, TurnRaises, Head(round) \in Ids
    PROVE  AgentsTypeOK' /\ \A b \in Ids : agents'[b].program = agents[b].program
                                          /\ agents'[b].machine = agents[b].machine
<1> DEFINE a == Head(round)
           new == [agents[a] EXCEPT !.status = "RUNNING"]
<1>1. agents[a] \in Agents /\ agents \in Seq(Agents) /\ Len(agents) \in Nat /\ Ids = 1..Len(agents)
  BY AgentIs DEF AgentsTypeOK
<1>2. new \in Agents /\ new.program = agents[a].program /\ new.file = agents[a].file
      /\ new.machine = agents[a].machine
  BY <1>1 DEF Agents
<1>3. agents' = [agents EXCEPT ![a] = new]  BY DEF TurnRaises
<1> HIDE DEF new
<1>4. agents' \in [1..Len(agents) -> Agents] /\ agents'[a] = new /\ \A b \in Ids \ {a} : agents'[b] = agents[b]
  BY <1>1, <1>2, <1>3
<1>5. agents' \in Seq(Agents) /\ Len(agents') = Len(agents) /\ Ids' = Ids  BY <1>1, <1>4, ListOf DEF Ids
<1>6. \A b \in Ids : /\ agents'[b].program = agents[b].program /\ agents'[b].file = agents[b].file
                     /\ agents'[b].machine = agents[b].machine
  BY <1>2, <1>4
<1>7. AgentsTypeOK'  BY <1>5, <1>6 DEF AgentsTypeOK, TurnRaises, Leave
<1> QED  BY <1>6, <1>7

LEMMA ReturnTypes == ASSUME AgentsTypeOK, Return PROVE AgentsTypeOK'
BY DEF AgentsTypeOK, Return, Leave, Ids

-----------------------------------------------------------------------------
(***************************************************************************)
(* The round robin.                                                        *)
(***************************************************************************)
Waiting == {round[i] : i \in DOMAIN round}

\* The agents that can run have had as many turns as each other, but for those
\* still waiting in this round, which are younger and have had one less.
RoundInv ==
    /\ AgentsTypeOK
    /\ limit = 0 => round = <<>>
    /\ \A i \in DOMAIN round : round[i] \in Runnable
    /\ \A i, j \in DOMAIN round : i < j => round[i] < round[j]
    /\ \A a \in Runnable \ Waiting, b \in Waiting : a < b
    /\ limit # 0 => \E n \in Int : \A a \in Runnable : turns[a] = IF a \in Waiting THEN n ELSE n + 1

\* The first of a list and the ones after it.
LEMMA TailIs ==
    ASSUME NEW S, NEW r \in Seq(S), r # <<>>
    PROVE  /\ Tail(r) \in Seq(S) /\ 1 \in DOMAIN r /\ Head(r) = r[1] /\ DOMAIN r \subseteq Int
           /\ \A i \in DOMAIN Tail(r) : i \in Int /\ i + 1 \in DOMAIN r /\ 1 < i + 1 /\ Tail(r)[i] = r[i + 1]
           /\ \A i \in DOMAIN r \ {1} : i - 1 \in DOMAIN Tail(r) /\ Tail(r)[i - 1] = r[i]
<1>1. Len(r) \in Nat /\ DOMAIN r = 1..Len(r) /\ Len(r) # 0  OBVIOUS
<1>2. Tail(r) \in Seq(S) /\ Len(Tail(r)) = Len(r) - 1 /\ Head(r) = r[1]  OBVIOUS
<1>3. DOMAIN Tail(r) = 1..(Len(r) - 1)  BY <1>2
<1>4. \A i \in 1..(Len(r) - 1) : Tail(r)[i] = r[i + 1]  OBVIOUS
<1> HIDE <1>2
<1>5. \A i \in DOMAIN Tail(r) : i \in Int /\ i + 1 \in DOMAIN r /\ 1 < i + 1 /\ Tail(r)[i] = r[i + 1]
  BY <1>1, <1>3, <1>4
<1>6. \A i \in DOMAIN r \ {1} : i - 1 \in DOMAIN Tail(r) /\ Tail(r)[i - 1] = r[i]
  <2> TAKE i \in DOMAIN r \ {1}
  <2>1. i - 1 \in 1..(Len(r) - 1) /\ (i - 1) + 1 = i  BY <1>1
  <2> QED  BY <2>1, <1>3, <1>4
<1> QED  BY <1>1, <1>2, <1>5, <1>6

\* The agent whose turn it is may run and is older than the others that wait.
LEMMA FirstWaits ==
    ASSUME RoundInv, round # <<>>
    PROVE  /\ Head(round) \in Runnable /\ Head(round) \in Waiting /\ Head(round) \in Ids
           /\ {Tail(round)[i] : i \in DOMAIN Tail(round)} = Waiting \ {Head(round)}
           /\ \A b \in Waiting \ {Head(round)} : Head(round) < b
           /\ \A i, j \in DOMAIN Tail(round) : i < j => Tail(round)[i] < Tail(round)[j]
<1>1. round \in Seq(Nat)  BY DEF RoundInv, AgentsTypeOK
<1>2. /\ 1 \in DOMAIN round /\ Head(round) = round[1] /\ DOMAIN round \subseteq Int
      /\ \A i \in DOMAIN Tail(round) :
            i \in Int /\ i + 1 \in DOMAIN round /\ 1 < i + 1 /\ Tail(round)[i] = round[i + 1]
      /\ \A i \in DOMAIN round \ {1} : i - 1 \in DOMAIN Tail(round) /\ Tail(round)[i - 1] = round[i]
  BY <1>1, TailIs
<1>3. \A i, j \in DOMAIN round : i < j => round[i] < round[j]  BY DEF RoundInv
<1>4. \A i \in DOMAIN round : round[i] \in Nat  BY <1>1
<1>5. Head(round) \in Runnable /\ Head(round) \in Waiting /\ Head(round) \in Ids
  BY <1>2 DEF RoundInv, Runnable, Waiting
<1>6. \A i \in DOMAIN Tail(round) : Tail(round)[i] \in Waiting /\ Head(round) < Tail(round)[i]
                                    /\ Tail(round)[i] \in Nat
  BY <1>2, <1>3, <1>4 DEF Waiting
<1>7. \A b \in Waiting \ {Head(round)} : b \in {Tail(round)[i] : i \in DOMAIN Tail(round)}
  <2> TAKE b \in Waiting \ {Head(round)}
  <2>1. PICK i \in DOMAIN round : b = round[i]  BY DEF Waiting
  <2>2. i \in DOMAIN round \ {1}  BY <2>1, <1>2
  <2>3. i - 1 \in DOMAIN Tail(round) /\ Tail(round)[i - 1] = b  BY <2>1, <2>2, <1>2
  <2> QED  BY <2>3
<1>8. Head(round) \in Nat  BY <1>2, <1>4
<1>9. Head(round) \notin {Tail(round)[i] : i \in DOMAIN Tail(round)}  BY <1>6, <1>8
<1>10. \A i, j \in DOMAIN Tail(round) : i < j => Tail(round)[i] < Tail(round)[j]
  <2> SUFFICES ASSUME NEW i \in DOMAIN Tail(round), NEW j \in DOMAIN Tail(round), i < j
               PROVE  Tail(round)[i] < Tail(round)[j]
    OBVIOUS
  <2>1. i \in Int /\ j \in Int /\ i + 1 < j + 1  BY <1>2
  <2> QED  BY <2>1, <1>2, <1>3
<1> QED  BY <1>5, <1>6, <1>7, <1>9, <1>10

\* One lemma for each action: the round stays fair.
LEMMA RoundNew ==
    ASSUME IsaAssumption, RoundInv, NewRound PROVE RoundInv'
<1>1. AgentsTypeOK' /\ Waiting' = Runnable /\ \A i, j \in DOMAIN round' : i < j => round'[i] < round'[j]
  BY NewRoundTypes DEF RoundInv, Waiting
<1>2. Runnable' = Runnable /\ turns' = turns /\ limit' = limit /\ limit # 0 /\ Waiting = {}
  BY DEF NewRound, Runnable, Ids, Waiting
<1>3. PICK n \in Int : \A a \in Runnable : turns[a] = n + 1  BY <1>2 DEF RoundInv
<1>4. n + 1 \in Int  OBVIOUS
<1>5. \A a \in Runnable' : turns'[a] = IF a \in Waiting' THEN n + 1 ELSE n + 1 + 1  BY <1>1, <1>2, <1>3
<1>6. \E k \in Int : \A a \in Runnable' : turns'[a] = IF a \in Waiting' THEN k ELSE k + 1  BY <1>4, <1>5
<1>7. \A i \in DOMAIN round' : round'[i] \in Runnable'  BY <1>1, <1>2 DEF Waiting
<1>8. Runnable' \ Waiting' = {}  BY <1>1, <1>2
<1> QED  BY <1>1, <1>2, <1>6, <1>7, <1>8 DEF RoundInv

LEMMA RoundCall ==
    ASSUME IsaAssumption, RoundInv, NEW max \in Limits, Call(max) PROVE RoundInv'
<1>1. AgentsTypeOK'  BY CallTypes DEF RoundInv
<1>2. Runnable' = Runnable /\ round' = <<>> /\ Waiting' = {}  BY DEF Call, Runnable, Ids, Waiting
<1>3. \A a \in Runnable : turns'[a] = 0  BY DEF Call, Runnable
<1>4. \A a \in Runnable' : turns'[a] = IF a \in Waiting' THEN -1 ELSE -1 + 1  BY <1>2, <1>3
<1> QED  BY <1>1, <1>2, <1>4 DEF RoundInv

LEMMA RoundLeft == ASSUME AgentsTypeOK', Leave PROVE RoundInv'
<1>1. round' = <<>> /\ limit' = 0 /\ Waiting' = {}  BY DEF Leave, Waiting
<1> QED  BY <1>1 DEF RoundInv

LEMMA RoundTurn ==
    ASSUME IsaAssumption, RoundInv, TakeTurn PROVE RoundInv'
<1> DEFINE h == Head(round)
<1>0. AgentsTypeOK  BY DEF RoundInv
<1>1. /\ h \in Runnable /\ h \in Waiting /\ h \in Ids
      /\ {Tail(round)[i] : i \in DOMAIN Tail(round)} = Waiting \ {h}
      /\ \A b \in Waiting \ {h} : h < b
      /\ \A i, j \in DOMAIN Tail(round) : i < j => Tail(round)[i] < Tail(round)[j]
  BY FirstWaits DEF TakeTurn
<1>2. AgentsTypeOK'  BY <1>0, <1>1, TakeTurnTypes
<1>3. Len(agents') = Len(agents) /\ \A b \in Ids \ {h} : agents'[b] = agents[b]
  BY <1>0, <1>1, TurnIs DEF TakeTurn
<1>4. Ids' = Ids  BY <1>2, <1>3, <1>0 DEF AgentsTypeOK, Ids
<1>5. round' = Tail(round) /\ Waiting' = Waiting \ {h}  BY <1>1 DEF TakeTurn, Waiting
<1>6. Runnable' \subseteq Runnable /\ Runnable \ {h} \subseteq Runnable'
  BY <1>1, <1>3, <1>4 DEF Runnable
<1>7. \A a \in Runnable' \ Waiting', b \in Waiting' : a < b
  BY <1>1, <1>5, <1>6 DEF RoundInv
<1>8. \A i \in DOMAIN round' : round'[i] \in Runnable'
  <2>1. \A b \in Waiting : b \in Runnable  BY DEF RoundInv, Waiting
  <2> QED  BY <2>1, <1>1, <1>5, <1>6
<1>9. limit # 0 /\ limit' = limit  BY DEF TakeTurn, RoundInv
<1>10. PICK n \in Int : \A a \in Runnable : turns[a] = IF a \in Waiting THEN n ELSE n + 1
  BY <1>9 DEF RoundInv
<1>11. \A a \in Runnable' : turns'[a] = IF a \in Waiting' THEN n ELSE n + 1
  <2> TAKE a \in Runnable'
  <2>1. turns' = [turns EXCEPT ![h] = turns[h] + 1]  BY DEF TakeTurn
  <2>2. h \in DOMAIN turns /\ a \in Runnable
    BY <1>0, <1>1, <1>6 DEF AgentsTypeOK, Ids
  <2> HIDE DEF h
  <2>3. CASE a = h  BY <2>1, <2>2, <2>3, <1>1, <1>5, <1>10
  <2>4. CASE a # h  BY <2>1, <2>2, <2>4, <1>5, <1>10
  <2> QED  BY <2>3, <2>4
<1>12. \E k \in Int : \A a \in Runnable' : turns'[a] = IF a \in Waiting' THEN k ELSE k + 1  BY <1>11
<1> QED  BY <1>1, <1>2, <1>5, <1>7, <1>8, <1>9, <1>12 DEF RoundInv

(***************************************************************************)
(* Agents that spawn, run, yield, end and raise, in calls of run() of any  *)
(* length, keep the invariant of the round.                                *)
(***************************************************************************)
THEOREM RoundInvariant == ASSUME IsaAssumption PROVE AgentsSpec => []RoundInv
<1>1. AgentsInit => RoundInv
  <2>1. ASSUME AgentsInit PROVE RoundInv
    <3>1. AgentsTypeOK  BY <2>1, AgentsStart
    <3> QED  BY <2>1, <3>1 DEF AgentsInit, RoundInv, Waiting
  <2> QED  BY <2>1
<1>2. RoundInv /\ [AgentsNext]_agentVars => RoundInv'
  <2> SUFFICES ASSUME RoundInv, [AgentsNext]_agentVars PROVE RoundInv'  OBVIOUS
  <2>0. AgentsTypeOK  BY DEF RoundInv
  <2>1. ASSUME NEW prog \in Programs, NEW parent \in Ids \cup {0}, Spawn(prog, parent) PROVE RoundInv'
    <3>1. AgentsTypeOK'  BY <2>0, <2>1, SpawnTypes
    <3>2. limit' = 0 /\ round' = <<>> /\ Waiting' = {}  BY <2>1 DEF Spawn, RoundInv, Waiting
    <3> QED  BY <3>1, <3>2 DEF RoundInv
  <2>2. ASSUME NEW max \in Limits, Call(max) PROVE RoundInv'  BY <2>2, RoundCall
  <2>3. CASE NewRound  BY <2>3, RoundNew
  <2>4. CASE TakeTurn  BY <2>4, RoundTurn
  <2>5. CASE TurnRaises
    <3>1. Head(round) \in Ids  BY <2>5, FirstWaits DEF TurnRaises
    <3>2. AgentsTypeOK'  BY <2>0, <2>5, <3>1, TurnRaisesTypes
    <3> QED  BY <2>5, <3>2, RoundLeft DEF TurnRaises
  <2>6. CASE Return
    <3>1. AgentsTypeOK'  BY <2>0, <2>6, ReturnTypes
    <3> QED  BY <2>6, <3>1, RoundLeft DEF Return
  <2>7. CASE UNCHANGED agentVars
    <3>1. AgentsTypeOK'  BY <2>0, <2>7 DEF AgentsTypeOK, agentVars, Ids
    <3>2. Runnable' = Runnable /\ Waiting' = Waiting /\ round' = round /\ turns' = turns /\ limit' = limit
      BY <2>7 DEF agentVars, Runnable, Ids, Waiting
    <3> QED  BY <3>1, <3>2 DEF RoundInv
  <2> QED  BY <2>1, <2>2, <2>3, <2>4, <2>5, <2>6, <2>7 DEF AgentsNext, RunNext
<1> QED  BY <1>1, <1>2, PTL DEF AgentsSpec

(***************************************************************************)
(* Of two agents that can run, the older has had as many turns as the      *)
(* younger in this call of run(), or one more.                             *)
(***************************************************************************)
THEOREM NoAgentIsPassedOver == ASSUME IsaAssumption PROVE AgentsSpec => []RoundRobin
<1>1. RoundInv => RoundRobin
  <2> SUFFICES ASSUME RoundInv, limit # 0, NEW a \in Runnable, NEW b \in Runnable, a < b
               PROVE  turns[a] - turns[b] \in {0, 1}
    BY DEF RoundRobin
  <2>1. PICK n \in Int : \A c \in Runnable : turns[c] = IF c \in Waiting THEN n ELSE n + 1
    BY DEF RoundInv
  <2>2. a \in Int /\ b \in Int
    <3>1. AgentsTypeOK  BY DEF RoundInv
    <3> QED  BY <3>1, RunnableFinite
  <2>3. ~(a \in Waiting /\ b \notin Waiting)  BY <2>2 DEF RoundInv
  <2>4. CASE a \in Waiting  BY <2>1, <2>3, <2>4
  <2>5. CASE a \notin Waiting  BY <2>1, <2>5
  <2> QED  BY <2>4, <2>5
<1> QED  BY <1>1, RoundInvariant, PTL

-----------------------------------------------------------------------------
(***************************************************************************)
(* Programs that push no data.                                             *)
(***************************************************************************)
PushFree(prog) == \A i \in 1..Size(prog) : prog.instructions[i].op # "PUSH"
\* A machine inside its program: its pc, and the return addresses on its stack.
InsideOf(prog, m) == m.pc \in 0..Size(prog) /\ m.stack \in Seq(0..Size(prog))

\* An instruction other than PUSH stays inside.
LEMMA StepInside ==
    ASSUME IsaAssumption, NEW prog \in Programs, Verifies(prog), NEW m \in Machines, NEW regs,
           ~Finished(prog, m), ~Raises(prog, m, regs), NEW instr, instr = InstrAt(prog, m.pc),
           PushFree(prog), InsideOf(prog, m)
    PROVE  InsideOf(prog, NextMachine(prog, m, instr, regs))
<1> DEFINE n == Size(prog)
<1>1. n \in Nat /\ \A l \in DOMAIN prog.labels : prog.labels[l] \in 0..n  BY ProgramIs
<1>2. m.pc \in 0..(n - 1) /\ m.stack \in Seq(0..n)  BY <1>1 DEF InsideOf, Finished
<1>3. instr = prog.instructions[m.pc + 1] /\ m.pc + 1 \in 1..n  BY <1>1, <1>2 DEF InstrAt
<1>4. instr.op # "PUSH"  BY <1>3 DEF PushFree
<1>5. instr.op \in {"JMP", "JE", "JNE", "JL", "JG", "CALL"} => prog.labels[Arg(instr, 1)] \in 0..n
  <2>1. -n <= m.pc /\ m.pc < n /\ m.pc \in Int  BY <1>1, <1>2
  <2>2. instr.op \in {"JMP", "JE", "JNE", "JL", "JG", "CALL"} => Arg(instr, 1) \in DOMAIN prog.labels
    BY <2>1, OperandsOf
  <2> QED  BY <2>2, <1>1
<1>6. instr.op \in {"POP", "RET"} => m.stack # <<>>  BY <1>1, <1>2 DEF Raises
<1>7. m.stack # <<>> => Last(m.stack) \in 0..n /\ Front(m.stack) \in Seq(0..n)
  <2> DEFINE places == 0..n
  <2>1. m.stack \in Seq(places)  BY <1>2
  <2> HIDE DEF places
  <2>2. m.stack # <<>> => Last(m.stack) \in places /\ Front(m.stack) \in Seq(places)
    BY <2>1 DEF Last, Front
  <2> QED  BY <2>2 DEF places
<1>8. m.pc + 1 \in 0..n  BY <1>1, <1>2
<1>9. NextPc(prog, m, instr) \in 0..n
  <2>1. CASE instr.op \in {"JMP", "JE", "JNE", "JL", "JG", "CALL"}  BY <2>1, <1>5, <1>8 DEF NextPc
  <2>2. CASE instr.op = "RET"  BY <2>2, <1>6, <1>7 DEF NextPc
  <2>3. CASE instr.op \notin {"JMP", "JE", "JNE", "JL", "JG", "CALL", "RET"}  BY <2>3, <1>8 DEF NextPc
  <2> QED  BY <2>1, <2>2, <2>3
<1>10. NextStack(m, instr, regs) \in Seq(0..n)
  <2>1. CASE instr.op = "CALL"
    <3> DEFINE places == 0..n
    <3>1. m.stack \in Seq(places) /\ m.pc + 1 \in places  BY <1>2, <1>8
    <3> HIDE DEF places
    <3>2. Append(m.stack, m.pc + 1) \in Seq(places)  BY <3>1
    <3> QED  BY <3>2, <2>1 DEF NextStack, places
  <2>2. CASE instr.op \in {"POP", "RET"}  BY <2>2, <1>6, <1>7 DEF NextStack
  <2>3. CASE instr.op \notin {"PUSH", "CALL", "POP", "RET"}  BY <2>3, <1>2 DEF NextStack
  <2> QED  BY <1>4, <2>1, <2>2, <2>3
<1> DEFINE next == NextMachine(prog, m, instr, regs)
<1>11. next.pc = NextPc(prog, m, instr) /\ next.stack = NextStack(m, instr, regs)  BY DEF NextMachine
<1> QED  BY <1>9, <1>10, <1>11 DEF InsideOf

\* The inductive invariant: agents whose program has no PUSH stay inside.
StaysInside(a) == PushFree(agents[a].program) => InsideOf(agents[a].program, agents[a].machine)
InsideInv == RoundInv /\ \A a \in Ids : StaysInside(a)

\* One lemma for each action that touches a machine.
LEMMA InsideSame ==
    ASSUME InsideInv, Ids' = Ids,
           \A a \in Ids : agents'[a].program = agents[a].program /\ agents'[a].machine = agents[a].machine
    PROVE  \A a \in Ids' : StaysInside(a)'
BY DEF InsideInv, StaysInside

LEMMA InsideSpawned ==
    ASSUME IsaAssumption, InsideInv, NEW prog \in Programs, NEW parent \in Ids \cup {0}, Spawn(prog, parent)
    PROVE  \A a \in Ids' : StaysInside(a)'
<1> DEFINE f == IF parent = 0 THEN Len(files) + 1 ELSE agents[parent].file
           new == [program |-> prog, machine |-> NewMachine, status |-> "READY", file |-> f]
<1>1. agents \in Seq(Agents) /\ Len(agents) \in Nat  BY DEF InsideInv, RoundInv, AgentsTypeOK
<1>2. agents' = Append(agents, new)  BY DEF Spawn
<1>3. new.program = prog /\ new.machine = NewMachine  OBVIOUS
<1> HIDE DEF new
<1> SUFFICES ASSUME NEW a \in Ids' PROVE StaysInside(a)'  OBVIOUS
<1>4. (a \in Ids /\ agents'[a] = agents[a]) \/ agents'[a] = new
  <2>1. DOMAIN agents' = 1..(Len(agents) + 1) /\ DOMAIN agents = 1..Len(agents)
        /\ agents'[Len(agents) + 1] = new /\ \A k \in 1..Len(agents) : agents'[k] = agents[k]
    BY <1>1, <1>2
  <2> QED  BY <2>1, <1>1 DEF Ids
<1>5. CASE a \in Ids /\ agents'[a] = agents[a]  BY <1>5 DEF InsideInv, StaysInside
<1>6. CASE agents'[a] = new
  <2>1. Size(prog) \in Nat  BY ProgramIs
  <2>2. NewMachine.pc = 0 /\ NewMachine.stack = <<>>  BY DEF NewMachine
  <2>3. InsideOf(prog, NewMachine)  BY <2>1, <2>2 DEF InsideOf
  <2> QED  BY <2>3, <1>3, <1>6 DEF StaysInside
<1> QED  BY <1>4, <1>5, <1>6

LEMMA InsideTurn ==
    ASSUME IsaAssumption, InsideInv, TakeTurn PROVE \A a \in Ids' : StaysInside(a)'
<1>0. RoundInv /\ AgentsTypeOK  BY DEF InsideInv, RoundInv
<1>1. PICK h \in Ids : h = Head(round)  BY <1>0, FirstWaits DEF TakeTurn
<1>2. /\ Len(agents') = Len(agents) /\ agents' \in Seq(Agents) /\ \A b \in Ids \ {h} : agents'[b] = agents[b]
      /\ agents'[h].program = agents[h].program /\ agents'[h].machine = MachineAfter(h)
  BY <1>0, <1>1, TurnIs DEF TakeTurn
<1>3. Ids' = Ids  BY <1>0, <1>2 DEF Ids, AgentsTypeOK
<1>4. \A b \in Ids \ {h} : StaysInside(b)'  BY <1>2 DEF InsideInv, StaysInside
<1>5. StaysInside(h)'
  <2> DEFINE prog == agents[h].program
             m == agents[h].machine
             regs == files[agents[h].file]
  <2> SUFFICES ASSUME PushFree(prog) PROVE InsideOf(prog, MachineAfter(h))
    BY <1>2 DEF StaysInside
  <2>1. InsideOf(prog, m)  BY <1>1 DEF InsideInv, StaysInside
  <2>2. prog \in Programs /\ Verifies(prog) /\ m \in Machines  BY <1>0, <1>1, AgentIs
  <2>3. CASE Finished(prog, m)
    <3>1. MachineAfter(h) = [m EXCEPT !.halted = TRUE]  BY <2>3 DEF MachineAfter
    <3>2. MachineAfter(h).pc = m.pc /\ MachineAfter(h).stack = m.stack  BY <3>1, <2>2 DEF Machines
    <3> QED  BY <3>2, <2>1 DEF InsideOf
  <2>4. CASE ~Finished(prog, m)
    <3>1. ~Raises(prog, m, regs)  BY <1>1, <2>4 DEF TakeTurn, Fails
    <3>2. MachineAfter(h) = NextMachine(prog, m, InstrAt(prog, m.pc), regs)  BY <2>4 DEF MachineAfter
    <3> QED  BY <2>1, <2>2, <2>4, <3>1, <3>2, StepInside
  <2> QED  BY <2>3, <2>4
<1> QED  BY <1>3, <1>4, <1>5

(***************************************************************************)
(* Agents without a PUSH stay inside their programs, whatever the others do *)
(* to the registers they share.                                            *)
(***************************************************************************)
THEOREM InsideInvariant == ASSUME IsaAssumption PROVE AgentsSpec => []InsideInv
<1>1. AgentsInit => \A a \in Ids : StaysInside(a)  BY DEF AgentsInit, Ids
<1>2. RoundInv /\ RoundInv' /\ (\A a \in Ids : StaysInside(a)) /\ [AgentsNext]_agentVars
      => (\A a \in Ids : StaysInside(a))'
  <2> SUFFICES ASSUME InsideInv, RoundInv', [AgentsNext]_agentVars PROVE \A a \in Ids' : StaysInside(a)'
    BY DEF InsideInv
  <2>0. RoundInv /\ AgentsTypeOK  BY DEF InsideInv, RoundInv
  <2>1. ASSUME NEW prog \in Programs, NEW parent \in Ids \cup {0}, Spawn(prog, parent)
        PROVE  \A a \in Ids' : StaysInside(a)'
    BY <2>1, InsideSpawned
  <2>2. ASSUME NEW max \in Limits, Call(max) PROVE \A a \in Ids' : StaysInside(a)'
    BY <2>2, InsideSame DEF Call, Ids
  <2>3. CASE NewRound  BY <2>3, InsideSame DEF NewRound, Ids
  <2>4. CASE TakeTurn  BY <2>4, InsideTurn
  <2>5. CASE TurnRaises
    <3>1. Head(round) \in Ids  BY <2>0, <2>5, FirstWaits DEF TurnRaises
    <3>2. \A b \in Ids : agents'[b].program = agents[b].program /\ agents'[b].machine = agents[b].machine
      BY <2>0, <2>5, <3>1, TurnRaisesTypes
    <3>3. Ids' = Ids  BY <2>5 DEF TurnRaises, Ids
    <3> QED  BY <3>2, <3>3, InsideSame
  <2>6. CASE Return  BY <2>6, InsideSame DEF Return, Ids
  <2>7. CASE UNCHANGED agentVars  BY <2>7, InsideSame DEF agentVars, Ids
  <2> QED  BY <2>1, <2>2, <2>3, <2>4, <2>5, <2>6, <2>7 DEF AgentsNext, RunNext
<1> QED  BY <1>1, <1>2, RoundInvariant, PTL DEF AgentsSpec, InsideInv

(***************************************************************************)
(* A verified program without PUSH never jumps out of itself, so what      *)
(* escapes the verifier is a RET to data on the stack.                     *)
(***************************************************************************)
THEOREM NoPushNoEscape == ASSUME IsaAssumption PROVE AgentsSpec => []ConfinedWithoutPush
<1>1. InsideInv => ConfinedWithoutPush
  BY DEF InsideInv, StaysInside, PushFree, InsideOf, ConfinedWithoutPush
<1> QED  BY <1>1, InsideInvariant, PTL

-----------------------------------------------------------------------------
(***************************************************************************)
(* The control flow graph.                                                 *)
(***************************************************************************)
Transfers(prog) == {i \in 0..(Size(prog) - 1) : InstrAt(prog, i).op \in Branches \cup Calls}

\* The leaders of a program are places in it, and what follows a transfer is one.
LEMMA LeadersAre ==
    ASSUME IsaAssumption, NEW prog \in Programs, Verifies(prog)
    PROVE  /\ Size(prog) \in Nat \ {0}
           /\ Leaders(prog) \subseteq 0..Size(prog) /\ 0 \in Leaders(prog)
           /\ \A i \in Transfers(prog) : i + 1 \in Leaders(prog) \cup {Size(prog)}
           /\ \A i \in 0..(Size(prog) - 1) : /\ InstrAt(prog, i) = prog.instructions[i + 1]
                                             /\ i + 1 \in 1..Size(prog)
<1> DEFINE n == Size(prog)
           falls == {i + 1 : i \in Transfers(prog) \ {n - 1}}
           jumps == UNION {{prog.labels[l] : l \in Targets(InstrAt(prog, i))} : i \in Transfers(prog)}
           labels == {prog.labels[l] : l \in {k \in DOMAIN prog.labels : prog.labels[k] < n}}
<1>1. n \in Nat /\ n # 0
  <2>1. n \in Nat  BY ProgramIs
  <2>2. n > 0  BY DEF Verifies
  <2> HIDE DEF n
  <2> QED  BY <2>1, <2>2
<1>2. \A l \in DOMAIN prog.labels : prog.labels[l] \in 0..n  BY ProgramIs
<1>3. \A i \in 0..(n - 1) : InstrAt(prog, i) = prog.instructions[i + 1] /\ i + 1 \in 1..n
  BY <1>1 DEF InstrAt
<1>4. Leaders(prog) = {0} \cup falls \cup jumps \cup labels  BY Zenon DEF Leaders, Transfers
<1>5. falls \subseteq 0..n /\ \A i \in Transfers(prog) : i # n - 1 => i + 1 \in falls
  BY <1>1 DEF Transfers
<1>6. labels \subseteq 0..n  BY <1>2
<1>7. \A i \in Transfers(prog) : \A l \in Targets(InstrAt(prog, i)) : prog.labels[l] \in 0..n
  <2> SUFFICES ASSUME NEW i \in Transfers(prog), NEW l \in Targets(InstrAt(prog, i))
               PROVE  prog.labels[l] \in 0..n
    OBVIOUS
  <2>1. i \in 0..(n - 1)  BY DEF Transfers
  <2>2. Sound(prog, InstrAt(prog, i))  BY <2>1, <1>3, ProgramIs
  <2>3. l \in DOMAIN prog.labels  BY <2>2 DEF Sound, Targets
  <2> QED  BY <2>3, <1>2
<1>8. jumps \subseteq 0..n  BY <1>7
<1> HIDE DEF falls, jumps, labels
<1>9. Leaders(prog) \subseteq 0..n /\ 0 \in Leaders(prog)
  <2>1. 0 \in 0..n  BY <1>1
  <2> DEFINE places == 0..n
  <2>2. {0} \subseteq places /\ falls \subseteq places /\ jumps \subseteq places /\ labels \subseteq places
    BY <2>1, <1>5, <1>6, <1>8
  <2> HIDE DEF places
  <2>3. Leaders(prog) \subseteq places /\ 0 \in Leaders(prog)  BY <2>2, <1>4
  <2> QED  BY <2>3 DEF places
<1>10. \A i \in Transfers(prog) : i + 1 \in Leaders(prog) \cup {n}
  <2> TAKE i \in Transfers(prog)
  <2>1. i \in 0..(n - 1)  BY DEF Transfers
  <2> QED  BY <2>1, <1>1, <1>4, <1>5
<1> QED  BY <1>1, <1>3, <1>9, <1>10

\* An instruction before a leader, or before the end, is the last of its block.
LEMMA LastOfBlock ==
    ASSUME IsaAssumption, NEW prog \in Programs, Verifies(prog), NEW i \in 0..(Size(prog) - 1),
           i + 1 \in Leaders(prog) \cup {Size(prog)}
    PROVE  BlockEnd(prog, BlockOf(prog, i)) = i + 1
<1> DEFINE n == Size(prog)
           starts == {b \in Leaders(prog) : b <= i}
           b0 == BlockOf(prog, i)
           ends == {e \in Leaders(prog) \cup {n} : e > b0}
<1>1. n \in Nat /\ Leaders(prog) \subseteq 0..n /\ 0 \in Leaders(prog)  BY LeadersAre
<1>2. i \in Int /\ 0 <= i /\ i < n  BY <1>1
<1>3. starts \subseteq Int /\ 0 \in starts /\ \A x \in starts : x <= i  BY <1>1, <1>2
<1>4. b0 \in starts /\ \A y \in starts : b0 >= y
  <2> HIDE DEF starts
  <2>1. Max(starts) \in starts /\ \A y \in starts : Max(starts) >= y  BY <1>2, <1>3, MaxIs
  <2> QED  BY <2>1 DEF BlockOf, starts
<1>5. b0 \in Int /\ 0 <= b0 /\ b0 <= i  BY <1>1, <1>4
<1>6. ends \subseteq Int /\ i + 1 \in ends /\ \A e \in ends : b0 <= e
  <2>1. i + 1 > b0  BY <1>2, <1>5
  <2> HIDE DEF b0
  <2> QED  BY <2>1, <1>1, <1>5
<1>7. \A e \in ends : i + 1 <= e
  <2> SUFFICES ASSUME NEW e \in ends, ~(i + 1 <= e) PROVE FALSE  OBVIOUS
  <2>1. e \in Int /\ e <= i /\ e > b0  BY <1>2, <1>6
  <2>2. e \in starts  BY <2>1, <1>2
  <2> HIDE DEF b0, starts
  <2> QED  BY <2>1, <2>2, <1>4, <1>5
<1>8. Min(ends) \in ends /\ \A y \in ends : Min(ends) <= y
  <2> HIDE DEF ends
  <2> QED  BY <1>5, <1>6, MinIs
<1>9. Min(ends) = i + 1
  <2> HIDE DEF ends
  <2>1. Min(ends) \in Int /\ Min(ends) <= i + 1 /\ i + 1 <= Min(ends)  BY <1>6, <1>7, <1>8
  <2> QED  BY <2>1, <1>2
<1> QED  BY <1>9 DEF BlockEnd

\* What an instruction other than a call or a return goes on with.
LEMMA StepFollowsGraph ==
    ASSUME IsaAssumption, NEW prog \in Programs, Verifies(prog), NEW m \in Machines, NEW regs,
           m.pc \in 0..(Size(prog) - 1), NEW instr, instr = InstrAt(prog, m.pc),
           ~Raises(prog, m, regs), ~NextMachine(prog, m, instr, regs).halted, instr.op \notin {"CALL", "RET"}
    PROVE  FollowsGraph(prog, m.pc, NextMachine(prog, m, instr, regs).pc)
<1> DEFINE n == Size(prog)
           from == m.pc
           to == NextPc(prog, m, instr)
           b0 == BlockOf(prog, from)
           targets == {prog.labels[l] : l \in Targets(instr)}
<1>1. n \in Nat \ {0} /\ Leaders(prog) \subseteq 0..n /\ \A i \in Transfers(prog) : i + 1 \in Leaders(prog) \cup {n}
  BY LeadersAre
<1>2. NextMachine(prog, m, instr, regs).pc = to  BY DEF NextMachine
<1>3. from \in Int /\ 0 <= from /\ from < n /\ -n <= from  BY <1>1
<1>4. instr.op \notin {"HALT", "AGENT_HALT", "AGENT_YIELD"}  BY DEF NextMachine
<1>5. instr.op \in {"JMP", "JE", "JNE", "JL", "JG"} =>
          Arg(instr, 1) \in DOMAIN prog.labels /\ Arg(instr, 1) \in Targets(instr)
  BY <1>3, OperandsOf
<1>6. \A l \in DOMAIN prog.labels : prog.labels[l] \in 0..n  BY ProgramIs
<1> SUFFICES ASSUME ~(to >= n) PROVE FollowsGraph(prog, from, to)  BY <1>2 DEF FollowsGraph
<1>7. CASE instr.op \in {"JMP", "JE", "JNE", "JL", "JG"} /\ to = prog.labels[Arg(instr, 1)]
  <2>1. from \in Transfers(prog)  BY <1>7, <1>3 DEF Transfers, Branches
  <2>2. BlockEnd(prog, b0) = from + 1
    <3>1. from + 1 \in Leaders(prog) \cup {n}  BY <1>1, <2>1
    <3> QED  BY <3>1, LastOfBlock
  <2>3. InstrAt(prog, BlockEnd(prog, b0) - 1) = instr
    <3>1. BlockEnd(prog, b0) - 1 = from  BY <1>3, <2>2
    <3> QED  BY <3>1
  <2>4. instr.op \in Branches  BY <1>7 DEF Branches
  <2>5. to \in targets /\ to < n  BY <1>1, <1>5, <1>6, <1>7
  <2>6. to \in Successors(prog, b0)
    <3>1. to \in {i \in IF instr.op \in Branches THEN targets ELSE {} : i < n}  BY <2>4, <2>5
    <3> HIDE DEF to, targets, b0
    <3> QED  BY <3>1, <2>3 DEF Successors, targets
  <2>7. from = BlockEnd(prog, b0) - 1  BY <1>3, <2>2
  <2> QED  BY <2>6, <2>7 DEF FollowsGraph
<1>8. CASE instr.op # "JMP" /\ to = from + 1
  <2>1. to < n /\ to \in Int  BY <1>1, <1>3, <1>8
  <2>2. CASE from + 1 \notin Leaders(prog)
    <3>1. \A b \in Leaders(prog) : b <= to <=> b <= from
      <4> TAKE b \in Leaders(prog)
      <4>1. b \in Int /\ b # from + 1  BY <1>1, <2>2
      <4> HIDE DEF to, from
      <4> QED  BY <4>1, <1>3, <1>8
    <3>2. {b \in Leaders(prog) : b <= to} = {b \in Leaders(prog) : b <= from}  BY <3>1
    <3>3. BlockOf(prog, to) = BlockOf(prog, from)  BY <3>2 DEF BlockOf
    <3> QED  BY <3>3, <1>8 DEF FollowsGraph
  <2>3. CASE from + 1 \in Leaders(prog)
    <3>1. BlockEnd(prog, b0) = from + 1  BY <2>3, LastOfBlock
    <3>2. BlockEnd(prog, b0) - 1 = from  BY <1>3, <3>1
    <3>3. InstrAt(prog, BlockEnd(prog, b0) - 1) = instr  BY <3>2
    <3>4. instr.op \notin {"JMP", "RET", "HALT"}  BY <1>4, <1>8
    <3>5. to \in {i \in IF instr.op \in {"JMP", "RET", "HALT"} THEN {} ELSE {BlockEnd(prog, b0)} : i < n}
      BY <3>1, <3>4, <1>8, <2>1
    <3>6. to \in Successors(prog, b0)
      <4> HIDE DEF to, b0
      <4> QED  BY <3>3, <3>5 DEF Successors
    <3> QED  BY <3>2, <3>6 DEF FollowsGraph
  <2> QED  BY <2>2, <2>3
<1>9. \/ instr.op \in {"JMP", "JE", "JNE", "JL", "JG"} /\ to = prog.labels[Arg(instr, 1)]
      \/ instr.op # "JMP" /\ to = from + 1
  BY DEF NextPc
<1> QED  BY <1>7, <1>8, <1>9

(***************************************************************************)
(* Every step of a verified program, but for CALL and RET, runs along an   *)
(* edge of the control flow graph that was built for it.                   *)
(***************************************************************************)
THEOREM TheGraphCoversEveryRun == ASSUME IsaAssumption PROVE AgentsSpec => GraphCoversRuns
<1> DEFINE Covered(a) ==
          LET prog == agents[a].program
              from == agents[a].machine.pc
          IN  (/\ turns'[a] > turns[a] /\ from \in 0..(Size(prog) - 1)
               /\ ~agents'[a].machine.halted
               /\ InstrAt(prog, from).op \notin {"CALL", "RET"})
              => FollowsGraph(prog, from, agents'[a].machine.pc)
<1>1. RoundInv /\ [AgentsNext]_agentVars => [\A a \in Ids : Covered(a)]_agentVars
  <2> SUFFICES ASSUME RoundInv, AgentsNext, NEW a \in Ids PROVE Covered(a)
    OBVIOUS
  <2>0. AgentsTypeOK  BY DEF RoundInv
  <2>1. turns \in Seq(Nat) /\ a \in DOMAIN turns /\ turns[a] \in Nat
    BY <2>0 DEF AgentsTypeOK, Ids
  <2>2. ASSUME NEW prog \in Programs, NEW parent \in Ids \cup {0}, Spawn(prog, parent) PROVE Covered(a)
    <3>1. turns' = Append(turns, 0)  BY <2>2 DEF Spawn
    <3>2. turns'[a] = turns[a]  BY <3>1, <2>1
    <3> QED  BY <3>2, <2>1
  <2>3. ASSUME NEW max \in Limits, Call(max) PROVE Covered(a)
    <3>1. turns'[a] = 0  BY <2>3 DEF Call
    <3> QED  BY <3>1, <2>1
  <2>4. CASE turns' = turns  BY <2>4, <2>1
  <2>5. CASE TakeTurn
    <3>1. PICK h \in Ids : h = Head(round)  BY <2>5, FirstWaits DEF TakeTurn
    <3>2. turns' = [turns EXCEPT ![h] = turns[h] + 1]  BY <2>5, <3>1 DEF TakeTurn
    <3>3. CASE a # h
      <4>1. turns'[a] = turns[a]  BY <3>2, <3>3
      <4> QED  BY <4>1, <2>1
    <3>4. CASE a = h
      <4> DEFINE prog == agents[a].program
                 m == agents[a].machine
                 regs == files[agents[a].file]
                 instr == InstrAt(prog, m.pc)
      <4>1. ~Fails(a) /\ Turn(a)  BY <2>5, <3>1, <3>4 DEF TakeTurn
      <4>2. agents'[a].machine = MachineAfter(a)  BY <2>0, <4>1, TurnIs
      <4>3. prog \in Programs /\ Verifies(prog) /\ m \in Machines  BY <2>0, AgentIs
      <4> SUFFICES ASSUME m.pc \in 0..(Size(prog) - 1), ~MachineAfter(a).halted, instr.op \notin {"CALL", "RET"}
                   PROVE  FollowsGraph(prog, m.pc, MachineAfter(a).pc)
        BY <4>2
      <4>4. ~Finished(prog, m)
        <5> SUFFICES ASSUME Finished(prog, m) PROVE FALSE  OBVIOUS
        <5>1. MachineAfter(a) = [m EXCEPT !.halted = TRUE]  BY DEF MachineAfter
        <5>2. MachineAfter(a).halted  BY <5>1, <4>3 DEF Machines
        <5> QED  BY <5>2
      <4>5. MachineAfter(a) = NextMachine(prog, m, instr, regs)  BY <4>4 DEF MachineAfter
      <4>6. ~Raises(prog, m, regs)  BY <4>1, <4>4 DEF Fails
      <4> HIDE DEF prog, m, regs
      <4> QED  BY <4>3, <4>5, <4>6, StepFollowsGraph
    <3> QED  BY <3>3, <3>4
  <2> QED  BY <2>2, <2>3, <2>4, <2>5 DEF AgentsNext, RunNext, NewRound, TurnRaises, Return, Leave
<1> QED  BY <1>1, RoundInvariant, PTL DEF AgentsSpec, GraphCoversRuns
=============================================================================
