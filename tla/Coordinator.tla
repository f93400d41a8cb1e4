---------------------------- MODULE Coordinator ----------------------------
(***************************************************************************)
(* One session of backend/coordinator.py and the threads of the web server *)
(* that serve its /advance requests.  The handlers are plain functions, so *)
(* the framework runs them on a thread pool: nothing keeps two requests    *)
(* for one session apart, and a client that repeats a request has both     *)
(* served.  A handler checks the step, then assigns the attributes one     *)
(* after the other; `+= 1` is a read and a write.  A request that is       *)
(* refused (404, 400, 409) changes nothing and is not an action.  The      *)
(* payload of a session is only echoed to clients and is left out.         *)
(***************************************************************************)
EXTENDS Integers, FiniteSets

CONSTANTS
    Threads,        \* threads of the server
    MaxRequests     \* bound: requests accepted

VARIABLES
    step, command,          \* Session.step, Session.last_command
    checkpoint, tasks_done, \* Session.checkpoint, Session.tasks_done
    pc,                     \* where each thread is in advance()
    event,                  \* the event of the request a thread serves
    read,                   \* the value a thread read for `+= 1`
    accepted                \* number of requests accepted so far, per event (history)

coordVars == <<step, command, checkpoint, tasks_done, pc, event, read, accepted>>

\* TRANSITIONS: event -> <<from, to, command>>
Transitions ==
    [device_hello   |-> <<"boot", "authenticate", "show_auth">>,
     signed_in      |-> <<"authenticate", "hydrate", "hydrate">>,
     auth_failed    |-> <<"authenticate", "authenticate", "show_auth">>,
     local_ready    |-> <<"hydrate", "work", "show_work">>,
     hydrate_failed |-> <<"hydrate", "hydrate", "retry_hydrate">>,
     task_done      |-> <<"work", "work", "show_work">>,
     task_failed    |-> <<"work", "work", "show_work">>,
     flow_complete  |-> <<"work", "complete", "complete">>,
     ack            |-> <<"complete", "complete", "idle">>]

Events == DOMAIN Transitions

TotalAccepted ==
    accepted["device_hello"] + accepted["signed_in"] + accepted["auth_failed"]
    + accepted["local_ready"] + accepted["hydrate_failed"] + accepted["task_done"]
    + accepted["task_failed"] + accepted["flow_complete"] + accepted["ack"]

\* Session.__init__
CoordInit ==
    /\ step = "boot" /\ command = "show_auth"
    /\ checkpoint = 0 /\ tasks_done = 0
    /\ pc = [t \in Threads |-> "free"]
    /\ event = [t \in Threads |-> "ack"]
    /\ read = [t \in Threads |-> 0]
    /\ accepted = [e \in Events |-> 0]

\* A thread that is free again has dropped its request.
Goes(t, from, to) ==
    /\ pc[t] = from
    /\ pc' = [pc EXCEPT ![t] = to]
    /\ from # "free" => event' = IF to = "free" THEN [event EXCEPT ![t] = "ack"] ELSE event

\* The checks of advance(): the session is in the step the event leaves from.
Accept(t, e) ==
    /\ TotalAccepted < MaxRequests
    /\ step = Transitions[e][1]
    /\ Goes(t, "free", "accepted")
    /\ event' = [event EXCEPT ![t] = e]
    /\ accepted' = [accepted EXCEPT ![e] = @ + 1]
    /\ UNCHANGED <<step, command, checkpoint, tasks_done, read>>

SetStep(t) ==
    /\ Goes(t, "accepted", "moved")
    /\ step' = Transitions[event[t]][2] /\ command' = Transitions[event[t]][3]
    /\ UNCHANGED <<checkpoint, tasks_done, read, accepted>>

ReadCheckpoint(t) ==
    /\ Goes(t, "moved", "counting")
    /\ read' = [read EXCEPT ![t] = checkpoint]
    /\ UNCHANGED <<step, command, checkpoint, tasks_done, accepted>>

\* Only task_done has more to do than to answer.
WriteCheckpoint(t) ==
    /\ Goes(t, "counting", IF event[t] = "task_done" THEN "counted" ELSE "free")
    /\ checkpoint' = read[t] + 1
    /\ read' = [read EXCEPT ![t] = 0]
    /\ UNCHANGED <<step, command, tasks_done, accepted>>

ReadTasks(t) ==
    /\ Goes(t, "counted", "tasks")
    /\ read' = [read EXCEPT ![t] = tasks_done]
    /\ UNCHANGED <<step, command, checkpoint, tasks_done, accepted>>

WriteTasks(t) ==
    /\ Goes(t, "tasks", "judging")
    /\ tasks_done' = read[t] + 1
    /\ read' = [read EXCEPT ![t] = 0]
    /\ UNCHANGED <<step, command, checkpoint, accepted>>

\* Variant: the second finished task completes the flow.
JudgeAfterTwo(t) ==
    /\ Goes(t, "judging", "free")
    /\ step' = IF tasks_done >= 2 THEN "complete" ELSE step
    /\ command' = IF tasks_done >= 2 THEN "complete" ELSE command
    /\ UNCHANGED <<checkpoint, tasks_done, read, accepted>>


\* Three finished tasks complete the flow.
Judge3(t) ==
    /\ Goes(t, "judging", "free")
    /\ step' = IF tasks_done >= 3 THEN "complete" ELSE step
    /\ command' = IF tasks_done >= 3 THEN "complete" ELSE command
    /\ UNCHANGED <<checkpoint, tasks_done, read, accepted>>

CoordNext ==
    \E t \in Threads :
        \/ \E e \in Events : Accept(t, e)
        \/ SetStep(t) \/ ReadCheckpoint(t) \/ WriteCheckpoint(t)
        \/ ReadTasks(t) \/ WriteTasks(t) \/ Judge3(t)

CoordSpec == CoordInit /\ [][CoordNext]_coordVars

-----------------------------------------------------------------------------
Reached == [e \in Events |-> accepted[e] > 0]

(***************************************************************************)
(* However requests of one session overlap, it stands in a step only after *)
(* the events that lead there were accepted, in particular signed_in       *)
(* before hydrate, work or complete, and it completes only after           *)
(* flow_complete or three task_done requests.                              *)
(***************************************************************************)
NoStepSkipped ==
    /\ step # "boot" => Reached["device_hello"]
    /\ step \in {"hydrate", "work", "complete"} => Reached["signed_in"]
    /\ step \in {"work", "complete"} => Reached["local_ready"]
    /\ step = "complete" => Reached["flow_complete"] \/ accepted["task_done"] >= 3
=============================================================================
