---------------------------- MODULE SprintBoard ----------------------------
(***************************************************************************)
(* The sprints and issues of the Telegram bot, the commands that change    *)
(* them, and their copy in SQLite.  The bot serves the messages of one     *)
(* chat in order and those of several chats side by side.  Each method of  *)
(* AppState holds its RwLock and is atomic; a command that calls two of    *)
(* them is two steps.  The memory is flushed now and then, one statement   *)
(* after the other, and loaded when the bot starts, as the start of        *)
(* examples/full_featured.rs has it: a bot that loads no sprint, and one   *)
(* that reaches no database, makes a demo sprint with issues of its own.   *)
(*                                                                         *)
(* Sprints and issues are numbered in the order they were created, which   *)
(* is the order of every list of them.  Nothing is ever deleted, so a      *)
(* lookup by prefix is part of the step that uses its id, and it may name  *)
(* any sprint, the active one included.  Left out: what else a record      *)
(* holds, the status of an issue and the velocity computed from it among   *)
(* it, which no command goes by.                                           *)
(***************************************************************************)
EXTENDS Integers, Sequences

CONSTANTS
    Chats,
    DemoIssues,             \* issues of the demo sprint
    MaxSprints, MaxIssues,  \* bound: records at a time
    MaxStops                \* bound: stops of the process

ASSUME BoardAssumption ==
    DemoIssues \in Nat /\ MaxSprints \in Nat /\ MaxIssues \in Nat /\ MaxStops \in Nat

VARIABLES
    status,             \* status[s]: Sprint.status
    listed,             \* listed[s]: Sprint.issues
    sprint_id,          \* sprint_id[i]: Issue.sprint_id, or NoSprint
    active_sprint_id,
    serving,            \* serving[c]: the issue the command of chat c has yet to list, or NoIssue
    online,
    connected,          \* whether this run has a database to flush to
    flush,              \* flush_state: its phase, what it listed, how much of that it saved
    table,              \* the tables: status of the sprints, sprint_id of the issues
    stops,
    loaded,             \* history: the issues this start loaded or made, the active sprints it
    saved               \*   loaded; how many records the last finished flush had listed

memoryVars == <<status, listed, sprint_id, active_sprint_id>>
storeVars == <<online, connected, flush, table, stops, loaded, saved>>
boardVars == <<memoryVars, serving, storeVars>>

NoSprint == 0
NoIssue == 0
NoRows == [sprints |-> <<>>, issues |-> <<>>]
NoFlush == [phase |-> "off", records |-> <<>>, done |-> 0, sprints |-> 0]

Forget ==
    /\ status' = <<>> /\ listed' = <<>> /\ sprint_id' = <<>> /\ active_sprint_id' = NoSprint
    /\ serving' = [c \in Chats |-> NoIssue] /\ flush' = NoFlush

BoardInit ==
    /\ status = <<>> /\ listed = <<>> /\ sprint_id = <<>> /\ active_sprint_id = NoSprint
    /\ serving = [c \in Chats |-> NoIssue] /\ flush = NoFlush
    /\ online = FALSE /\ connected = FALSE /\ table = NoRows /\ stops = 0
    /\ loaded = [issues |-> {}, active |-> {}] /\ saved = [sprints |-> 0, issues |-> 0]

-----------------------------------------------------------------------------
Idle(c) == online /\ serving[c] = NoIssue

CreateSprint(c) ==
    /\ Idle(c) /\ Len(status) < MaxSprints
    /\ status' = Append(status, "Planning") /\ listed' = Append(listed, {})
    /\ UNCHANGED <<sprint_id, active_sprint_id, serving, storeVars>>

\* Variant: the sprint that was active stays so.
ActivateOnly(c, s) ==
    /\ Idle(c)
    /\ status' = [status EXCEPT ![s] = "Active"]
    /\ active_sprint_id' = s
    /\ UNCHANGED <<listed, sprint_id, serving, storeVars>>

\* The pinned sprint is planned again, unless it was completed.
Activate(c, s) ==
    /\ Idle(c)
    /\ status' = [t \in DOMAIN status |->
          IF t = s THEN "Active"
          ELSE IF t = active_sprint_id /\ status[t] = "Active" THEN "Planning" ELSE status[t]]
    /\ active_sprint_id' = s
    /\ UNCHANGED <<listed, sprint_id, serving, storeVars>>

\* The velocity it reads first is left out.  The sprint stays pinned.
Complete(c, s) ==
    /\ Idle(c)
    /\ status' = [status EXCEPT ![s] = "Completed"]
    /\ UNCHANGED <<listed, sprint_id, active_sprint_id, serving, storeVars>>

\* /issue create: the issue first, then the list of its sprint, if it has one.
CreateIssue(c, s) ==
    /\ Idle(c) /\ Len(sprint_id) < MaxIssues
    /\ sprint_id' = Append(sprint_id, s)
    /\ serving' = [serving EXCEPT ![c] = IF s = NoSprint THEN NoIssue ELSE Len(sprint_id')]
    /\ UNCHANGED <<status, listed, active_sprint_id, storeVars>>

AddIssue(c) ==
    /\ serving[c] # NoIssue
    /\ listed' = [listed EXCEPT ![sprint_id[serving[c]]] = @ \cup {serving[c]}]
    /\ serving' = [serving EXCEPT ![c] = NoIssue]
    /\ UNCHANGED <<status, sprint_id, active_sprint_id, storeVars>>

-----------------------------------------------------------------------------
(***************************************************************************)
(* flush_state(): the sprints as listed at its start, then the issues as   *)
(* listed after the last sprint was saved, each by an upsert of its own.   *)
(***************************************************************************)
ListSprints ==
    /\ online /\ connected /\ flush.phase = "off"
    /\ flush' = [phase |-> "sprints", records |-> status, done |-> 0, sprints |-> Len(status)]
    /\ UNCHANGED <<memoryVars, serving, online, connected, table, stops, loaded, saved>>

Saving(phase) == flush.phase = phase /\ flush.done < Len(flush.records)

\* The record the flush comes to, and a table with it.
Next1 == flush.done + 1
Record == flush.records[Next1]
Upsert(rows) == IF Next1 \in DOMAIN rows THEN [rows EXCEPT ![Next1] = Record] ELSE Append(rows, Record)

SaveSprint ==
    /\ Saving("sprints")
    /\ table' = [table EXCEPT !.sprints = Upsert(@)]
    /\ flush' = [flush EXCEPT !.done = Next1]
    /\ UNCHANGED <<memoryVars, serving, online, connected, stops, loaded, saved>>

ListIssues ==
    /\ flush.phase = "sprints" /\ ~Saving("sprints")
    /\ flush' = [flush EXCEPT !.phase = "issues", !.records = sprint_id, !.done = 0]
    /\ UNCHANGED <<memoryVars, serving, online, connected, table, stops, loaded, saved>>

\* The foreign key: an issue's sprint is in the table, or it has none.
Referenced == Record \in DOMAIN table.sprints \cup {NoSprint}

SaveIssue ==
    /\ Saving("issues") /\ Referenced
    /\ table' = [table EXCEPT !.issues = Upsert(@)]
    /\ flush' = [flush EXCEPT !.done = Next1]
    /\ UNCHANGED <<memoryVars, serving, online, connected, stops, loaded, saved>>

\* Variant: an issue that is refused ends the loop, not the flush.
RefusalIgnored ==
    /\ Saving("issues") /\ ~Referenced
    /\ flush' = [flush EXCEPT !.done = Len(flush.records)]
    /\ UNCHANGED <<memoryVars, serving, online, connected, table, stops, loaded, saved>>

\* A sprint created, with the issue, after the sprints were listed: the flush is given up.
IssueRefused ==
    /\ Saving("issues") /\ ~Referenced
    /\ flush' = NoFlush
    /\ UNCHANGED <<memoryVars, serving, online, connected, table, stops, loaded, saved>>

FlushDone ==
    /\ flush.phase = "issues" /\ ~Saving("issues")
    /\ saved' = [sprints |-> flush.sprints, issues |-> Len(flush.records)]
    /\ flush' = NoFlush
    /\ UNCHANGED <<memoryVars, serving, online, connected, table, stops, loaded>>

\* Any statement may fail, and the flush is given up.
FlushFails ==
    /\ flush.phase # "off"
    /\ flush' = NoFlush
    /\ UNCHANGED <<memoryVars, serving, online, connected, table, stops, loaded, saved>>

BotStops ==
    /\ online /\ stops < MaxStops
    /\ online' = FALSE /\ connected' = FALSE /\ stops' = stops + 1
    /\ Forget
    /\ UNCHANGED <<table, loaded, saved>>

\* load_sprints() gives every sprint an empty list, and nothing pins the one that was active.
Restored(rows) ==
    /\ status' = rows.sprints /\ sprint_id' = rows.issues
    /\ active_sprint_id' = NoSprint
    /\ loaded' = [issues |-> DOMAIN rows.issues,
                  active |-> {s \in DOMAIN rows.sprints : rows.sprints[s] = "Active"}]

\* seed_demo_data(): an active sprint, and issues that name it, of which it lists none.
Seeded(rows) ==
    /\ status' = <<"Active">> /\ sprint_id' = rows.issues \o [i \in 1..DemoIssues |-> 1]
    /\ active_sprint_id' = 1
    /\ loaded' = [issues |-> DOMAIN sprint_id', active |-> {}]

\* A bot without a database, or that cannot connect to it, starts with nothing.
BotStarts ==
    /\ ~online /\ online' = TRUE /\ connected' \in BOOLEAN
    /\ LET rows == IF connected' THEN table ELSE NoRows
       IN  IF rows.sprints = <<>> THEN Seeded(rows) ELSE Restored(rows)
    /\ listed' = [s \in DOMAIN status' |-> {}]
    /\ UNCHANGED <<serving, flush, table, stops, saved>>

CommandNext(c) ==
    \/ CreateSprint(c)
    \/ \E s \in DOMAIN status : Activate(c, s) \/ Complete(c, s)
    \/ \E s \in DOMAIN status \cup {NoSprint} : CreateIssue(c, s)
    \/ AddIssue(c)

FlushNext ==
    ListSprints \/ SaveSprint \/ ListIssues \/ SaveIssue \/ IssueRefused \/ FlushDone \/ FlushFails

BoardNext == (\E c \in Chats : CommandNext(c)) \/ FlushNext \/ BotStops \/ BotStarts

BoardSpec == BoardInit /\ [][BoardNext]_boardVars

-----------------------------------------------------------------------------
(***************************************************************************)
(* What holds of the two records of which sprint is active, and of which   *)
(* issue belongs to which sprint, whatever commands of other chats come    *)
(* between the steps of one: a sprint that is active is the pinned one or  *)
(* was loaded so (nothing pins it then, and activating another leaves it), *)
(* and a sprint lists exactly the issues that name it, of those that       *)
(* commands of this run created: neither the issues that were loaded nor   *)
(* those of the demo sprint are ever on a list, and an issue whose         *)
(* creation is under way is not yet.                                       *)
(***************************************************************************)
BoardConsistent ==
    \A s \in DOMAIN status :
        /\ status[s] = "Active" => s = active_sprint_id \/ s \in loaded.active
        /\ listed[s] = {i \in DOMAIN sprint_id \ loaded.issues :
                           sprint_id[i] = s /\ \A c \in Chats : serving[c] # i}

(***************************************************************************)
(* What a finished flush had listed is in the tables for good, and in the  *)
(* memory after every start that reaches them; and no issue of either      *)
(* names a sprint that is not there, wherever a flush was given up or cut  *)
(* short.                                                                  *)
(***************************************************************************)
Resolved(ids, rows) == \A i \in DOMAIN ids : ids[i] \in DOMAIN rows \cup {NoSprint}

FlushKeeps ==
    /\ saved.sprints <= Len(table.sprints) /\ saved.issues <= Len(table.issues)
    /\ online /\ connected => saved.sprints <= Len(status) /\ saved.issues <= Len(sprint_id)
    /\ Resolved(table.issues, table.sprints) /\ Resolved(sprint_id, status)
=============================================================================
