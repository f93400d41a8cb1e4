--------------------------- MODULE MCControlPlane ---------------------------
(***************************************************************************)
(* The services around the twin on small instances: the contract executor  *)
(* with its scheduler, the session coordinator, the sovereign ledger with  *)
(* its checkpoints, and the sprint board of the Telegram bot.  They share  *)
(* nothing, so a behaviour runs one of them, chosen at the start.          *)
(***************************************************************************)
EXTENDS Harness, Coordinator, SovereignLedger, SprintBoard

CONSTANTS a, b, c, older, newer

VARIABLE program

vars == <<harnessVars, coordVars, ledgerVars, boardVars, program>>

Limits(max_workers, max_revisions, timeout_seconds, max_tasks) ==
    [max_workers |-> max_workers, max_revisions |-> max_revisions,
     timeout_seconds |-> timeout_seconds, max_tasks |-> max_tasks]

Cmd(id, isolation) == [id |-> id, isolation |-> isolation]

Task(id, deps) ==
    [id |-> id, command |-> "py", depends_on |-> deps, revision_limit |-> "absent"]

Source(axioms, tasks) ==
    [header |-> TRUE, limits |-> Limits(2, 1, 30, 4), axioms |-> axioms,
     commands |-> <<Cmd("py", "process")>>, tasks |-> tasks]

AllAxioms == {"authorization", "schema", "provenance"}

Plain == Source(AllAxioms, <<Task(a, {}), Task(b, {a})>>)

\* Every graph on three tasks; the first may also depend on itself or on no task at all.
Graphs3 ==
    {Source(AllAxioms, <<Task(a, da), Task(b, db), Task(c, dc)>>) :
        da \in SUBSET {a, b, "ghost"}, db \in SUBSET {a, c}, dc \in SUBSET {a, b}}

\* One source for every other way a run can go.
Special ==
    {Plain,
     Source({}, <<Task("*", {})>>),
     Source({"quality"}, <<Task(a, {})>>),
     Source({"authorization", "unheard_of"}, <<Task(a, {})>>),
     [Source({"quality"}, <<Task(a, {})>>) EXCEPT !.limits.max_revisions = 0],
     [Plain EXCEPT !.header = FALSE],
     [Plain EXCEPT !.limits.max_tasks = -1],
     [Plain EXCEPT !.limits.max_tasks = 1],
     [Plain EXCEPT !.limits.max_workers = 0],
     [Plain EXCEPT !.limits.max_workers = 1],
     [Plain EXCEPT !.limits.timeout_seconds = 0],
     [Plain EXCEPT !.commands = <<>>],
     [Plain EXCEPT !.commands = <<Cmd("py", "none"), Cmd("py", "none")>>],
     [Plain EXCEPT !.commands = <<Cmd("py", "container")>>],
     [Plain EXCEPT !.commands = <<Cmd("torch", "none")>>],
     [Plain EXCEPT !.tasks = <<>>],
     [Plain EXCEPT !.tasks = <<Task(a, {}), Task(a, {})>>],
     [Plain EXCEPT !.tasks[2].revision_limit = "integer"],
     [Plain EXCEPT !.tasks[2].revision_limit = "text"]}

MCSources == Graphs3 \cup Special

\* Two checkpoints that overlap, or an archive, while the ledger is appended to and verified.
MCWorkloads == {[checkpoints |-> 2, archives |-> 0], [checkpoints |-> 0, archives |-> 1]}

\* Events from before and from after the mishap differ, and the number of each matters, but no more.
AppendsInOrder ==
    up /\ Len(events') > Len(events) =>
        events'[Len(events')].id = IF mishaps = 0 THEN older ELSE newer

\* Of the two sprints only the first, the demo sprint, is completed, and a bot that
\* has finished a flush begins none after its restart.
BoardBounds ==
    /\ \A s \in DOMAIN status' \ {1} : status'[s] # "Completed"
    /\ stops > 0 /\ saved # [sprints |-> 0, issues |-> 0] => flush'.phase = "off"

Init ==
    /\ program \in {"harness", "coordinator", "ledger", "board"}
    /\ HarnessInit
    /\ CoordInit
    /\ LedgerInit
    /\ BoardInit
    /\ program = "ledger" \/ left.archives = 0

Next ==
    \/ program = "harness" /\ HarnessNext /\ UNCHANGED <<coordVars, ledgerVars, boardVars, program>>
    \/ program = "coordinator" /\ CoordNext
       /\ UNCHANGED <<harnessVars, ledgerVars, boardVars, program>>
    \/ program = "ledger" /\ LedgerNext /\ AppendsInOrder
       /\ UNCHANGED <<harnessVars, coordVars, boardVars, program>>
    \/ program = "board" /\ BoardNext /\ BoardBounds
       /\ UNCHANGED <<harnessVars, coordVars, ledgerVars, program>>

Spec == Init /\ [][Next]_vars /\ HarnessFairness
=============================================================================
