---------------------------- MODULE FinanceTwin ----------------------------
(***************************************************************************)
(* FinanceTwinEngine of src/twin.py: commands that several threads of one  *)
(* process, or the processes that share a storage path, execute; the       *)
(* verification that resets the live state and replays the log into it;    *)
(* crashes, and the rebuild a restarted process begins with.               *)
(*                                                                         *)
(* The log is taken at the level WormStorage implements it: an append that *)
(* adds one record or none. What two processes inside append() at once do  *)
(* to the file is the subject of that module.                              *)
(***************************************************************************)
EXTENDS TwinRules, Sequences, SequencesExt

CONSTANTS
    Processes,          \* processes, each with one engine on the log
    Threads,            \* threads that call the engine
    ProcessOf,          \* the process a thread belongs to
    NoThread,           \* nobody holds _command_lock
    Commands,           \* the events callers ask for
    MaxOps,             \* RATE_LIMIT_MAX_OPS
    MaxEvents,          \* bound: records in the log
    VerifyOverlaps,     \* whether a verification may overlap commands
    ProcessesOverlap    \* whether processes may run at the same time

ASSUME TwinAssumption ==
    /\ NoThread \notin Threads
    /\ ProcessOf \in [Threads -> Processes]
    /\ Commands \subseteq Events
    /\ MaxOps \in Nat /\ MaxEvents \in Nat
    /\ VerifyOverlaps \in BOOLEAN /\ ProcessesOverlap \in BOOLEAN

VARIABLES
    log,        \* events of the WORM file, in order
    replays,    \* history: n -> Rebuild of the first n events of the log
    up,         \* process -> whether it has an engine
    mem,        \* process -> live state of its engine
    recent,     \* process -> commands counted in the rate limiter's window
    lock,       \* process -> thread that holds _command_lock
    pc,         \* thread -> place in execute_command() or in verification
    command,    \* thread -> the event it executes, Malformed when idle
    candidate,  \* thread -> the isolated state a command validates on
    pending,    \* thread -> records a verification has read and not applied
    before,     \* thread -> hash of the live state when verification began
    verdicts    \* history: what the verifications so far answered

locals == <<command, candidate, pending, before>>
history == <<log, replays>>
vars == <<history, up, mem, recent, lock, pc, locals, verdicts>>

-----------------------------------------------------------------------------
\* The live state of an engine: what __init__ and rebuild_state() reset.
Fresh == [books |-> EmptyBooks, event_count |-> 0, seal |-> <<>>]

\* compute_state_hash(): balances, ids of the other records, and the count.
\* SHA-256 of it is taken to be free of collisions.
StateHash(s) ==
    [accounts     |-> s.books.accounts,
     transactions |-> DOMAIN s.books.transactions,
     invoices     |-> DOMAIN s.books.invoices,
     liabilities  |-> s.books.liabilities,
     event_count  |-> s.event_count]

\* _apply_event_to_memory(): the books, and a seal chained to the one before
\* that covers the event and the hash of the resulting state.
Apply(s, e) ==
    LET t == [s EXCEPT !.books = Effect(@, e)]
    IN  [t EXCEPT !.seal = Append(@, [event |-> e, resulting |-> StateHash(t)])]

Counted(s) == [s EXCEPT !.event_count = @ + 1]

\* rebuild_state(): the events applied in order to a reset state. The first
\* one that breaks a rule raises. (opened keeps the opening balances.)
NothingReplayed == [failed |-> FALSE, state |-> Fresh, opened |-> EmptyDict]
ReplayNext(r, e) ==
    IF r.failed \/ ~Accepts(r.state.books, e)
      THEN [r EXCEPT !.failed = TRUE]
      ELSE [failed |-> FALSE,
            state  |-> Counted(Apply(r.state, e)),
            opened |-> IF e.operation = "CREATE_ACCOUNT"
                         THEN Put(r.opened, e.account, Quantize(e.balance))
                         ELSE r.opened]
Rebuild(events) == FoldLeft(ReplayNext, NothingReplayed, events)

\* What the log stands for, and its history with one event more.
replayed == replays[Len(log)]
Replaying(e) == [n \in 0..(Len(log) + 1) |->
                    IF n <= Len(log) THEN replays[n] ELSE ReplayNext(replayed, e)]

-----------------------------------------------------------------------------
CommandStages == {"waiting", "locked", "validated", "appended", "publishing"}
VerifyStages == {"verifying", "hashed", "reset", "replaying"}
Verdicts == {"consistent", "inconsistent", "raised"}

TypeOK ==
    /\ log \in Seq(Commands) /\ Len(log) <= MaxEvents
    /\ BooksOK(replayed.state.books)
    /\ up \in [Processes -> BOOLEAN]
    /\ \A p \in Processes :
        /\ BooksOK(mem[p].books)
        /\ mem[p].event_count \in 0..MaxEvents
        /\ Len(mem[p].seal) <= MaxEvents
    /\ recent \in [Processes -> 0..MaxOps]
    /\ lock \in [Processes -> Threads \cup {NoThread}]
    /\ pc \in [Threads -> {"idle"} \cup CommandStages \cup VerifyStages]
    /\ command \in [Threads -> Commands \cup {Malformed}]
    /\ \A t \in Threads : BooksOK(candidate[t].books) /\ pending[t] \in Seq(Commands)
    /\ verdicts \subseteq Verdicts

Init ==
    /\ log = <<>>
    /\ replays = [n \in {0} |-> NothingReplayed]
    /\ up = [p \in Processes |-> FALSE]
    /\ mem = [p \in Processes |-> Fresh]
    /\ recent = [p \in Processes |-> 0]
    /\ lock = [p \in Processes |-> NoThread]
    /\ pc = [t \in Threads |-> "idle"]
    /\ command = [t \in Threads |-> Malformed]
    /\ candidate = [t \in Threads |-> Fresh]
    /\ pending = [t \in Threads |-> <<>>]
    /\ before = [t \in Threads |-> StateHash(Fresh)]
    /\ verdicts = {}

Live(t) == mem[ProcessOf[t]]
Peers(t) == {u \in Threads : ProcessOf[u] = ProcessOf[t]}
Goto(t, stage) == pc' = [pc EXCEPT ![t] = stage]

\* execute_command() is left, with its lock, by return or by exception.
Leave(t) ==
    /\ lock' = [lock EXCEPT ![ProcessOf[t]] = NoThread]
    /\ Goto(t, "idle")
    /\ command' = [command EXCEPT ![t] = Malformed]
    /\ candidate' = [candidate EXCEPT ![t] = Fresh]

\* A process is started: the constructor rebuilds the state from the log, and
\* a log that cannot be replayed leaves the process without an engine.
Start(p) ==
    /\ ~up[p]
    /\ ProcessesOverlap \/ \A q \in Processes : ~up[q]
    /\ ~replayed.failed
    /\ up' = [up EXCEPT ![p] = TRUE]
    /\ mem' = [mem EXCEPT ![p] = replayed.state]
    /\ recent' = [recent EXCEPT ![p] = 0]
    /\ UNCHANGED <<history, lock, pc, locals, verdicts>>

Call(t, e) ==
    /\ up[ProcessOf[t]]
    /\ pc[t] = "idle"
    /\ VerifyOverlaps \/ \A u \in Peers(t) : pc[u] \notin VerifyStages
    /\ command' = [command EXCEPT ![t] = e]
    /\ Goto(t, "waiting")
    /\ UNCHANGED <<history, up, mem, recent, lock, candidate, pending, before, verdicts>>

\* Variant: commands are not serialized.
AcquireRegardless(t) ==
    /\ pc[t] = "waiting"
    /\ lock' = [lock EXCEPT ![ProcessOf[t]] = t]
    /\ Goto(t, "locked")
    /\ UNCHANGED <<history, up, mem, recent, locals, verdicts>>

Acquire(t) ==
    /\ pc[t] = "waiting"
    /\ lock[ProcessOf[t]] = NoThread
    /\ lock' = [lock EXCEPT ![ProcessOf[t]] = t]
    /\ Goto(t, "locked")
    /\ UNCHANGED <<history, up, mem, recent, locals, verdicts>>

\* Variant: the limiter admits one command too many.
ValidateOneMore(t) ==
    LET p == ProcessOf[t]
        e == command[t]
    IN  /\ pc[t] = "locked"
        /\ \E kept \in 0..recent[p] :
            /\ recent' = [recent EXCEPT ![p] = IF kept <= MaxOps THEN kept + 1 ELSE kept]
            /\ IF kept <= MaxOps /\ Accepts(mem[p].books, e)
                 THEN /\ candidate' = [candidate EXCEPT ![t] = Counted(Apply(mem[p], e))]
                      /\ Goto(t, "validated")
                      /\ UNCHANGED <<lock, command>>
                 ELSE Leave(t)
        /\ UNCHANGED <<history, up, mem, pending, before, verdicts>>

\* The rate limiter drops the timestamps that left its window, then refuses
\* or counts this command; then the rules are tried on a copy of the state.
\* What is refused here has not touched the log or the live state.
Validate(t) ==
    LET p == ProcessOf[t]
        e == command[t]
    IN  /\ pc[t] = "locked"
        /\ \E kept \in 0..recent[p] :
            /\ recent' = [recent EXCEPT ![p] = IF kept < MaxOps THEN kept + 1 ELSE kept]
            /\ IF kept < MaxOps /\ Accepts(mem[p].books, e)
                 THEN /\ candidate' = [candidate EXCEPT ![t] = Counted(Apply(mem[p], e))]
                      /\ Goto(t, "validated")
                      /\ UNCHANGED <<lock, command>>
                 ELSE Leave(t)
        /\ UNCHANGED <<history, up, mem, pending, before, verdicts>>

\* Variant: the command lock is given up before the write, so that slow
\* storage does not hold other commands up.
AppendUnlocked(t) ==
    /\ pc[t] = "validated"
    /\ Len(log) < MaxEvents
    /\ log' = Append(log, command[t])
    /\ replays' = Replaying(command[t])
    /\ lock' = [lock EXCEPT ![ProcessOf[t]] = NoThread]
    /\ Goto(t, "appended")
    /\ UNCHANGED <<up, mem, recent, locals, verdicts>>

\* storage.append(): the record is in the log.
AppendEvent(t) ==
    /\ pc[t] = "validated"
    /\ Len(log) < MaxEvents
    /\ log' = Append(log, command[t])
    /\ replays' = Replaying(command[t])
    /\ Goto(t, "appended")
    /\ UNCHANGED <<up, mem, recent, lock, locals, verdicts>>

\* Variant: the exception leaves the command lock behind.
AppendFailsHolding(t) ==
    /\ pc[t] = "validated"
    /\ Goto(t, "idle")
    /\ command' = [command EXCEPT ![t] = Malformed]
    /\ candidate' = [candidate EXCEPT ![t] = Fresh]
    /\ UNCHANGED <<history, up, mem, recent, lock, pending, before, verdicts>>

\* storage.append() raises WormStorageError, and no record was added.
AppendFails(t) ==
    /\ pc[t] = "validated"
    /\ Leave(t)
    /\ UNCHANGED <<history, up, mem, recent, pending, before, verdicts>>

\* The candidate's fields become the live ones, one setattr() at a time: the
\* books first, the seal and the count last.
PublishBooks(t) ==
    /\ pc[t] = "appended"
    /\ mem' = [mem EXCEPT ![ProcessOf[t]].books = candidate[t].books]
    /\ Goto(t, "publishing")
    /\ UNCHANGED <<history, up, recent, lock, locals, verdicts>>

\* Variant: the count is not among the fields that are published.
PublishSealOnly(t) ==
    /\ pc[t] = "publishing"
    /\ mem' = [mem EXCEPT ![ProcessOf[t]].seal = candidate[t].seal]
    /\ Leave(t)
    /\ UNCHANGED <<history, up, recent, pending, before, verdicts>>

PublishRest(t) ==
    /\ pc[t] = "publishing"
    /\ mem' = [mem EXCEPT ![ProcessOf[t]].seal = candidate[t].seal,
                          ![ProcessOf[t]].event_count = candidate[t].event_count]
    /\ Leave(t)
    /\ UNCHANGED <<history, up, recent, pending, before, verdicts>>

EndVerify(t, verdict) ==
    /\ verdicts' = verdicts \cup {verdict}
    /\ Goto(t, "idle")
    /\ pending' = [pending EXCEPT ![t] = <<>>]
    /\ before' = [before EXCEPT ![t] = StateHash(Fresh)]

\* verify_ledger_consistency() is called. It takes no lock.
StartVerify(t) ==
    /\ up[ProcessOf[t]]
    /\ pc[t] = "idle"
    /\ VerifyOverlaps \/ \A u \in Peers(t) : pc[u] = "idle"
    /\ Goto(t, "verifying")
    /\ UNCHANGED <<history, up, mem, recent, lock, locals, verdicts>>

\* verify_integrity() finds the chain valid (ChainIntact of WormStorage), and
\* the hash of the live state is taken.
HashLive(t) ==
    /\ pc[t] = "verifying"
    /\ before' = [before EXCEPT ![t] = StateHash(Live(t))]
    /\ Goto(t, "hashed")
    /\ UNCHANGED <<history, up, mem, recent, lock, command, candidate, pending, verdicts>>

\* rebuild_state() empties the live state ...
Reset(t) ==
    /\ pc[t] = "hashed"
    /\ mem' = [mem EXCEPT ![ProcessOf[t]] = Fresh]
    /\ Goto(t, "reset")
    /\ UNCHANGED <<history, up, recent, lock, locals, verdicts>>

\* ... reads the log ...
ReadAll(t) ==
    /\ pc[t] = "reset"
    /\ pending' = [pending EXCEPT ![t] = log]
    /\ Goto(t, "replaying")
    /\ UNCHANGED <<history, up, mem, recent, lock, command, candidate, before, verdicts>>

\* Variant: an event that breaks a rule is skipped, not fatal, and the count
\* of the events is left alone.
ReplayUncounted(t) ==
    /\ pc[t] = "replaying"
    /\ pending[t] # <<>>
    /\ LET e == Head(pending[t])
       IN  mem' = [mem EXCEPT ![ProcessOf[t]] =
                     IF Accepts(@.books, e) THEN Apply(@, e) ELSE @]
    /\ pending' = [pending EXCEPT ![t] = Tail(@)]
    /\ UNCHANGED <<history, up, recent, lock, pc, command, candidate, before, verdicts>>

\* ... and applies one record after the other to whatever the live state is
\* by then. An event that breaks a rule raises.
ReplayOne(t) ==
    LET p == ProcessOf[t]
        e == Head(pending[t])
    IN  /\ pc[t] = "replaying"
        /\ pending[t] # <<>>
        /\ IF Accepts(mem[p].books, e)
             THEN /\ mem' = [mem EXCEPT ![p] = Counted(Apply(@, e))]
                  /\ pending' = [pending EXCEPT ![t] = Tail(@)]
                  /\ UNCHANGED <<pc, before, verdicts>>
             ELSE /\ EndVerify(t, "raised")
                  /\ UNCHANGED mem
        /\ UNCHANGED <<history, up, recent, lock, command, candidate>>

\* The hash of the rebuilt state is compared with the one taken before.
Compare(t) ==
    /\ pc[t] = "replaying"
    /\ pending[t] = <<>>
    /\ EndVerify(t, IF StateHash(Live(t)) = before[t]
                       THEN "consistent" ELSE "inconsistent")
    /\ UNCHANGED <<history, up, mem, recent, lock, command, candidate>>

\* The process ends, at any point: the one command of a CLI run is over, or
\* it is killed. Only the log survives.
Stop(p) ==
    LET mine == {t \in Threads : ProcessOf[t] = p}
    IN  /\ up[p]
        /\ up' = [up EXCEPT ![p] = FALSE]
        /\ mem' = [mem EXCEPT ![p] = Fresh]
        /\ recent' = [recent EXCEPT ![p] = 0]
        /\ lock' = [lock EXCEPT ![p] = NoThread]
        /\ pc' = [t \in Threads |-> IF t \in mine THEN "idle" ELSE pc[t]]
        /\ candidate' = [t \in Threads |-> IF t \in mine THEN Fresh ELSE candidate[t]]
        /\ pending' = [t \in Threads |-> IF t \in mine THEN <<>> ELSE pending[t]]
        /\ command' = [t \in Threads |-> IF t \in mine THEN Malformed ELSE command[t]]
        /\ before' = [t \in Threads |-> IF t \in mine THEN StateHash(Fresh) ELSE before[t]]
        /\ UNCHANGED <<history, verdicts>>

\* What a thread does on its own once it has been called.
Step(t) ==
    \/ Acquire(t)
    \/ Validate(t)
    \/ AppendEvent(t)
    \/ AppendFails(t)
    \/ PublishBooks(t)
    \/ PublishRest(t)
    \/ HashLive(t)
    \/ Reset(t)
    \/ ReadAll(t)
    \/ ReplayOne(t)
    \/ Compare(t)

Next ==
    \/ \E p \in Processes : Start(p) \/ Stop(p)
    \/ \E t \in Threads :
        \/ \E e \in Commands : Call(t, e)
        \/ StartVerify(t)
        \/ Step(t)

Spec == Init /\ [][Next]_vars

\* The interpreter lets a runnable thread go on. It promises no turn to a thread
\* that waits for a lock others keep taking, and nothing makes a caller call.
Fairness == \A t \in Threads : WF_vars(Step(t))
FairSpec == Spec /\ Fairness

-----------------------------------------------------------------------------
Quiet(p) ==
    /\ up[p]
    /\ lock[p] = NoThread
    /\ \A t \in Threads : ProcessOf[t] = p => pc[t] \notin VerifyStages

\* "A failed append leaves the live state unchanged", a rejected command too,
\* and an accepted one leaves exactly what a restart would rebuild: between
\* commands the live state is the replay of the log, seals and count included.
LiveStateIsReplay ==
    \A p \in Processes : Quiet(p) => mem[p] = replayed.state

\* "It is always reconstructable from WORM history": whatever is in the log,
\* a new process can replay it.
LogReplayable == ~replayed.failed /\ replayed = Rebuild(log)

\* A verification answers that the ledger is consistent: when it overlaps no
\* command, it raises no alarm that is not one.
NoFalseAlarm == verdicts \subseteq {"consistent"}

\* What a command is about to publish is what the log says, even though other
\* commands and crashes came between: a candidate never goes stale.
CandidateCurrent ==
    \A t \in Threads :
        /\ pc[t] = "validated" =>
              candidate[t] = Counted(Apply(replayed.state, command[t]))
        /\ pc[t] \in {"appended", "publishing"} => candidate[t] = replayed.state

\* Who may be inside an engine when nothing overlaps: one process, one holder
\* of its lock, and a verification with no other thread.
Exclusive ==
    /\ \A p, q \in Processes : up[p] /\ up[q] => p = q
    /\ \A t \in Threads :
        /\ pc[t] # "idle" => up[ProcessOf[t]]
        /\ pc[t] \in CommandStages \ {"waiting"} <=> lock[ProcessOf[t]] = t
        /\ pc[t] \in VerifyStages => \A u \in Peers(t) \ {t} : pc[u] = "idle"

\* The history of the log: every prefix replays, into the next one by one event.
PrefixesReplay ==
    /\ DOMAIN replays = 0..Len(log)
    /\ replays[0] = NothingReplayed
    /\ \A n \in 0..Len(log) : ~replays[n].failed
    /\ \A n \in 1..Len(log) : replays[n] = ReplayNext(replays[n - 1], log[n])

\* What a verification has rebuilt is the replay of the events it has applied.
Rebuilding(t) ==
    LET applied == Len(log) - Len(pending[t])
    IN  /\ applied \in 0..Len(log)
        /\ \A i \in DOMAIN pending[t] : pending[t][i] = log[applied + i]
        /\ Live(t) = replays[applied].state

\* The live state at each stage of the thread that is changing or rebuilding it.
Staged(t) ==
    /\ pc[t] = "validated" => Accepts(replayed.state.books, command[t])
    /\ pc[t] = "publishing" => Live(t).books = candidate[t].books
    /\ pc[t] \in {"hashed", "reset", "replaying"} => before[t] = StateHash(replayed.state)
    /\ pc[t] = "reset" => Live(t) = Fresh
    /\ pc[t] = "replaying" => Rebuilding(t)

Changing == {"appended", "publishing", "reset", "replaying"}

\* The inductive invariant of engines that nothing overlaps: the live state is
\* the replay of the log, unless one thread is about to make it so.
TwinInv ==
    /\ Exclusive /\ PrefixesReplay /\ CandidateCurrent
    /\ \A t \in Threads : Staged(t)
    /\ \A p \in Processes :
          up[p] /\ (\A t \in Threads : ProcessOf[t] = p => pc[t] \notin Changing)
            => mem[p] = replayed.state

\* A command that has the lock and a verification come to their end, and the lock
\* is given back, on every way out: refused, appended, or raised by the append.
CommandsEnd ==
    /\ \A t \in Threads :
          pc[t] \in (CommandStages \ {"waiting"}) \cup VerifyStages ~> pc[t] = "idle"
    /\ \A p \in Processes : lock[p] # NoThread ~> lock[p] = NoThread

\* The books the log stands for follow the rules of TwinLedger: threads,
\* failed appends, crashes and restarts add nothing to them.
Ledger == INSTANCE TwinLedger
            WITH books <- replayed.state.books, opened <- replayed.opened
ImplementsLedger == Ledger!Spec
=============================================================================
