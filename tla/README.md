# DevFlow Finance Twin: verification project

TLA+ models, TLC runs and TLAPS proofs for the stateful programs of this
repository. At the centre is the ledger: the write-once log (`src/worm.py`), the
finance twin that is rebuilt from it (`src/twin.py`), the cold-boot driver that
writes the same file (`src/cold_boot.py`) and the anchors taken of it
(`src/icp_anchor.py`). Around it stand the services that keep state of their own:
the contract executor, the session coordinator, the virtual switchboard, the Go
event ledger, the agent runtime of the hand-rolled ISA and the sprint board of the
Telegram bot.
`PROJECT.json` lists components, runs, mutants, the definition-to-source map,
findings, hazards and theorems. Paths in this file are relative to the
repository root.

## 1. Inventory

The tree holds some forty projects. The one the README, the tests
(`tests/test_bank_commit.py`, `tests/test_cold_boot_icp.py`) and the command
line run is the Python ledger; the services below it in the table are modelled
too; the rest are solvers, compilers, kernels and listings without state that
several actors share.

| component | state | operations | hard behaviour | what makes it correct |
|---|---|---|---|---|
| WORM engine `src/worm.py` | file of JSON lines, `.worm.tmp`, an in-process lock | `append`, `get_last_hash`, `read_all`, `verify_integrity` | threads, several processes, crash or OSError between read, write, fsync and rename, size caps | the file only grows and always verifies; what was returned stays; what failed is not there; the lock comes back |
| twin engine `src/twin.py` | books in memory, event count, seal, rate-limit window, lock | `execute_command` over eight operations, `rebuild_state`, `verify_ledger_consistency` | candidate state published after the append, failure and crash in between, verification that resets live state, stale memory in another process, rounding | live state = replay of the log; the log can always be replayed; money only moves |
| seals `src/audit.py` | none (values in events) | `generate_seal`, `verify_seal`, `chain_verify` | seal rebuilt by replay | the rebuilt seal is the live one |
| command line `src/cli.py` | none | one command per process | every run is a restart; two runs at once | refuses to start on a log that does not replay |
| cold boot `src/cold_boot.py` | cached root, count, tail | boot phases, SVC 254 write, SVC 255 read, `verify_chain` | in-place append, torn lines, cached root with another writer | one chain; metadata = what a boot loads; answers stay |
| ICP anchors `src/icp_anchor.py` | list of anchors in memory | `initialize`, `anchor_state`, `sync_from_worm` | the file grows or tears after it was anchored | an anchor stays true |
| switchboard `src/virtual_switchboard.py` | event chain, policy and their files, pending proposals, three locks | `handle`, `approve` | threads under nested locks, torn lines, a crash between saving a policy and logging it | the chain verifies; nothing untested is in force; every version has its event or a fault behind it |
| coordinator `backend/coordinator.py` | step, `tasks_done`, checkpoint | `advance` | no lock: overlapping, repeated and late requests | a flow is completed by the work that was done |
| constraint harness `constraint-harness/` | state machine, DAG, results, pool | `run`: parse, constitution, DAG, schedule, judge | a thread pool, a deadline, a call on a used object | results rest on results; nothing runs on; every call ends |
| sovereign ledger `sovereign/ledger/` (Go) | events, flags, checkpoint files, RWMutex | append, verify, seal, replay, tamper, checkpoint, archive, recover | calls composed of several locked ones, file names from a clock, crashes | a checkpoint covers what it was asked for; replay and archive agree with the ledger |
| ISA runtime `isa-jvm/` | agents, stacks, register files | parse, build the graph, `step`, `run_round_robin` | agents that end or raise inside a round; one stack for addresses and data | fair turns; the graph covers the runs; the loop ends |
| Telegram bot `telegram-bot-sdk/rust/` | sprints, issues, the pinned sprint, SQLite tables | sprint and issue commands, flush, load | chats side by side, a flush that is not a transaction, restart | which sprint is active and what it lists agree; what a flush saved comes back |
| self-improvement `dream_rsi/` | files of its own | simulate, admit | one batch loop | not modelled (section 7) |

How they interact: the CLI constructs a twin engine, which constructs a WORM
engine on one path and replays the file. Each command is validated on a copy of
the books, appended to the file and then published. The cold-boot driver opens
the same path, appends by itself and answers reads. The anchor bridge reads the
file and keeps (hash, count) pairs. There is no file lock: processes meet only in
the file. Inside the harness the executor asks the constitution, then hands the DAG
to the scheduler, which shares its pool's futures with worker threads; inside the
switchboard a request and an approval meet in the policy and in the chain. The
harness, the coordinator, the switchboard, the Go ledger, the ISA runtime and the bot
share nothing with each other or with the ledger.

## 2. Modules

| module | models | notes |
|---|---|---|
| `HashChain` | record format, `get_last_hash`, `verify_integrity` | pure operators, shared by the file modules |
| `AppendOnlyLog` | what the WORM engine promises | abstract specification |
| `WormStorage` | `WormStorageEngine.append()` call by call | refines `AppendOnlyLog` (`ImplementsLog`) |
| `TwinRules` | the eight business rules, `quantize_money` | pure operators: `Accepts`, `Effect` |
| `TwinLedger` | the books as operations are applied | abstract specification of the engine |
| `FinanceTwin` | `execute_command`, restart, verification | refines `TwinLedger` (`ImplementsLedger`) |
| `ColdBoot` | driver, engine and anchors on one file | an engine append in three steps: link, copy, rename |
| `Contract`, `Constitution` | what the parser, the validator, the DAG builder and the axioms make of a contract | pure operators |
| `Scheduler` | waves of tasks on a thread pool under a deadline | one action per step of the loop and of a pool thread |
| `Harness` | one `Executor` and its `run()` | composes the three above |
| `Coordinator` | one session's `/advance` requests on server threads | assignment by assignment |
| `SwitchboardRules` | routing, evaluation, proposals, their test, the patched policy | pure operators |
| `Switchboard` | `handle()` and `approve()` over chain and policy file | threads, torn lines, crashes |
| `MerkleTree` | the tree over the events, its proofs, their check | pure operators |
| `SovereignLedger` | the Go ledger, its checkpoints, archives and recovery | goroutines, crashes, failed calls |
| `IsaProgram` | parser and control flow graph | pure operators |
| `IsaMachine` | what one instruction does | pure operators |
| `IsaAgents` | the agent scheduler | composes the two above |
| `SprintBoard` | sprints and issues in memory and in SQLite | chats, flush, restart |
| `MC*` | constants for TLC | `MCControlPlane` runs one of four services that share nothing |
| `DataLemmas` | lemmas on numbers, finite sets and chains, least counterexamples | cited by the other proof modules |
| `WormStorageProofs`, `ColdBootProofs`, `TwinLedgerProofs`, `FinanceTwinProofs`, `SwitchboardProofs` | theorems of the module they are named for | |
| `ControlPlaneProofs` | theorems of `Harness`, `MerkleTree` and `SovereignLedger` | |
| `AgentProofs` | theorems of `Coordinator`, `SprintBoard` and `IsaAgents` | |

### State and actions against the code

**WormStorage.** `live`/`tmp` are the two files, `fd` what an open descriptor
refers to (an `os.replace` or an unlink by another process changes it under the
holder), `lock` the `threading.Lock` of each process's engine, `pc` and
`prev`/`existing` the locals of `append()`. One action per file-system call:
`ReadLastHash` (97-143), `CheckSizeLimit` (79-89), `ReadExisting` (147-153), `OpenTmp`,
`WritePart`/`WriteRest` (a partial write can be seen), `Replace`, `Return`.
`FailReading` and `FailWriting` are an OSError at any of them, `CleanUp` the
`except` branch, `Crash` the end of a process at any step.

**TwinRules, TwinLedger.** `books` are the five dictionaries of the engine.
Amounts are counted in half quanta on input, so that ties exist, and in quanta in
the books; `Quantize` rounds half to even as `ROUND_HALF_EVEN` does.
`TwinLedger` adds `opened`, the opening balances, to state what a balance should
be.

**FinanceTwin.** `log` is the WORM file seen as events, `mem` the live state of
each process's engine, `candidate` the isolated copy, `recent` the rate-limit
window, `replayed` (history) the replay of `log` and `replays` (history) that of each of its
prefixes. `Validate` covers
`_execute_command` up to the append, `AppendEvent`/`AppendFails` the append,
`PublishBooks` and `PublishRest` the assignments after it, which a thread without
the lock can see half done. A verification is `StartVerify`, `HashLive`,
`Reset`, `ReadAll`, `ReplayOne`*, `Compare`, none of them under the command lock, as
in `verify_ledger_consistency()`. `Start` is a new process: constructor and
replay, which refuses a log that does not replay. `Stop` ends one at any step. `Step` is what a
thread does on its own once it is called.

**ColdBoot.** `volume` is the file with a flag for a last line without newline;
`meta` the driver's `WORMMetadata`; `pc` the place in `_svc_write_once`. `Boot` is
`cold_boot()`, `BootUnread` the same with an OSError while the file is read, which leaves the genesis
root; `WriteOnce`/`Write`/`Complete` are the space check with the record's
hash, the append, and the metadata; `WriteFails` is the `except OSError`, `CompleteFails` a `stat()`
that raises outside it (cold_boot.py:325), `CrashWriting`
and `Halt` the end of the process. `append` is what an engine has read: `EngineLink` the last hash
(worm.py:123), `EngineCopy` the size check and the bytes (145-153), `EngineReplace` the rename (159),
`EngineGivesUp` every way out before it. A driver's line that comes between is linked past, or gone.
`SyncFromWorm`/`AnchorState`/`InitializeBridge` are the bridge. `ReadMany` is the return
code of SVC 255. SVC 254 measures the payload and 64 bytes but writes a line with two
hashes of 64 characters; `Measured` and `LineSize` keep that difference.

**Harness.** `Contract` says of a source which checks it passes and what graph
`build_dag` makes of it; `Framed(LoopNext)` is the caller's thread in
`Scheduler.run` (submit the ready tasks, collect, look at the deadline), `PoolNext` the
pool's threads, which take and finish tasks on their own. `as_completed` may give up while a
future is not collected; leaving the `with` block then waits for all. `ExecNext` is `run()`:
one action per transition of the state machine, `report` the status or the exception the
caller sees. A second call finds the machine where the first left it.

**Coordinator.** A request checks `step`, then assigns the attributes one by one; `+= 1` is a
read and a write. `accepted` (history) counts the requests that passed the check, by event.

**Switchboard.** `chain` and `tail` are the event file (`tail` says how its last line ends),
`file` and `policy` the saved and the live policy, `locks` the three locks, `pc`, `prev`, `work` a
thread's place and locals. An append is two steps, read the last hash and write the line; a
failed one leaves nothing, part of the line, the line without newline, or all of it. A restart
reads both files again and loses the pending proposals.

**SovereignLedger.** Every method of `Ledger` holds its RWMutex and is one action.
`CreateCheckpoint` is four (name the file, export, create it, write it) and `Archive` five,
with nothing held in between. `dir` is the directory by millisecond, which is what names a
file: two checkpoints of one millisecond share it, and a file two goroutines write is broken.
`begun`, `known`, `returned` (history) say how many goroutines a millisecond has had, what the ledger held when the
call began, and which calls have returned.

**IsaAgents.** `agents` are the scheduler's, each with its program, machine and index of a
register file; `round` holds the agents whose turn is still to come. One action is one turn: an
instruction, an error that leaves `run_round_robin`, or the end of a round.

**SprintBoard.** `status`, `listed`, `sprint_id` and `active_sprint_id` are the memory, each
locked call one action, so `/issue create` is two. `flush_state` lists the sprints, saves
them one by one, then lists and saves the issues; a failed statement or a broken foreign
key ends it. `BotStarts` is the start of `examples/full_featured.rs`: `Restored` its loading loop, when
there is a database it can connect to (`connected`), and `Seeded` its `seed_demo_data()` when no sprint was
loaded: an active sprint, and issues that name it through `create_issue` alone, which its list never gets.

## 3. Runs

The first four passing runs check deadlock. `control_plane`, `switchboard` and
`isa_agents` do not: there the system stops once the calls the bounds allow are served (and an
executor whose machine has ended refuses every further call); that no call waits in vain is
`EveryRunEnds` and the two `EveryCallEnds`. `expect: violation` runs show a disagreement between code and
documents; each has an entry under `findings`.

| run | instance | shows |
|---|---|---|
| `worm_threads` | 1 process, 2 threads, 3 records, 1 crash, 1 OSError, a payload over the record limit | the inductive invariant (cap, durability and what the lock holder knows), the chain, clean failure, the refinement, and that the lock is always given back |
| `worm_processes` (violation) | 2 processes, no faults | the second rename removes an acknowledged record |
| `twin_rules` | 2 accounts, 2 transactions, 7 amounts | balances are explained by the transactions in force; a transaction is reversed once; double entry |
| `twin_cap` (violation) | the same | a reversal takes a balance over `MAX_BALANCE` |
| `finance_twin` | 1 process, 2 threads, 6 commands, 4 events (63,392 states) | live state is the replay; the log replays; no false alarm; `TwinInv`: a candidate is never stale and a verification has rebuilt the replay of what it has read; every command and verification ends and gives the lock back; refinement of `TwinLedger` |
| `finance_twin_verify` (violation) | verification may overlap commands | a second opening of an account reaches the log, which no process can then replay |
| `finance_twin_processes` (violation) | 2 processes at once | the same, by validation on stale memory |
| `cold_boot` | 1 driver rebooted at will, 1 engine, 4 writes, 1 fault, 3 anchors (129,190 states) | one chain, readable records, stable answers, true anchors, bounded overshoot |
| `cold_boot_writers` (violation) | 1 driver and 1 engine at once, no fault | a record that was reported links past the line before it and cannot be read |
| `control_plane` | executor: every dependency graph of three tasks and 19 other contracts, 2 calls; coordinator: 2 threads, 7 requests; Go ledger: 2 goroutines, capacity 3 (2 by default), 2 milliseconds, 1 mishap, two checkpoints or one archive; board: 2 chats, the demo sprint and another, 1 demo issue and another, 1 restart (789,426 states, over 2 minutes) | results rest on results, no work is left behind, every call ends; no step is skipped; a checkpoint covers its ledger, replay and archive agree, Merkle proofs verify; the board is consistent and a flush keeps what it saved |
| `switchboard` | 2 threads, 2 requests, 4 calls, 2 faults (278,053 states) | the chain verifies; nothing untested is in force; activations are accounted for; every call ends |
| `isa_agents` | 2 agents, every 3-line program of CALL, RET, JNE, PUSH and 17 longer ones, limits 3 and 9, 2 calls (240,693 states) | turns differ by at most one; a program without PUSH stays in its code; every run follows the graph; every call ends |

**Bounds and why they are enough.** Every interaction in `append()` is between the
holder of the lock and one other actor (a thread that waits, a process, a crash),
so two threads and one crash reach each; three records give a first, a middle and a
last one. The rules look at two accounts and one transaction at a time; a second
transaction allows a transfer between posting and reversing. Amounts lie on both
sides of every limit, with ties in both directions. Four events allow opening two
accounts, paying and reversing; a rate limit of two is reached and expires. In
`cold_boot` the caps are 8 and 6 with lines of 3 of which 2 are measured, so that the
third record overshoots the driver's cap by the unmeasured part, and the engine's
cap stops it one record earlier; four writes allow one after a full file was refused
for the other writer (an append the engine gives up counts as one). Three tasks are the fewest with a chain, a fork, a join and a cycle
beside a task that is ready. Three `task_done` requests complete a flow, so seven requests leave room for
a duplicate and a late one. In the Go ledger an event from before and one
from after the mishap differ (`AppendsInOrder` gives them in that order; nothing else about an event
matters), capacity 3 over a default of 2 lets a recovery drop one, and two milliseconds
let checkpoints share a name or not (`MCWorkloads` bounds how many calls a run makes). Two faults on
the switchboard reach a torn line behind a line without newline. The board is the demo sprint with one issue, and one of each
from commands, which is enough for a flush to list an issue after the sprints. `BoardBounds` in
`MCControlPlane` keeps its state space small (only the demo sprint is completed, and a bot that has finished a
flush begins none after its restart); the board alone was also run without it (2,917,549 states), with the same result. Bounds appear as guards
(`MaxCrashes`, `MaxFaults`, `MaxEvents`, `MaxWrites`, `MaxAnchors`, `MaxCalls`, `MaxRequests`,
`MaxMishaps`, `LastMilli`, `Workloads`, `MaxAgents`, `MaxSprints`, `MaxIssues`, `MaxStops`; `DemoIssues`, which
is 4 in the code) or are caps of the code
(`MaxRecords`, `MaxBalance`, `MaxTransaction`, `MaxOps`, `Limit`, `EngineLimit`, `Capacities`,
`DefaultCapacity`).

**Symmetry** is used in `twin_rules` only, over accounts and transaction ids, where
no liveness property is checked.

**Fairness.** `WormStorage`: weak fairness of each thread's next step and of taking
a free lock, which the interpreter's scheduler gives a runnable thread; neither
crashes, faults nor calls are fair. `LockReleased` needs it. `FinanceTwin`: weak fairness of
each thread's own next step (`Step`), for `CommandsEnd`: a thread that has the lock or verifies is runnable, and an append
either succeeds or raises. It is not promised that a thread which waits for the lock gets it while others
keep taking it, so the property leaves waiting threads out; nor that anybody calls or starts a process. `Harness`: weak fairness of `run()`, of the scheduler's loop and of the pool, which are
runnable threads whose commands are stubs that return; calls are not fair. `Switchboard`: weak
fairness of each thread's next step, locks included. `IsaAgents`: weak fairness of the loop's
thread. `TwinLedger`, `ColdBoot`, `Coordinator`, `SovereignLedger` and `SprintBoard` state no
liveness and assume no fairness.

## 4. Abstractions

- **Hashes.** A hash is the sequence of payloads it covers, so that two hashes are equal
  exactly when their histories are: SHA-256 without collisions. An anchor's own hash and the
  twin's seals are treated alike.
- **Lines** are of one length. A torn line is one value, `TornLine`, and a line that more
  text runs into is torn. `ColdBoot` counts a torn line as a whole one when it measures the file.
- **Append as one step** in `FinanceTwin` is what `ImplementsLog` shows
  for one process. Two processes inside `append()` at once are `worm_processes`. `ColdBoot` keeps the reads apart
  from the rename; that two engines at once share one temporary file is in `WormStorage` only.
- **A write of the driver** is its `open()` and one `write()` in one step, so that no rename falls between the
  two; when it is cut short it leaves nothing, a part of
  the line, the line without its newline, or all of it (fsync fails).
- **Rate limiter.** The window is a count, from which any number may have expired at each
  command: every sequence of timestamps the clock can give.
- **Copying state** (`deepcopy`) is one step: the lock keeps commands out, and a verification that
  overlaps it is already a violation without tearing the copy.
- **Left out of events:** ids, timestamps, asset codes and descriptions, which no rule
  compares; a command with a malformed one is the value `Malformed`, refused before the log.
- **Go ledger.** A hash is the sequence of identities it covers; a Merkle node's hash is the pair of
  its children's, and a leaf's is a tuple of one, so that no node's hash is an event's. The wall clock does not go back; the directory holds nothing but checkpoints.
- **Switchboard.** A policy file that is there and cannot be read (`Policy.load` then falls back to the defaults,
  virtual_switchboard.py:259-260) is outside the fault model, which has failed and torn writes, and crashes. A record's hash is its position; scores are integers (tenths, hundredths); a policy is the part
  proposals change.
- **Harness.** A contract is what its checks tell apart; a task succeeds or fails; the deadline passes at any moment.
- **ISA.** Registers and memory hold integers without a width, as in Python; a mailbox nobody reads is left out.
  `DIV` is `int(a / b)`, a division of floats; `Quotient` is the exact one, equal up to 2^53.
- **Board.** Records are numbered as created; a lookup by prefix is part of the step that uses its result, since
  nothing is deleted.
- **Power loss.** A crash ends a process; the file system survives. The missing sync of the
  directory after the rename is listed as a hazard without a property.

`ChainSharedByWriters`, `MetadataCurrent`, `WithinLimits` and `AckedReadable` are claims
about files on which nothing failed: after a write cut short or a failed read, the driver boots at the genesis
root (`_load_existing_state` ignores what it cannot parse or read) and reports records that
cannot be read back. `ReadStable` and `AnchorsAttest` hold without that condition, for writers that take
turns, and for any number of drivers at once where no engine runs. An engine next to a driver
breaks them: its rename can put another record in the place of one the driver has written.

**Disagreements noted on the way, without a run of their own.**
- Merkle proofs (`sovereign/ledger/README.md:20` lists Merkle tree support): at the end of a level with an odd
  number of nodes `Proof()` gives fewer elements than `VerifyProof()` consumes, so the proof of such a leaf is refused.
  `ProofsVerify` is stated for the leaves that have a partner on every level.
- Recovery of the Go ledger goes through `AppendEvent` and ignores its errors: it loses the verified and the sealed flag,
  and events beyond the default capacity. `TamperDetection` leaves the ledger verified, so that later appends are
  refused. The newest-named checkpoint may hold fewer events than one named before it. `CheckpointsCover` is about a
  recovery from the checkpoint itself, up to that capacity.
- `set_active_sprint` (`telegram-bot-sdk/rust/src/state.rs:426`, "so only one is Active") plans the pinned sprint
  again; after a restart nothing is pinned, and a sprint loaded as active stays so beside the next one.
  `BoardConsistent` excepts those. A completed sprint stays pinned and is still what `get_active_sprint` returns.
  `load_sprints` says the issues of a sprint are "populated below"; nothing does.
- `Sprint.issues` are "IDs of issues assigned to this sprint" (`telegram-bot-sdk/rust/src/state.rs:104`), yet the issues
  of the demo sprint (`examples/full_featured.rs:220-260`) and those that were loaded are on no list, from the first
  start of the bot. `BoardConsistent` is about the issues that commands of the run create.

## 5. Proofs

Theorems hold for every value of the constants under the named assumptions
(`ThreadsAssumption`, `BoundsAssumption`, `AmountsAssumption`, `VolumeAssumption`,
`SourcesAssumption`, `LedgerAssumption` and the like), which TLC evaluates in the passing runs.

- **DataLemmas**: what appending a linked record and overwriting a file do to a chain, what `Min`, `Max` and
  `Cardinality` return, and two lemmas that stand in for induction: a set of naturals that is not empty has a least
  member (`LeastOf`), and among any subsets of a finite set there is one that contains no other of them
  (`SmallestPart`). A fact about a fold, a tree's levels or a walk is proved by looking at the least place at which it
  fails. Recursion in the modelled operators is written as recursive functions for this reason.
- **WormStorageProofs**: `TypeCorrect` for any deployment. Under `SingleProcess`,
  `InvariantHolds` proves `IInv`: what the lock holder read is still what the file holds, the
  temporary file is exactly what it wrote, and a record's hash is as long as its place in the
  chain, so that a failed record is told from those before it. `ChainIntact` alone is not
  inductive: a rename keeps it only because the temporary file is the live one plus the new
  record. From it follow `ChainAlwaysIntact`, `AcknowledgedIsDurable`, `SizeLimitHolds`,
  `FailureIsClean`, `OnlyAppends` and `Refinement`. `worm_processes` shows why
  `SingleProcess` is needed.
- **TwinLedgerProofs**: `RoundsToNearest` (rounding, half to even), `BooksSound`
  (types, non-negative balances, every transaction's parties exist), `MoneyOnlyMoves`
  (`DoubleEntry`), `ReversedOnce` (`TransactionsFinal`). `ExplainedInvariant` adds that the transactions in force
  are finitely many and that every account has an opening balance; a posting or a reversal then moves one term of
  each party's sum, and `EveryBalanceIsExplained` (`BalancesExplained`) follows for sums of any size.
- **FinanceTwinProofs**: under `OneAtATime`, which is `~VerifyOverlaps /\ ~ProcessesOverlap`, at
  most one thread is past the command lock or inside a verification, so that what it read when it
  began still holds when it acts; the live state is the replay of the log unless that thread is
  between append and publication or resetting; and every prefix of the log replays (the history
  `replays` makes that inductive without an induction over the log). From it `TwinInvariant`,
  `LiveIsReplay`, `NoFalseAlarms`, `LogIsReplayable` (the history `replayed` is `Rebuild(log)`, by the least prefix on
  which the fold and the history differ), the `Refinement` of `TwinLedger`, and
  `ReplayedBooksSound` and `ReplayedBooksExplained`, the ledger's own invariants inherited through it. `TypesHold`
  too is under `OneAtATime`: a verification that overlaps a command may count its event twice, and the count then
  leaves its bound. The two violation runs
  show why each half of `OneAtATime` is needed.
- **ColdBootProofs**: under `OneWriter`, `Invariant` proves `IInv`: at most one writer is at work (`OneAtWork`), what an
  engine has read is what the file holds, through faults too (`CopiesCurrent`), and a record in flight
  still links to the end of the file, fits under the cap and, once written, is the last one.
  From it `SharedChain`, `DriverCurrent`, `ReportedReadable`, `VolumeWithinLimits`. Through faults, and under
  `OneWriter \/ Engines = {}`, `AnswersStable` and `AnchorsTrue`: every step of anyone
  either leaves a file that does not parse or keeps all its lines where they were. With an engine and a driver at once
  a rename does neither, which is why the assumption is there; `VolumeTypeCorrect` needs none.
- **ControlPlaneProofs**, the harness: for every contract, graph, pool size and number of calls, `HarnessInv` (what a wave
  waits for is queued, running or finished; a result's dependencies have results; the trail is
  a path of the transition table). From it `ResultsAreSound`, `QuietAfterRun`, and `NothingBlocks`: the
  scheduler's "blocked" branch is dead code for an acyclic graph without missing dependencies.
- **SwitchboardProofs**: `SwitchInv`: the holder of the improvement manager's lock is alone with the proposal it
  tests and applies; the holder of the chain's lock knows the chain's length; a patch that passed its test is
  within its bounds, so that clamping it changes nothing; and each version without an event is paid for by a
  fault or by the approval under way. From it `ChainAlwaysVerifies`, `NothingUntested`, `ActivationsTraced`.
- **ControlPlaneProofs**, the Go ledger: `LedgerInvariant`: events are linked, a verified ledger does not change, and
  a goroutine that has its millisecond to itself carries at least what was known at its snapshot. An
  export stays linked, so appending it again gives a prefix of it. From it
  `CheckpointsCoverTheirLedger` and `AnswersAlwaysAgree`.
  `ProofsAlwaysVerify` (`ProofsVerify`) is about a tree of any height: level h + 1 is half as long as level h, so the
  levels shrink to a root; when every node on the way up has a partner, element k of a proof is the sibling on level k,
  and folding the first k of them onto the leaf gives the node above it; folding them onto another event's hash
  differs from it on every level, because a node's hash determines its two halves.
- **AgentProofs**, the coordinator: `NoStepSkipped` alone is not inductive, because a thread acts on a step another
  has left. `CoordInv` keeps that each thread inside holds an accepted event whose step was passed, and that the tasks
  counted, read and still to be counted together never exceed those accepted: `StepsAreReached`.
- **AgentProofs**, the board: `BoardInv`: a list per sprint; an issue a chat still adds to its sprint is in the cache
  and served to that chat alone; the cache of a running bot that has a database is never behind the tables; what a flush has listed is
  still a beginning of the cache, and the rows it saved are in the tables. From it `SprintsAndIssuesAgree`
  (`BoardConsistent`) and `FinishedFlushIsKept` (`FlushKeeps`), for any number of demo issues, with failed flushes and
  restarts, with or without the database, included.
- **AgentProofs**, the ISA runtime: `RoundInv`: the agents still waiting in a round come after those that ran and have
  had one turn less, also when agents spawn, end or raise in between: `NoAgentIsPassedOver` (`RoundRobin`).
  `InsideInv`: without PUSH the stack holds return addresses alone, and every jump goes to a label of a verified
  program: `NoPushNoEscape` (`ConfinedWithoutPush`). `TheGraphCoversEveryRun` (`GraphCoversRuns`): an instruction that
  is not the last of its block falls through, since what follows a transfer is a leader; the last one goes where the
  block's edges go. `IsaAssumption` says that sources are sequences of lines whose registers and immediates
  are integers, and that limits are counts.

**Model-checked only.** Liveness (`LockReleased`, `CommandsEnd`, `EveryRunEnds`, both `EveryCallEnds`), which TLAPS does
not reach; every other property of the passing runs is a theorem.
`NeverBlocked`, `MetadataCurrent`, `AppendOnly`, `WithinSizeLimit` and, in one process, `AckedRecordsKept` are theorems
that follow from what the runs check (`HarnessInv`, `IInv`, `ImplementsLog`) and have no run of their own.
`CoordInv`, `BoardInv`, `RoundInv`, `InsideInv` and `ExplainedInv` belong to the proofs and are in no run either.

## 6. Plan

Done: the twelve runs and eight proof modules above. What is left, in this order:

1. The Go ledger's stream, delta, replication and batch writers, and recovery inside a running process; a
   race on its audit log as a choice between the outcomes of two appends.
2. `AppendOnlyLog` as the abstract specification of the Go ledger between recoveries and of the switchboard's chain.
3. A power failure: the page cache and the directory's journal under `WormStorage`.
4. The bot's sessions; the batch loop of `dream_rsi`.

## 7. Not modelled

- **Parts of the modelled components**: see the notes of the components in `PROJECT.json`. `WORMRecord.serialize()` and
  `deserialize()` of `src/cold_boot.py` are not used by the boot path, which writes JSON lines.
  `anchor_state()` called with a root and a count of the caller's own attests what the caller says, so only the
  calls `sync_from_worm()` makes are modelled.
- **Files that do not load**: `src/pcode_vm_full_stack.py` (line 49), `sovereign/glm/gguf_loader.py` (line 94) and
  `constraint-harness/constitution/datalog.py` (line 39) do not parse as Python; the unions of `src/switchboard_ffi.py` name
  `ctypes.Union` (line 538), so that it cannot be imported before Python 3.14. There is no behaviour to model.
- **Numeric code**: the transformer harnesses and models in `src/jax_*.py`, the quantum gate, the classifier and the
  kernels compute with floating point on arrays and share no state.
- **Generators**: `src/souffle_symbolic_agent.py` is mostly text of the Datalog programs it writes, for a solver that is
  not part of the tree.
- **Separate programs**: the answer-set solver, the other compilers and virtual machines, the COBOL report and the
  assembly listings are sequential and are not called by the services; some Go directories do not build together at
  this commit.
- **`dream_rsi/`**: one batch loop over files it writes itself, without a second actor or a restart. The switchboard's
  improvement manager has both and is modelled.
- **Frontend**: stateless helpers of a page.

These make up most of the lines of the tree, which is why the map covers a small share of it.
