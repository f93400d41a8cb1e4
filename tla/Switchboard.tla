---------------------------- MODULE Switchboard ----------------------------
(***************************************************************************)
(* One process of the virtual switchboard and its two files: the chain of  *)
(* events (memory and audit) and the policy.  Threads handle requests      *)
(* under the board's lock and approve proposals under the lock of the      *)
(* improvement manager; both append to the chain under its own lock.       *)
(*                                                                         *)
(* An append reads the last hash, then writes a line.  The line of a       *)
(* record that fails or is cut short may be absent, whole, whole but for   *)
(* its newline, or torn.  A torn line makes the chain unreadable, and so   *)
(* does a record written behind a line without newline.  A record's hash   *)
(* covers its predecessor's, so its position stands for it: `prev` is the  *)
(* position the writer read, and verify() compares it with the real one.   *)
(*                                                                         *)
(* The policy is written to a temporary file that replaces the old one.    *)
(* Policy.lock is only taken inside the improvement manager's.  The live   *)
(* list of experiences feeds a context no default worker reads and is left *)
(* out.  A restart loses the pending proposals.                            *)
(***************************************************************************)
EXTENDS SwitchboardRules, Sequences

CONSTANTS
    Requests,   \* requests callers may make
    Threads,    \* threads of the process
    Nobody,     \* holder of a free lock
    MaxCalls,   \* bound: calls of handle() and approve()
    MaxFaults   \* bound: crashes and failed writes

ASSUME NobodyAssumption == Nobody \notin Threads

VARIABLES
    chain,      \* records in the memory file
    tail,       \* "clean", "unterminated" or "garbage": how the file ends
    file,       \* the policy file
    policy,     \* Policy.data
    pending,    \* ImprovementManager.pending: id -> patch and status
    locks,      \* lock -> holder
    pc,         \* what each thread is doing
    prev,       \* position of the last record as each thread read it, or Unread
    work,       \* the proposal each thread deals with
    calls,      \* calls made
    ids,        \* proposal ids given out
    faults      \* crashes and failed writes so far

disk == <<chain, tail, file>>
memory == <<policy, pending, locks>>
switchVars == <<disk, memory, pc, prev, work, calls, ids, faults>>

Locks == {"board", "improver", "chain"}
Unread == -1
NoWork == [id |-> 0, patch |-> NoPatch]

\* What a thread appends in a phase, and what comes after it.
Kind == [proposing |-> "proposal", testing |-> "proposal_test", activating |-> "proposal_activation",
         remembering |-> "experience", deciding |-> "decision"]
After == [proposing |-> "remembering", testing |-> "applying", activating |-> "idle",
          remembering |-> "deciding", deciding |-> "idle"]

SwitchInit ==
    /\ chain = <<>> /\ tail = "clean" /\ file = DefaultPolicy
    /\ policy = DefaultPolicy /\ pending = [id \in {} |-> NoPatch]
    /\ locks = [l \in Locks |-> Nobody]
    /\ pc = [t \in Threads |-> "idle"] /\ prev = [t \in Threads |-> Unread]
    /\ work = [t \in Threads |-> NoWork]
    /\ calls = 0 /\ ids = 0 /\ faults = 0

Free(t, kept) == [l \in Locks |-> IF locks[l] = t /\ l \notin kept THEN Nobody ELSE locks[l]]

\* Variant: the locks stay taken.
RaisesHolding(t) ==
    /\ pc' = [pc EXCEPT ![t] = "idle"] /\ prev' = [prev EXCEPT ![t] = Unread]
    /\ work' = [work EXCEPT ![t] = NoWork] /\ UNCHANGED locks


\* An exception leaves every `with` block on its way out.
Raises(t) ==
    /\ pc' = [pc EXCEPT ![t] = "idle"] /\ prev' = [prev EXCEPT ![t] = Unread]
    /\ work' = [work EXCEPT ![t] = NoWork] /\ locks' = Free(t, {})

-----------------------------------------------------------------------------
\* Switchboard.handle up to the improvement: route, results, evaluation, patch.
Handle(t, req) ==
    /\ pc[t] = "idle" /\ calls < MaxCalls /\ locks["board"] = Nobody
    /\ calls' = calls + 1
    /\ locks' = [locks EXCEPT !["board"] = t]
    /\ LET patch == ProposedPatch(policy, req)
       IN  IF patch = NoPatch
           THEN pc' = [pc EXCEPT ![t] = "remembering"] /\ UNCHANGED <<work, ids>>
           ELSE /\ pc' = [pc EXCEPT ![t] = "submitting"]
                /\ work' = [work EXCEPT ![t] = [id |-> ids + 1, patch |-> patch]]
                /\ ids' = ids + 1
    /\ UNCHANGED <<disk, policy, pending, prev, faults>>

\* The proposal becomes pending before the chain knows of it.
Submit(t) ==
    /\ pc[t] = "submitting" /\ locks["improver"] = Nobody
    /\ locks' = [locks EXCEPT !["improver"] = t]
    /\ pending' = [id \in DOMAIN pending \cup {work[t].id} |->
                      IF id = work[t].id THEN [patch |-> work[t].patch, status |-> "proposed"]
                      ELSE pending[id]]
    /\ pc' = [pc EXCEPT ![t] = "proposing"]
    /\ UNCHANGED <<disk, policy, prev, work, calls, ids, faults>>

\* Variant: a proposal is activated as it is.
ApproveUntested(t, id) ==
    /\ pc[t] = "idle" /\ calls < MaxCalls /\ locks["improver"] = Nobody
    /\ pending[id].status \in {"tested", "proposed"}
    /\ calls' = calls + 1
    /\ locks' = [locks EXCEPT !["improver"] = t]
    /\ work' = [work EXCEPT ![t] = [id |-> id, patch |-> pending[id].patch]]
    /\ pc' = [pc EXCEPT ![t] = "applying"]
    /\ UNCHANGED <<disk, policy, pending, prev, ids, faults>>

\* Variant: approvals do not take the lock.
ApproveUnlocked(t, id) ==
    /\ pc[t] = "idle" /\ calls < MaxCalls
    /\ pending[id].status \in {"tested", "proposed"}
    /\ calls' = calls + 1
    /\ pending' = [pending EXCEPT ![id].status = "tested"]
    /\ work' = [work EXCEPT ![t] = [id |-> id, patch |-> pending[id].patch]]
    /\ pc' = [pc EXCEPT ![t] = "testing"]
    /\ UNCHANGED <<disk, policy, locks, prev, ids, faults>>


\* ImprovementManager.approve and the run of the proposal's tests; their record comes next.
Approve(t, id) ==
    /\ pc[t] = "idle" /\ calls < MaxCalls /\ locks["improver"] = Nobody
    /\ pending[id].status \in {"tested", "proposed"}
    /\ calls' = calls + 1
    /\ locks' = [locks EXCEPT !["improver"] = t]
    /\ pending' = [pending EXCEPT ![id].status =
                      IF PassesTests(pending[id].patch) THEN "tested" ELSE "rejected"]
    /\ work' = [work EXCEPT ![t] = [id |-> id, patch |-> pending[id].patch]]
    /\ pc' = [pc EXCEPT ![t] = "testing"]
    /\ UNCHANGED <<disk, policy, prev, ids, faults>>

-----------------------------------------------------------------------------
\* EventChain.append: its lock, the last hash, the line.
Appending(t) == pc[t] \in DOMAIN Kind /\ prev[t] = Unread /\ locks["chain"] = Nobody

\* Variant: the last hash is read before the lock is taken.
ReadLastUnlocked(t) ==
    /\ Appending(t) /\ tail # "garbage"
    /\ prev' = [prev EXCEPT ![t] = Len(chain)]
    /\ UNCHANGED <<disk, policy, pending, locks, pc, work, calls, ids, faults>>


ReadLast(t) ==
    /\ Appending(t) /\ tail # "garbage"
    /\ locks' = [locks EXCEPT !["chain"] = t]
    /\ prev' = [prev EXCEPT ![t] = Len(chain)]
    /\ UNCHANGED <<disk, policy, pending, pc, work, calls, ids, faults>>

Unreadable(t) ==
    /\ Appending(t) /\ tail = "garbage"
    /\ Raises(t)
    /\ UNCHANGED <<disk, policy, pending, calls, ids, faults>>

Record(t) == [kind |-> Kind[pc[t]], prev |-> prev[t], patch |-> work[t].patch,
              version |-> IF pc[t] = "activating" THEN policy.version ELSE 0]

\* What a write may leave in the file.
Writes(t, outcome) ==
    /\ chain' = IF outcome \in {"line", "unterminated"} THEN Append(chain, Record(t)) ELSE chain
    /\ tail' = IF outcome = "nothing" THEN tail
               ELSE IF outcome = "garbage" \/ tail = "unterminated" THEN "garbage"
               ELSE IF outcome = "line" THEN "clean" ELSE "unterminated"

Outcomes == {"nothing", "garbage", "unterminated", "line"}

Rejected(t) == pc[t] = "testing" /\ pending[work[t].id].status = "rejected"

WriteRecord(t) ==
    /\ pc[t] \in DOMAIN Kind /\ prev[t] # Unread
    /\ Writes(t, "line")
    /\ IF After[pc[t]] = "idle" \/ Rejected(t)
       THEN Raises(t)
       ELSE /\ pc' = [pc EXCEPT ![t] = After[pc[t]]] /\ prev' = [prev EXCEPT ![t] = Unread]
            /\ locks' = Free(t, IF pc[t] = "testing" THEN {"improver"} ELSE {"board"})
            /\ UNCHANGED work
    /\ UNCHANGED <<file, policy, pending, calls, ids, faults>>

WriteFails(t) ==
    /\ pc[t] \in DOMAIN Kind /\ prev[t] # Unread /\ faults < MaxFaults
    /\ faults' = faults + 1
    /\ \E outcome \in Outcomes : Writes(t, outcome)
    /\ Raises(t)
    /\ UNCHANGED <<file, policy, pending, calls, ids>>

-----------------------------------------------------------------------------
\* Policy.apply_patch: the live policy first, then the file.
AssignPolicy(t) ==
    /\ pc[t] = "applying"
    /\ policy' = Patched(policy, work[t].patch)
    /\ pc' = [pc EXCEPT ![t] = "saving"]
    /\ UNCHANGED <<disk, pending, locks, prev, work, calls, ids, faults>>

SavePolicy(t) ==
    /\ pc[t] = "saving"
    /\ file' = policy
    /\ pending' = [pending EXCEPT ![work[t].id].status = "activated"]
    /\ pc' = [pc EXCEPT ![t] = "activating"]
    /\ UNCHANGED <<chain, tail, policy, locks, prev, work, calls, ids, faults>>

SaveFails(t) ==
    /\ pc[t] = "saving" /\ faults < MaxFaults
    /\ faults' = faults + 1
    /\ Raises(t)
    /\ UNCHANGED <<disk, policy, pending, calls, ids>>

\* The process dies, perhaps in the middle of a line, and starts again from its files.
Crash ==
    /\ faults < MaxFaults
    /\ faults' = faults + 1
    /\ \/ /\ \A t \in Threads : prev[t] = Unread
          /\ UNCHANGED <<chain, tail>>
       \/ \E t \in Threads, outcome \in Outcomes : prev[t] # Unread /\ Writes(t, outcome)
    /\ policy' = file /\ pending' = [id \in {} |-> NoPatch]
    /\ locks' = [l \in Locks |-> Nobody]
    /\ pc' = [t \in Threads |-> "idle"] /\ prev' = [t \in Threads |-> Unread]
    /\ work' = [t \in Threads |-> NoWork]
    /\ UNCHANGED <<file, calls, ids>>

ThreadNext(t) == \/ Submit(t) \/ ReadLast(t) \/ Unreadable(t) \/ WriteRecord(t)
                 \/ AssignPolicy(t) \/ SavePolicy(t)

SwitchNext ==
    \/ \E t \in Threads :
          \/ \E req \in Requests : Handle(t, req)
          \/ \E id \in DOMAIN pending : Approve(t, id)
          \/ ThreadNext(t) \/ WriteFails(t) \/ SaveFails(t)
    \/ Crash

\* A thread inside a call runs on; callers, disks and crashes owe nothing.
SwitchFairness == \A t \in Threads : WF_switchVars(ThreadNext(t))

SwitchSpec == SwitchInit /\ [][SwitchNext]_switchVars /\ SwitchFairness

-----------------------------------------------------------------------------
Of(kind) == {i \in DOMAIN chain : chain[i].kind = kind}

(***************************************************************************)
(* EventChain.verify() never answers False: whatever threads, failed       *)
(* writes and restarts did, each record points at the one before it.       *)
(***************************************************************************)
ChainVerifies == \A i \in DOMAIN chain : chain[i].prev = i - 1

(***************************************************************************)
(* No untested setting gets into force or onto the disk: versions are      *)
(* outnumbered by the test records that were durable before them, and the  *)
(* iterations bound is the default or what such a record names.            *)
(***************************************************************************)
TestedBeforeActive ==
    \A p \in {policy, file} :
        /\ p.version - 1 <= Cardinality(Of("proposal_test"))
        /\ \/ p.max_iterations = DefaultPolicy.max_iterations
           \/ \E i \in Of("proposal_test") : chain[i].patch.max_iterations = p.max_iterations

(***************************************************************************)
(* The activations in the chain name rising versions the policy file has   *)
(* reached, and a version without activation is the trace of a crash, of a *)
(* failed write, or of the approval that is under way.                     *)
(***************************************************************************)
ActivationsAccounted ==
    LET activated == Of("proposal_activation")
        underWay == {t \in Threads : pc[t] = "activating"}
    IN  /\ \A i \in activated : chain[i].version <= file.version
        /\ \A i, j \in activated : i < j => chain[i].version < chain[j].version
        /\ file.version - 1 - Cardinality(activated) <= faults + Cardinality(underWay)

\* Every call of handle() and approve() returns or raises: no lock is waited for in vain.
EveryCallEnds == \A t \in Threads : pc[t] # "idle" ~> pc[t] = "idle"
=============================================================================
