------------------------- MODULE SwitchboardProofs -------------------------
(***************************************************************************)
(* Theorems about the switchboard, for every set of threads and requests   *)
(* and any number of calls, crashes and failed writes.                     *)
(***************************************************************************)
EXTENDS Switchboard, FiniteSetTheorems, TLAPS

Phases == {"idle", "submitting"} \cup DOMAIN Kind \cup {"applying", "saving"}
Holding == {"proposing", "testing", "applying", "saving", "activating"}
AfterTest == {"applying", "saving", "activating"}

Patches == [max_iterations : Int, bias : Int]
Policies == [version : Int, max_iterations : Int, bias : Int]
Kinds == {"proposal", "proposal_test", "proposal_activation", "experience", "decision"}
Records == [kind : Kinds, prev : Int, patch : Patches, version : Int]
Statuses == {"proposed", "tested", "rejected", "activated"}
Entries == [patch : Patches, status : Statuses]
Works == [id : Int, patch : Patches]

Types ==
    /\ chain \in Seq(Records) /\ tail \in {"clean", "unterminated", "garbage"}
    /\ file \in Policies /\ policy \in Policies
    /\ pending \in [DOMAIN pending -> Entries]
    /\ locks \in [Locks -> Threads \cup {Nobody}]
    /\ pc \in [Threads -> Phases] /\ prev \in [Threads -> Int] /\ work \in [Threads -> Works]
    /\ ids \in Int /\ faults \in Int /\ \A id \in DOMAIN pending : id \in Int

\* Who holds the lock of the improvement manager, and who is in the middle of an append.
Locked(t) ==
    /\ pc[t] \in Holding => locks["improver"] = t
    /\ prev[t] # Unread => /\ locks["chain"] = t /\ pc[t] \in DOMAIN Kind
                           /\ prev[t] = Len(chain) /\ tail # "garbage"

Locking == \A t \in Threads : Locked(t)

\* What a thread that approves knows of its proposal.
Knows(t) ==
    /\ pc[t] \in Holding => work[t].id \in DOMAIN pending
    /\ pc[t] = "testing" => \/ pending[work[t].id].status = "rejected"
                            \/ PassesTests(work[t].patch)
    /\ pc[t] = "applying" => /\ PassesTests(work[t].patch)
                             /\ \E i \in Of("proposal_test") : chain[i].patch = work[t].patch

Working == \A t \in Threads : Knows(t)

\* The iterations bound of a policy is the default, or a record of a test names it.
Named(p) == \/ p.max_iterations = DefaultPolicy.max_iterations
            \/ \E i \in Of("proposal_test") : chain[i].patch.max_iterations = p.max_iterations

Tests == Cardinality(Of("proposal_test"))

VersionsTested ==
    /\ file.version <= policy.version /\ policy.version - 1 <= Tests
    /\ \A t \in Threads : pc[t] = "applying" => policy.version <= Tests

Tested == Named(policy) /\ Named(file) /\ VersionsTested

\* The versions activations name, and where the files stand while one is under way.
Activated == Of("proposal_activation")

Rises(t) ==
    /\ pc[t] = "saving" => file.version < policy.version
    /\ pc[t] = "activating" => /\ file.version = policy.version
                               /\ \A i \in Activated : chain[i].version < file.version

Rising ==
    /\ \A i \in Activated : chain[i].version <= file.version
    /\ \A i, j \in Activated : i < j => chain[i].version < chain[j].version
    /\ \A t \in Threads : Rises(t)

\* A proposal an approval could begin with, or has begun with.
Exposed == \E id \in DOMAIN pending : \A t \in Threads : ~(pc[t] = "proposing" /\ work[t].id = id)

InFlight == IF \E t \in Threads : pc[t] \in {"saving", "activating"} THEN 1 ELSE 0

\* A fault that has cost no activation yet but will, if the approval under way goes on.
Due == IF \/ tail = "unterminated" /\ Exposed
          \/ tail = "garbage" /\ \E t \in Threads : pc[t] \in AfterTest
       THEN 1 ELSE 0

Accounted == policy.version - 1 - Cardinality(Activated) + Due <= faults + InFlight

SwitchInv == Types /\ Locking /\ Working /\ ChainVerifies /\ Tested /\ Rising /\ Accounted

-----------------------------------------------------------------------------
(* The chain. *)

\* Records of one kind are finitely many.
LEMMA OfFinite ==
    ASSUME chain \in Seq(Records), NEW k
    PROVE  IsFiniteSet(Of(k)) /\ Cardinality(Of(k)) \in Nat
<1>1. IsFiniteSet(1..Len(chain))
  BY FS_Interval
<1>2. Of(k) \subseteq 1..Len(chain)
  BY DEF Of
<1> QED
  BY <1>1, <1>2, FS_Subset, FS_CardinalityType

\* What appending a record does to the records of a kind.
LEMMA OfGrows ==
    ASSUME chain \in Seq(Records), NEW r \in Records, chain' = Append(chain, r), NEW k
    PROVE  /\ chain' \in Seq(Records) /\ Len(chain') = Len(chain) + 1
           /\ chain'[Len(chain) + 1] = r
           /\ \A i \in 1..Len(chain) : chain'[i] = chain[i]
           /\ Of(k)' = IF r.kind = k THEN Of(k) \cup {Len(chain) + 1} ELSE Of(k)
           /\ Cardinality(Of(k))' = Cardinality(Of(k)) + (IF r.kind = k THEN 1 ELSE 0)
<1>1. /\ chain' \in Seq(Records) /\ Len(chain') = Len(chain) + 1
      /\ chain'[Len(chain) + 1] = r
      /\ \A i \in 1..Len(chain) : chain'[i] = chain[i]
  OBVIOUS
<1>2. Of(k)' = {i \in 1..(Len(chain) + 1) : chain'[i].kind = k}
  BY <1>1 DEF Of
<1>3. Of(k) = {i \in 1..Len(chain) : chain[i].kind = k}
  BY DEF Of
<1>4. Of(k)' = IF r.kind = k THEN Of(k) \cup {Len(chain) + 1} ELSE Of(k)
  BY <1>1, <1>2, <1>3
<1>5. Len(chain) + 1 \notin Of(k)
  BY <1>3
<1>6. Cardinality(Of(k) \cup {Len(chain) + 1}) = Cardinality(Of(k)) + 1
  BY <1>5, OfFinite, FS_AddElement
<1> QED
  BY <1>1, <1>4, <1>6, OfFinite

\* What a thread appends is a record.
LEMMA RecordType ==
    ASSUME Types, NEW t \in Threads, pc[t] \in DOMAIN Kind
    PROVE  Record(t) \in Records /\ Record(t).kind = Kind[pc[t]]
<1>1. Kind[pc[t]] \in Kinds
  BY DEF Kind, Kinds
<1>2. policy.version \in Int /\ prev[t] \in Int /\ work[t].patch \in Patches
  BY DEF Types, Policies, Works
<1>3. (IF pc[t] = "activating" THEN policy.version ELSE 0) \in Int
  BY <1>2
<1> QED
  BY <1>1, <1>2, <1>3 DEF Record, Records

\* A write adds the record of its thread, or nothing.
LEMMA WriteAdds ==
    ASSUME NEW t, NEW outcome, Writes(t, outcome)
    PROVE  chain' = chain \/ chain' = Append(chain, Record(t))
BY DEF Writes

\* The file ends in one of three ways.
LEMMA WriteTail ==
    ASSUME NEW t, NEW outcome \in Outcomes, Writes(t, outcome), Types
    PROVE  tail' \in {"clean", "unterminated", "garbage"}
BY DEF Writes, Outcomes, Types

-----------------------------------------------------------------------------
(* Types. *)

LEMMA PatchedType ==
    ASSUME NEW p \in Policies, NEW patch \in Patches
    PROVE  Patched(p, patch) \in Policies /\ Patched(p, patch).version = p.version + 1
BY DEF Patched, Policies, Patches, Clamp

LEMMA ProposedType ==
    ASSUME NEW p \in Policies, NEW req
    PROVE  ProposedPatch(p, req) \in Patches
<1>1. Clamp(p.max_iterations + 1, 0, 8) \in Int
  BY DEF Policies, Clamp
<1> QED
  BY <1>1 DEF ProposedPatch, Patches

LEMMA RaisesTypes ==
    ASSUME Types, NEW t \in Threads, Raises(t)
    PROVE  /\ pc' = [pc EXCEPT ![t] = "idle"] /\ pc' \in [Threads -> Phases]
           /\ prev' \in [Threads -> Int] /\ work' \in [Threads -> Works]
           /\ locks' \in [Locks -> Threads \cup {Nobody}]
<1>1. NoWork \in Works /\ Unread \in Int
  BY DEF NoWork, NoPatch, Works, Patches, Unread
<1> QED
  BY <1>1 DEF Raises, Types, Free, Phases

LEMMA TypesStep ==
    ASSUME Types, Locking, SwitchNext
    PROVE  Types'
<1> USE DEF disk
<1>1. ASSUME NEW t \in Threads, NEW req, Handle(t, req) PROVE Types'
  <2>1. ProposedPatch(policy, req) \in Patches
    BY ProposedType DEF Types
  <2> DEFINE w == [id |-> ids + 1, patch |-> ProposedPatch(policy, req)]
  <2>a. /\ work' = work \/ work' = [work EXCEPT ![t] = w]
        /\ ids' = ids \/ ids' = ids + 1
    BY <1>1 DEF Handle
  <2>2. w \in Works
    BY <2>1 DEF Works, Types
  <2> HIDE DEF w
  <2>3. work' \in [Threads -> Works] /\ ids' \in Int
    BY <2>a, <2>2 DEF Types
  <2>4. locks' \in [Locks -> Threads \cup {Nobody}] /\ pc' \in [Threads -> Phases]
    BY <1>1 DEF Handle, Types, Phases, Kind
  <2>5. UNCHANGED <<disk, policy, pending, prev, faults>>
    BY <1>1 DEF Handle
  <2> QED
    BY <2>3, <2>4, <2>5 DEF Types
<1>2. ASSUME NEW t \in Threads, Submit(t) PROVE Types'
  <2>1. [patch |-> work[t].patch, status |-> "proposed"] \in Entries
    BY DEF Types, Works, Entries, Statuses
  <2>2. pending' \in [DOMAIN pending' -> Entries]
    BY <1>2, <2>1 DEF Submit, Types
  <2>3. locks' \in [Locks -> Threads \cup {Nobody}] /\ pc' \in [Threads -> Phases]
    BY <1>2 DEF Submit, Types, Phases, Kind
  <2>4. \A id \in DOMAIN pending' : id \in Int
    BY <1>2 DEF Submit, Types, Works
  <2> QED
    BY <1>2, <2>2, <2>3, <2>4 DEF Submit, Types
<1>3. ASSUME NEW t \in Threads, NEW id \in DOMAIN pending, Approve(t, id) PROVE Types'
  <2>1. pending[id] \in Entries
    BY DEF Types
  <2>2. pending' \in [DOMAIN pending' -> Entries]
    BY <1>3, <2>1 DEF Approve, Types, Entries, Statuses
  <2>3. [id |-> id, patch |-> pending[id].patch] \in Works
    BY <1>3, <2>1 DEF Entries, Works, Types
  <2>4. locks' \in [Locks -> Threads \cup {Nobody}] /\ pc' \in [Threads -> Phases]
    BY <1>3 DEF Approve, Types, Phases, Kind
  <2>5. DOMAIN pending' = DOMAIN pending
    BY <1>3 DEF Approve
  <2> QED
    BY <1>3, <2>2, <2>3, <2>4, <2>5 DEF Approve, Types
<1>4. ASSUME NEW t \in Threads, ReadLast(t) PROVE Types'
  <2>1. Len(chain) \in Int
    BY DEF Types
  <2> QED
    BY <1>4, <2>1 DEF ReadLast, Types
<1>5. ASSUME NEW t \in Threads, Unreadable(t) PROVE Types'
  BY <1>5, RaisesTypes DEF Unreadable, Types
<1>6. ASSUME NEW t \in Threads, WriteRecord(t) PROVE Types'
  <2>1. chain' \in Seq(Records) /\ tail' \in {"clean", "unterminated", "garbage"}
    BY <1>6, WriteAdds, WriteTail, RecordType, OfGrows DEF WriteRecord, Outcomes, Types
  <2>2. /\ pc' \in [Threads -> Phases] /\ prev' \in [Threads -> Int]
        /\ work' \in [Threads -> Works] /\ locks' \in [Locks -> Threads \cup {Nobody}]
    <3>1. CASE Raises(t)
      BY <3>1, RaisesTypes
    <3>2. CASE ~Raises(t)
      <4>1. After[pc[t]] \in Phases /\ Unread \in Int
        BY <1>6 DEF WriteRecord, After, Kind, Phases, Unread
      <4> QED
        BY <1>6, <3>2, <4>1 DEF WriteRecord, Types, Free
    <3> QED
      BY <3>1, <3>2
  <2> QED
    BY <1>6, <2>1, <2>2 DEF WriteRecord, Types
<1>7. ASSUME NEW t \in Threads, WriteFails(t) PROVE Types'
  <2>1. PICK outcome \in Outcomes : Writes(t, outcome)
    BY <1>7 DEF WriteFails
  <2>2. chain' \in Seq(Records) /\ tail' \in {"clean", "unterminated", "garbage"}
    BY <1>7, <2>1, WriteAdds, WriteTail, RecordType, OfGrows DEF WriteFails, Types
  <2> QED
    BY <1>7, <2>2, RaisesTypes DEF WriteFails, Types
<1>8. ASSUME NEW t \in Threads, AssignPolicy(t) PROVE Types'
  <2>1. policy' \in Policies
    BY <1>8, PatchedType DEF AssignPolicy, Types, Works
  <2> QED
    BY <1>8, <2>1 DEF AssignPolicy, Types, Phases
<1>9. ASSUME NEW t \in Threads, SavePolicy(t) PROVE Types'
  <2>1. pending' \in [DOMAIN pending' -> Entries]
    BY <1>9 DEF SavePolicy, Types, Entries, Statuses
  <2> QED
    BY <1>9, <2>1 DEF SavePolicy, Types, Phases, Kind
<1>10. ASSUME NEW t \in Threads, SaveFails(t) PROVE Types'
  BY <1>10, RaisesTypes DEF SaveFails, Types
<1>11. CASE Crash
  <2>1. chain' \in Seq(Records) /\ tail' \in {"clean", "unterminated", "garbage"}
    <3>1. CASE UNCHANGED <<chain, tail>>
      BY <3>1 DEF Types
    <3>2. CASE \E t \in Threads, outcome \in Outcomes : prev[t] # Unread /\ Writes(t, outcome)
      <4>1. PICK t \in Threads, outcome \in Outcomes : prev[t] # Unread /\ Writes(t, outcome)
        BY <3>2
      <4>2. CASE chain' = chain
        BY <4>1, <4>2, WriteTail DEF Types
      <4>3. CASE chain' = Append(chain, Record(t))
        BY <4>1, <4>3, WriteTail, RecordType, OfGrows DEF Types, Locking, Locked
      <4> QED
        BY <4>1, <4>2, <4>3, WriteAdds
    <3> QED
      BY <1>11, <3>1, <3>2 DEF Crash
  <2>2. NoWork \in Works /\ Unread \in Int /\ "idle" \in Phases
    BY DEF NoWork, NoPatch, Works, Patches, Unread, Phases
  <2> QED
    BY <1>11, <2>1, <2>2 DEF Crash, Types
<1> QED
  BY <1>1, <1>2, <1>3, <1>4, <1>5, <1>6, <1>7, <1>8, <1>9, <1>10, <1>11
     DEF SwitchNext, ThreadNext

-----------------------------------------------------------------------------
(* Locks. *)

\* What an exception in one thread leaves of another.
LEMMA RaisesOthers ==
    ASSUME Types, NEW t \in Threads, Raises(t)
    PROVE  /\ pc'[t] = "idle" /\ prev'[t] = Unread
           /\ \A u \in Threads \ {t} : /\ pc'[u] = pc[u] /\ prev'[u] = prev[u] /\ work'[u] = work[u]
                                       /\ \A l \in Locks : locks[l] = u => locks'[l] = u
BY DEF Raises, Types, Free

LEMMA RaisesLocked ==
    ASSUME Types, NEW t \in Threads, Raises(t), NEW u \in Threads, Locked(u),
           u = t \/ prev[u] = Unread \/ UNCHANGED <<chain, tail>>
    PROVE  Locked(u)'
<1>1. "improver" \in Locks /\ "chain" \in Locks /\ "idle" \notin Holding
  BY DEF Locks, Holding
<1>2. CASE u = t
  BY <1>1, <1>2, RaisesOthers DEF Locked
<1>3. CASE u # t
  BY <1>1, <1>3, RaisesOthers DEF Locked
<1> QED
  BY <1>2, <1>3

LEMMA LockingStep ==
    ASSUME Types, Locking, SwitchNext
    PROVE  Locking'
<1> USE DEF disk
<1> SUFFICES ASSUME NEW u \in Threads PROVE Locked(u)'
  BY DEF Locking
<1>a. Locked(u) /\ \A t \in Threads : Locked(t)
  BY DEF Locking
<1>b. "improver" \in Locks /\ "chain" \in Locks /\ "board" \in Locks /\ Nobody # u
  BY NobodyAssumption DEF Locks
<1>1. ASSUME NEW t \in Threads, NEW req, Handle(t, req) PROVE Locked(u)'
  BY <1>1, <1>a, <1>b DEF Handle, Types, Locked, Holding, Kind
<1>2. ASSUME NEW t \in Threads, Submit(t) PROVE Locked(u)'
  BY <1>2, <1>a, <1>b DEF Submit, Types, Locked, Holding, Kind
<1>3. ASSUME NEW t \in Threads, NEW id \in DOMAIN pending, Approve(t, id) PROVE Locked(u)'
  BY <1>3, <1>a, <1>b DEF Approve, Types, Locked, Holding, Kind
<1>4. ASSUME NEW t \in Threads, ReadLast(t) PROVE Locked(u)'
  BY <1>4, <1>a, <1>b DEF ReadLast, Appending, Types, Locked, Holding
<1>5. ASSUME NEW t \in Threads, Unreadable(t) PROVE Locked(u)'
  BY <1>5, <1>a, RaisesLocked DEF Unreadable
<1>6. ASSUME NEW t \in Threads, WriteRecord(t) PROVE Locked(u)'
  <2>1. u = t \/ prev[u] = Unread
    BY <1>6, <1>a DEF WriteRecord, Locked
  <2>2. CASE Raises(t)
    BY <1>a, <2>1, <2>2, RaisesLocked
  <2>3. CASE ~Raises(t)
    BY <1>6, <1>a, <1>b, <2>1, <2>3 DEF WriteRecord, Types, Free, Locked, Holding, Kind, After
  <2> QED
    BY <2>2, <2>3
<1>7. ASSUME NEW t \in Threads, WriteFails(t) PROVE Locked(u)'
  <2>1. u = t \/ prev[u] = Unread
    BY <1>7, <1>a DEF WriteFails, Locked
  <2> QED
    BY <1>7, <1>a, <2>1, RaisesLocked DEF WriteFails
<1>8. ASSUME NEW t \in Threads, AssignPolicy(t) PROVE Locked(u)'
  BY <1>8, <1>a DEF AssignPolicy, Types, Locked, Holding, Kind
<1>9. ASSUME NEW t \in Threads, SavePolicy(t) PROVE Locked(u)'
  BY <1>9, <1>a DEF SavePolicy, Types, Locked, Holding, Kind
<1>10. ASSUME NEW t \in Threads, SaveFails(t) PROVE Locked(u)'
  BY <1>10, <1>a, RaisesLocked DEF SaveFails
<1>11. CASE Crash
  BY <1>11 DEF Crash, Locked, Holding
<1> QED
  BY <1>1, <1>2, <1>3, <1>4, <1>5, <1>6, <1>7, <1>8, <1>9, <1>10, <1>11
     DEF SwitchNext, ThreadNext

-----------------------------------------------------------------------------
(* The chain. *)

\* Every step leaves the chain alone or appends the record of a thread that holds its lock.
LEMMA ChainGrows ==
    ASSUME Types, Locking, SwitchNext
    PROVE  \/ chain' = chain
           \/ \E t \in Threads : /\ prev[t] # Unread /\ pc[t] \in DOMAIN Kind
                                 /\ prev[t] = Len(chain) /\ chain' = Append(chain, Record(t))
<1> SUFFICES ASSUME NEW t \in Threads, NEW outcome \in Outcomes, Writes(t, outcome), prev[t] # Unread
             PROVE  chain' = chain \/ chain' = Append(chain, Record(t))
  <2>1. ASSUME NEW t \in Threads, prev[t] # Unread
        PROVE  pc[t] \in DOMAIN Kind /\ prev[t] = Len(chain)
    BY <2>1 DEF Locking, Locked
  <2>2. \/ chain' = chain
        \/ \E t \in Threads, outcome \in Outcomes : prev[t] # Unread /\ Writes(t, outcome)
    BY DEF SwitchNext, ThreadNext, Handle, Submit, Approve, ReadLast, Unreadable, WriteRecord,
           WriteFails, AssignPolicy, SavePolicy, SaveFails, Crash, Outcomes, disk
  <2> QED
    BY <2>1, <2>2
<1> QED
  BY WriteAdds

\* Records stay where they are, and of every kind there are as many or one more.
LEMMA OfKept ==
    ASSUME Types, Locking, SwitchNext, NEW k
    PROVE  /\ \A i \in Of(k) : i \in Of(k)' /\ chain'[i] = chain[i]
           /\ Cardinality(Of(k)) \in Nat /\ Cardinality(Of(k))' \in Nat
           /\ Cardinality(Of(k)) <= Cardinality(Of(k))'
<1>1. chain \in Seq(Records) /\ Cardinality(Of(k)) \in Nat
  BY OfFinite DEF Types
<1>2. CASE chain' = chain
  <2>1. Of(k)' = Of(k)
    BY <1>2 DEF Of
  <2> QED
    BY <1>1, <1>2, <2>1
<1>3. ASSUME NEW t \in Threads, pc[t] \in DOMAIN Kind, chain' = Append(chain, Record(t))
      PROVE  /\ \A i \in Of(k) : i \in Of(k)' /\ chain'[i] = chain[i]
             /\ Cardinality(Of(k)) \in Nat /\ Cardinality(Of(k))' \in Nat
             /\ Cardinality(Of(k)) <= Cardinality(Of(k))'
  <2>1. Record(t) \in Records
    BY <1>3, RecordType
  <2>2. /\ \A i \in 1..Len(chain) : chain'[i] = chain[i]
        /\ Of(k) \subseteq Of(k)'
        /\ Cardinality(Of(k))' = Cardinality(Of(k)) + (IF Record(t).kind = k THEN 1 ELSE 0)
    BY <1>1, <1>3, <2>1, OfGrows
  <2>3. Of(k) \subseteq 1..Len(chain)
    BY <1>1 DEF Of
  <2> QED
    BY <1>1, <2>2, <2>3
<1> QED
  BY <1>2, <1>3, ChainGrows

LEMMA ChainStep ==
    ASSUME Types, Locking, SwitchNext, ChainVerifies
    PROVE  ChainVerifies'
<1>1. chain \in Seq(Records)
  BY DEF Types
<1>2. CASE chain' = chain
  BY <1>2 DEF ChainVerifies
<1>3. ASSUME NEW t \in Threads, prev[t] = Len(chain), chain' = Append(chain, Record(t))
      PROVE  ChainVerifies'
  BY <1>1, <1>3 DEF ChainVerifies, Record
<1> QED
  BY <1>2, <1>3, ChainGrows

-----------------------------------------------------------------------------
(* Approvals. *)

\* Only one thread is in the middle of a proposal.
LEMMA OneHolder ==
    ASSUME Locking
    PROVE  /\ \A t, u \in Threads : pc[t] \in Holding /\ pc[u] \in Holding => t = u
           /\ locks["improver"] = Nobody => \A t \in Threads : pc[t] \notin Holding
BY NobodyAssumption DEF Locking, Locked

\* A thread whose step of the proposal stands still knows what it knew.
LEMMA KnowsKept ==
    ASSUME Types, Locking, SwitchNext, NEW u \in Threads, Knows(u),
           pc'[u] = pc[u], work'[u] = work[u],
           pc[u] \in Holding => UNCHANGED pending
    PROVE  Knows(u)'
<1>1. \A i \in Of("proposal_test") : i \in Of("proposal_test")' /\ chain'[i] = chain[i]
  BY OfKept
<1> QED
  BY <1>1 DEF Knows, Holding

LEMMA KnowsIdle ==
    ASSUME NEW u, pc'[u] \notin Holding
    PROVE  Knows(u)'
BY DEF Knows, Holding

LEMMA RaisesKnows ==
    ASSUME Types, Locking, SwitchNext, NEW t \in Threads, Raises(t), UNCHANGED pending,
           NEW u \in Threads, Knows(u)
    PROVE  Knows(u)'
<1>1. CASE u = t
  BY <1>1, RaisesOthers, KnowsIdle DEF Holding
<1>2. CASE u # t
  BY <1>2, RaisesOthers, KnowsKept
<1> QED
  BY <1>1, <1>2

LEMMA WorkingStep ==
    ASSUME Types, Locking, Working, SwitchNext
    PROVE  Working'
<1> USE DEF disk
<1> SUFFICES ASSUME NEW u \in Threads PROVE Knows(u)'
  BY DEF Working
<1>a. Knows(u) /\ \A t \in Threads : Knows(t)
  BY DEF Working
<1>b. pc \in [Threads -> Phases] /\ work \in [Threads -> Works]
  BY DEF Types
<1>1. ASSUME NEW t \in Threads, NEW req, Handle(t, req) PROVE Knows(u)'
  <2>1. CASE u = t
    BY <1>1, <1>b, <2>1, KnowsIdle DEF Handle, Holding
  <2>2. CASE u # t
    BY <1>1, <1>a, <1>b, <2>2, KnowsKept DEF Handle
  <2> QED
    BY <2>1, <2>2
<1>2. ASSUME NEW t \in Threads, Submit(t) PROVE Knows(u)'
  <2>1. CASE u = t
    BY <1>2, <1>b, <2>1 DEF Submit, Knows, Holding
  <2>2. CASE u # t
    BY <1>2, <1>b, <2>2, OneHolder, KnowsIdle DEF Submit
  <2> QED
    BY <2>1, <2>2
<1>3. ASSUME NEW t \in Threads, NEW id \in DOMAIN pending, Approve(t, id) PROVE Knows(u)'
  <2>1. CASE u = t
    <3>1. /\ pc'[u] = "testing" /\ work'[u].id = id /\ work'[u].patch = pending[id].patch
          /\ DOMAIN pending' = DOMAIN pending
      BY <1>3, <1>b, <2>1 DEF Approve
    <3>2. pending'[id].status = IF PassesTests(pending[id].patch) THEN "tested" ELSE "rejected"
      BY <1>3 DEF Approve, Types, Entries
    <3> QED
      BY <3>1, <3>2 DEF Knows
  <2>2. CASE u # t
    BY <1>3, <1>b, <2>2, OneHolder, KnowsIdle DEF Approve
  <2> QED
    BY <2>1, <2>2
<1>4. ASSUME NEW t \in Threads, ReadLast(t) PROVE Knows(u)'
  BY <1>4, <1>a, KnowsKept DEF ReadLast
<1>5. ASSUME NEW t \in Threads, Unreadable(t) PROVE Knows(u)'
  BY <1>5, <1>a, RaisesKnows DEF Unreadable
<1>6. ASSUME NEW t \in Threads, WriteRecord(t) PROVE Knows(u)'
  <2>1. CASE Raises(t)
    BY <1>6, <1>a, <2>1, RaisesKnows DEF WriteRecord
  <2>2. CASE ~Raises(t) /\ u # t
    BY <1>6, <1>a, <1>b, <2>2, KnowsKept DEF WriteRecord
  <2>3. CASE ~Raises(t) /\ u = t /\ pc[t] # "testing"
    <3>1. pc'[u] \notin Holding
      BY <1>6, <1>b, <2>3 DEF WriteRecord, After, Kind, Holding
    <3> QED
      BY <3>1, KnowsIdle
  <2>4. CASE ~Raises(t) /\ u = t /\ pc[t] = "testing"
    <3>1. /\ pc'[u] = "applying" /\ work' = work /\ pending' = pending
          /\ work[u].id \in DOMAIN pending /\ PassesTests(work[u].patch)
      BY <1>6, <1>a, <1>b, <2>4 DEF WriteRecord, After, Rejected, Knows, Holding
    <3>2. pc[t] \in DOMAIN Kind /\ Kind[pc[t]] = "proposal_test" /\ chain' = Append(chain, Record(t))
      BY <1>6, <2>4 DEF WriteRecord, Writes, Kind
    <3>3. /\ Len(chain) + 1 \in Of("proposal_test")' /\ chain'[Len(chain) + 1] = Record(t)
      BY <3>2, RecordType, OfGrows DEF Types
    <3>4. Record(t).patch = work[t].patch
      BY DEF Record
    <3> QED
      BY <2>4, <3>1, <3>3, <3>4 DEF Knows
  <2> QED
    BY <2>1, <2>2, <2>3, <2>4
<1>7. ASSUME NEW t \in Threads, WriteFails(t) PROVE Knows(u)'
  BY <1>7, <1>a, RaisesKnows DEF WriteFails
<1>8. ASSUME NEW t \in Threads, AssignPolicy(t) PROVE Knows(u)'
  <2>1. CASE u = t
    BY <1>8, <1>a, <1>b, <2>1 DEF AssignPolicy, Knows, Holding
  <2>2. CASE u # t
    BY <1>8, <1>a, <1>b, <2>2, KnowsKept DEF AssignPolicy
  <2> QED
    BY <2>1, <2>2
<1>9. ASSUME NEW t \in Threads, SavePolicy(t) PROVE Knows(u)'
  <2>1. CASE u = t
    BY <1>9, <1>a, <1>b, <2>1 DEF SavePolicy, Knows, Holding
  <2>2. CASE u # t
    BY <1>9, <1>b, <2>2, OneHolder, KnowsIdle DEF SavePolicy, Holding
  <2> QED
    BY <2>1, <2>2
<1>10. ASSUME NEW t \in Threads, SaveFails(t) PROVE Knows(u)'
  BY <1>10, <1>a, RaisesKnows DEF SaveFails
<1>11. CASE Crash
  BY <1>11, KnowsIdle DEF Crash, Holding
<1> QED
  BY <1>1, <1>2, <1>3, <1>4, <1>5, <1>6, <1>7, <1>8, <1>9, <1>10, <1>11
     DEF SwitchNext, ThreadNext

-----------------------------------------------------------------------------
(* What is in force was tested. *)

\* A policy stays named, for the records of tests stay where they are.
LEMMA NamedKept ==
    ASSUME Types, Locking, SwitchNext, NEW p \in Policies, Named(p)
    PROVE  \/ p.max_iterations = DefaultPolicy.max_iterations
           \/ \E i \in Of("proposal_test")' : chain'[i].patch.max_iterations = p.max_iterations
BY OfKept DEF Named

\* A proposal that passes its tests sets what its record names, or nothing.
LEMMA PatchNamed ==
    ASSUME NEW p \in Policies, Named(p), NEW patch \in Patches, PassesTests(patch),
           \E i \in Of("proposal_test") : chain[i].patch = patch
    PROVE  Named(Patched(p, patch))
BY DEF Named, Patched, Patches, Policies, PassesTests, Clamp

\* The versions and the tests that are on record.
LEMMA VersionsTestedStep ==
    ASSUME Types, Locking, VersionsTested, SwitchNext
    PROVE  VersionsTested'
<1> USE DEF disk
<1>a. Tests \in Nat /\ Tests' \in Nat /\ Tests <= Tests'
  BY OfKept DEF Tests
<1>b. /\ file.version \in Int /\ policy.version \in Int /\ file.version <= policy.version
      /\ policy.version - 1 <= Tests
      /\ \A u \in Threads : pc[u] = "applying" => policy.version <= Tests
      /\ pc \in [Threads -> Phases]
  BY DEF Types, Policies, VersionsTested
<1>k. \A t \in Threads : pc[t] \in DOMAIN Kind => Record(t) \in Records /\ Record(t).kind = Kind[pc[t]]
  BY RecordType
<1>g. \A t \in Threads : pc[t] = "testing" /\ chain' = Append(chain, Record(t)) => Tests' = Tests + 1
  BY <1>k, OfGrows DEF Types, Kind, Tests
<1>1. ASSUME UNCHANGED <<policy, file>>, \A u \in Threads : pc'[u] = "applying" => pc[u] = "applying"
      PROVE  VersionsTested'
  BY <1>a, <1>b, <1>1 DEF VersionsTested
<1>2. ASSUME NEW t \in Threads, Raises(t), UNCHANGED <<policy, file>> PROVE VersionsTested'
  BY <1>1, <1>2, RaisesOthers
<1>3. ASSUME NEW t \in Threads, WriteRecord(t) PROVE VersionsTested'
  <2>1. CASE Raises(t)
    BY <1>2, <1>3, <2>1 DEF WriteRecord
  <2>2. CASE ~Raises(t) /\ pc[t] # "testing"
    BY <1>1, <1>3, <1>b, <2>2 DEF WriteRecord, After, Kind
  <2>3. CASE ~Raises(t) /\ pc[t] = "testing"
    <3>1. Tests' = Tests + 1
      BY <1>3, <1>g, <2>3 DEF WriteRecord, Writes
    <3> QED
      BY <1>3, <1>a, <1>b, <3>1 DEF WriteRecord, VersionsTested
  <2> QED
    BY <2>1, <2>2, <2>3
<1>4. ASSUME NEW t \in Threads, AssignPolicy(t) PROVE VersionsTested'
  <2>1. policy' = Patched(policy, work[t].patch) /\ policy'.version = policy.version + 1
    BY <1>4, PatchedType DEF AssignPolicy, Types, Works
  <2>2. policy.version <= Tests /\ file' = file
    BY <1>4, <1>b DEF AssignPolicy
  <2>3. \A u \in Threads : pc'[u] # "applying"
    BY <1>4, <1>b, OneHolder DEF AssignPolicy, Holding
  <2> QED
    BY <1>a, <1>b, <2>1, <2>2, <2>3 DEF VersionsTested
<1>5. ASSUME NEW t \in Threads, SavePolicy(t) PROVE VersionsTested'
  BY <1>5, <1>a, <1>b DEF SavePolicy, VersionsTested
<1>6. CASE Crash
  <2>1. policy' = file /\ file' = file /\ \A u \in Threads : pc'[u] = "idle"
    BY <1>6 DEF Crash
  <2> QED
    BY <1>a, <1>b, <2>1 DEF VersionsTested
<1>7. ASSUME NEW t \in Threads, NEW req \in Requests, Handle(t, req) PROVE VersionsTested'
  BY <1>7, <1>1, <1>b DEF Handle
<1>8. ASSUME NEW t \in Threads, Submit(t) PROVE VersionsTested'
  BY <1>8, <1>1, <1>b DEF Submit
<1>9. ASSUME NEW t \in Threads, NEW id \in DOMAIN pending, Approve(t, id) PROVE VersionsTested'
  BY <1>9, <1>1, <1>b DEF Approve
<1>10. ASSUME NEW t \in Threads, ReadLast(t) PROVE VersionsTested'
  BY <1>10, <1>1 DEF ReadLast
<1>11. ASSUME NEW t \in Threads, Unreadable(t) PROVE VersionsTested'
  BY <1>11, <1>2 DEF Unreadable
<1>12. ASSUME NEW t \in Threads, WriteFails(t) PROVE VersionsTested'
  BY <1>12, <1>2 DEF WriteFails
<1>13. ASSUME NEW t \in Threads, SaveFails(t) PROVE VersionsTested'
  BY <1>13, <1>2 DEF SaveFails
<1> QED
  BY <1>3, <1>4, <1>5, <1>6, <1>7, <1>8, <1>9, <1>10, <1>11, <1>12, <1>13
     DEF SwitchNext, ThreadNext

LEMMA TestedStep ==
    ASSUME Types, Locking, Working, Tested, SwitchNext
    PROVE  Tested'
<1> USE DEF disk
<1>1. Named(policy) /\ Named(file) /\ policy \in Policies /\ file \in Policies
  BY DEF Tested, Types
<1>2. ASSUME policy' = policy \/ policy' = file PROVE Named(policy)'
  BY <1>1, <1>2, NamedKept DEF Named
<1>3. ASSUME file' = file \/ file' = policy PROVE Named(file)'
  BY <1>1, <1>3, NamedKept DEF Named
<1>4. ASSUME NEW t \in Threads, AssignPolicy(t) PROVE Named(policy)'
  <2>1. /\ pc[t] = "applying" /\ policy' = Patched(policy, work[t].patch) /\ chain' = chain
        /\ work[t].patch \in Patches
    BY <1>4 DEF AssignPolicy, Types, Works
  <2>2. PassesTests(work[t].patch) /\ \E i \in Of("proposal_test") : chain[i].patch = work[t].patch
    BY <2>1 DEF Working, Knows
  <2>3. Named(Patched(policy, work[t].patch)) /\ Patched(policy, work[t].patch) \in Policies
    BY <1>1, <2>1, <2>2, PatchNamed, PatchedType
  <2> QED
    BY <2>1, <2>3, NamedKept DEF Named
<1>5. /\ policy' = policy \/ policy' = file \/ \E t \in Threads : AssignPolicy(t)
      /\ file' = file \/ file' = policy
  BY DEF SwitchNext, ThreadNext, Handle, Submit, Approve, ReadLast, Unreadable, WriteRecord,
         WriteFails, SavePolicy, SaveFails, Crash, AssignPolicy
<1>6. Named(policy)' /\ Named(file)'
  BY <1>2, <1>3, <1>4, <1>5
<1> QED
  BY <1>6, VersionsTestedStep DEF Tested

-----------------------------------------------------------------------------
(* Activations. *)

LEMMA VersionsInt ==
    ASSUME Types
    PROVE  \A i \in Activated : chain[i].version \in Int
<1> TAKE i \in Activated
<1>1. chain \in Seq(Records) /\ i \in DOMAIN chain
  BY DEF Types, Activated, Of
<1>2. chain[i] \in Records
  BY <1>1
<1> QED
  BY <1>2 DEF Records

\* No activation is added, or the one of a thread that is in the middle of its append.
LEMMA ActivatedGrows ==
    ASSUME Types, Locking, SwitchNext
    PROVE  /\ Cardinality(Activated) \in Nat
           /\ \A i \in Activated : i \in 1..Len(chain) /\ chain'[i] = chain[i]
           /\ \/ /\ Activated' = Activated /\ Cardinality(Activated)' = Cardinality(Activated)
              \/ /\ Activated' = Activated \cup {Len(chain) + 1}
                 /\ Cardinality(Activated)' = Cardinality(Activated) + 1
                 /\ chain'[Len(chain) + 1].version = policy.version
                 /\ \E t \in Threads : pc[t] = "activating" /\ prev[t] # Unread
<1>1. /\ Cardinality(Activated) \in Nat
      /\ \A i \in Activated : chain'[i] = chain[i]
  BY OfKept DEF Activated
<1>2. chain \in Seq(Records) /\ Activated \subseteq 1..Len(chain)
  BY DEF Types, Activated, Of
<1>3. CASE chain' = chain
  BY <1>1, <1>2, <1>3 DEF Activated, Of
<1>4. ASSUME NEW t \in Threads, prev[t] # Unread, pc[t] \in DOMAIN Kind, chain' = Append(chain, Record(t))
      PROVE  \/ /\ Activated' = Activated /\ Cardinality(Activated)' = Cardinality(Activated)
             \/ /\ Activated' = Activated \cup {Len(chain) + 1}
                /\ Cardinality(Activated)' = Cardinality(Activated) + 1
                /\ chain'[Len(chain) + 1].version = policy.version
                /\ pc[t] = "activating"
  <2>1. Record(t) \in Records /\ Record(t).kind = Kind[pc[t]]
    BY <1>4, RecordType
  <2>2. /\ chain'[Len(chain) + 1] = Record(t)
        /\ Activated' = IF Record(t).kind = "proposal_activation"
                        THEN Activated \cup {Len(chain) + 1} ELSE Activated
        /\ Cardinality(Activated)' =
               Cardinality(Activated) + (IF Record(t).kind = "proposal_activation" THEN 1 ELSE 0)
    BY <1>2, <1>4, <2>1, OfGrows DEF Activated
  <2>3. CASE pc[t] = "activating"
    <3>1. Record(t).version = policy.version /\ Record(t).kind = "proposal_activation"
      BY <2>1, <2>3 DEF Record, Kind
    <3> QED
      BY <2>2, <2>3, <3>1
  <2>4. CASE pc[t] # "activating"
    <3>1. Record(t).kind # "proposal_activation"
      BY <1>4, <2>1, <2>4 DEF Kind
    <3> QED
      BY <1>1, <2>2, <3>1
  <2> QED
    BY <2>3, <2>4
<1> QED
  BY <1>1, <1>2, <1>3, <1>4, ChainGrows

\* What a step does to the thread that is saving or activating.
LEMMA RisesKept ==
    ASSUME Types, Locking, SwitchNext, NEW u \in Threads, Rises(u), UNCHANGED <<policy, file>>,
           pc'[u] = pc[u], pc[u] = "activating" => prev[u] = Unread \/ UNCHANGED chain
    PROVE  Rises(u)'
<1>1. CASE pc[u] # "activating"
  BY <1>1 DEF Rises
<1>2. CASE pc[u] = "activating" /\ UNCHANGED chain
  BY <1>2 DEF Rises, Activated, Of
<1>3. CASE pc[u] = "activating" /\ prev[u] = Unread
  <2>1. \A t \in Threads : pc[t] = "activating" => t = u
    BY <1>3, OneHolder DEF Holding
  <2>2. Activated' = Activated /\ \A i \in Activated : chain'[i] = chain[i]
    BY <1>3, <2>1, ActivatedGrows
  <2> QED
    BY <1>3, <2>2 DEF Rises
<1> QED
  BY <1>1, <1>2, <1>3

LEMMA RaisesRises ==
    ASSUME Types, Locking, SwitchNext, NEW t \in Threads, Raises(t), UNCHANGED <<policy, file>>,
           prev[t] # Unread \/ UNCHANGED chain, NEW u \in Threads, Rises(u)
    PROVE  Rises(u)'
<1>1. CASE u = t
  BY <1>1, RaisesOthers DEF Rises
<1>2. CASE u # t
  <2>1. prev[u] = Unread \/ UNCHANGED chain
    BY <1>2 DEF Locking, Locked
  <2> QED
    BY <1>2, <2>1, RaisesOthers, RisesKept
<1> QED
  BY <1>1, <1>2

LEMMA RisesStep ==
    ASSUME Types, Locking, VersionsTested, Rising, SwitchNext, NEW u \in Threads
    PROVE  Rises(u)'
<1> USE DEF disk
<1>a. Rises(u) /\ pc \in [Threads -> Phases]
  BY DEF Rising, Types
<1>b. file.version \in Int /\ policy.version \in Int /\ file.version <= policy.version
  BY DEF Types, Policies, VersionsTested
<1>1. ASSUME NEW t \in Threads, NEW req, Handle(t, req) PROVE Rises(u)'
  BY <1>1, <1>a DEF Handle, Rises, Activated, Of
<1>2. ASSUME NEW t \in Threads, Submit(t) PROVE Rises(u)'
  BY <1>2, <1>a DEF Submit, Rises, Activated, Of
<1>3. ASSUME NEW t \in Threads, NEW id \in DOMAIN pending, Approve(t, id) PROVE Rises(u)'
  BY <1>3, <1>a DEF Approve, Rises, Activated, Of
<1>4. ASSUME NEW t \in Threads, ReadLast(t) PROVE Rises(u)'
  BY <1>4, <1>a, RisesKept DEF ReadLast
<1>5. ASSUME NEW t \in Threads, Unreadable(t) PROVE Rises(u)'
  BY <1>5, <1>a, RaisesRises DEF Unreadable
<1>6. ASSUME NEW t \in Threads, WriteRecord(t) PROVE Rises(u)'
  <2>1. CASE Raises(t)
    BY <1>6, <1>a, <2>1, RaisesRises DEF WriteRecord
  <2>2. CASE ~Raises(t) /\ u = t
    <3>1. pc'[u] \notin {"saving", "activating"}
      BY <1>6, <1>a, <2>2 DEF WriteRecord, After, Kind
    <3> QED
      BY <3>1 DEF Rises
  <2>3. CASE ~Raises(t) /\ u # t
    <3>1. pc'[u] = pc[u] /\ prev[u] = Unread /\ UNCHANGED <<policy, file>>
      BY <1>6, <1>a, <2>3 DEF WriteRecord, Locking, Locked
    <3> QED
      BY <1>a, <3>1, RisesKept
  <2> QED
    BY <2>1, <2>2, <2>3
<1>7. ASSUME NEW t \in Threads, WriteFails(t) PROVE Rises(u)'
  BY <1>7, <1>a, RaisesRises DEF WriteFails
<1>8. ASSUME NEW t \in Threads, AssignPolicy(t) PROVE Rises(u)'
  <2>1. pc[t] = "applying" /\ pc' = [pc EXCEPT ![t] = "saving"] /\ file' = file
    BY <1>8 DEF AssignPolicy
  <2>2. policy'.version = policy.version + 1
    BY <1>8, PatchedType DEF AssignPolicy, Types, Works
  <2>3. u # t => pc'[u] \notin {"saving", "activating"}
    BY <1>a, <2>1, OneHolder DEF Holding
  <2>4. u = t => pc'[u] = "saving"
    BY <1>a, <2>1
  <2> QED
    BY <1>b, <2>1, <2>2, <2>3, <2>4 DEF Rises
<1>9. ASSUME NEW t \in Threads, SavePolicy(t) PROVE Rises(u)'
  <2>1. /\ pc[t] = "saving" /\ pc' = [pc EXCEPT ![t] = "activating"] /\ file' = policy
        /\ policy' = policy /\ chain' = chain
    BY <1>9 DEF SavePolicy
  <2>2. u # t => pc'[u] \notin {"saving", "activating"}
    BY <1>a, <2>1, OneHolder DEF Holding
  <2>3. u = t => pc'[u] = "activating"
    BY <1>a, <2>1
  <2>4. \A i \in Activated : chain[i].version \in Int /\ chain[i].version < policy.version
    <3>1. \A i \in Activated : chain[i].version \in Int
      BY VersionsInt
    <3>2. file.version < policy.version /\ \A i \in Activated : chain[i].version <= file.version
      BY <2>1 DEF Rising, Rises
    <3> QED
      BY <1>b, <3>1, <3>2
  <2>5. \A i \in Activated' : chain'[i].version < file'.version
    BY <2>1, <2>4 DEF Activated, Of
  <2> QED
    BY <2>1, <2>2, <2>3, <2>5 DEF Rises
<1>10. ASSUME NEW t \in Threads, SaveFails(t) PROVE Rises(u)'
  BY <1>10, <1>a, RaisesRises DEF SaveFails
<1>11. CASE Crash
  BY <1>11 DEF Crash, Rises
<1> QED
  BY <1>1, <1>2, <1>3, <1>4, <1>5, <1>6, <1>7, <1>8, <1>9, <1>10, <1>11
     DEF SwitchNext, ThreadNext

LEMMA RisingStep ==
    ASSUME Types, Locking, VersionsTested, Rising, SwitchNext
    PROVE  Rising'
<1>1. \A u \in Threads : Rises(u)'
  BY RisesStep
<1>2. chain \in Seq(Records) /\ file.version \in Int /\ policy.version \in Int
  BY DEF Types, Policies
<1>3. \A i \in Activated : chain[i].version \in Int
  BY VersionsInt
<1>4. /\ \A i \in Activated : chain[i].version <= file.version
      /\ \A i, j \in Activated : i < j => chain[i].version < chain[j].version
  BY DEF Rising
<1>5. /\ \A i \in Activated' : chain'[i].version <= file.version /\ chain'[i].version \in Int
      /\ \A i, j \in Activated' : i < j => chain'[i].version < chain'[j].version
  <2>1. CASE Activated' = Activated
    BY <1>3, <1>4, <2>1, ActivatedGrows
  <2>2. CASE Activated' # Activated
    <3>1. PICK t \in Threads : pc[t] = "activating"
      BY <2>2, ActivatedGrows
    <3>2. file.version = policy.version /\ \A i \in Activated : chain[i].version < file.version
      BY <3>1 DEF Rising, Rises
    <3>3. /\ Activated' = Activated \cup {Len(chain) + 1}
          /\ chain'[Len(chain) + 1].version = policy.version
          /\ \A i \in Activated : i \in 1..Len(chain) /\ chain'[i] = chain[i]
      BY <2>2, ActivatedGrows
    <3> QED
      BY <1>2, <1>3, <1>4, <3>2, <3>3
  <2> QED
    BY <2>1, <2>2
<1>6. file' = file \/ \E t \in Threads : SavePolicy(t)
  BY DEF SwitchNext, ThreadNext, Handle, Submit, Approve, ReadLast, Unreadable, WriteRecord,
         WriteFails, SaveFails, Crash, AssignPolicy, disk
<1>7. file'.version \in Int /\ file.version <= file'.version
  <2>1. CASE file' = file
    BY <1>2, <2>1
  <2>2. CASE \E t \in Threads : SavePolicy(t)
    <3>1. file' = policy
      BY <2>2 DEF SavePolicy
    <3> QED
      BY <1>2, <3>1 DEF VersionsTested
  <2> QED
    BY <1>6, <2>1, <2>2
<1>8. \A i \in Activated' : chain'[i].version <= file'.version
  BY <1>2, <1>5, <1>7
<1> QED
  BY <1>1, <1>5, <1>8 DEF Rising

-----------------------------------------------------------------------------
(* Activations and faults. *)

LEMMA Small == Due \in {0, 1} /\ InFlight \in {0, 1}
BY DEF Due, InFlight

\* An approval under way exposes its own proposal.
LEMMA ExposedBy ==
    ASSUME Locking, Working, NEW u \in Threads, pc[u] \in Holding, pc[u] # "proposing"
    PROVE  Exposed
<1>1. work[u].id \in DOMAIN pending
  BY DEF Working, Knows
<1>2. \A t \in Threads : pc[t] # "proposing"
  BY OneHolder DEF Holding
<1> QED
  BY <1>1, <1>2 DEF Exposed

\* A step that leaves the file, the proposals and the proposing threads alone adds nothing due.
LEMMA DueKept ==
    ASSUME UNCHANGED tail, DOMAIN pending' = DOMAIN pending,
           \A u \in Threads : pc[u] = "proposing" => pc'[u] = "proposing" /\ work'[u] = work[u],
           \A u \in Threads : pc'[u] \in AfterTest => pc[u] \in AfterTest
    PROVE  Due' <= Due
<1>1. Exposed' => Exposed
  BY DEF Exposed
<1> QED
  BY <1>1 DEF Due

LEMMA InFlightKept ==
    ASSUME \A u \in Threads : pc'[u] \in {"saving", "activating"} <=> pc[u] \in {"saving", "activating"}
    PROVE  InFlight' = InFlight
BY DEF InFlight

LEMMA NotInFlight ==
    ASSUME \A u \in Threads : pc[u] \notin {"saving", "activating"}
    PROVE  InFlight = 0
BY DEF InFlight

LEMMA OneInFlight ==
    ASSUME NEW t \in Threads, pc[t] \in {"saving", "activating"}
    PROVE  InFlight = 1
BY DEF InFlight

\* The policy stands still and nothing more is due, or a fault pays for it.
LEMMA AccountedKept ==
    ASSUME Types, Locking, SwitchNext, Accounted, UNCHANGED policy, InFlight' = InFlight,
           \/ faults' = faults /\ Due' <= Due
           \/ faults' = faults + 1
    PROVE  Accounted'
<1>1. policy.version \in Int /\ faults \in Int /\ policy'.version = policy.version
  BY DEF Types, Policies
<1>2. /\ Cardinality(Activated) \in Nat /\ Cardinality(Activated)' \in Nat
      /\ Cardinality(Activated) <= Cardinality(Activated)'
  BY ActivatedGrows
<1>3. Due \in {0, 1} /\ Due' \in {0, 1} /\ InFlight \in {0, 1}
  BY Small DEF Due
<1> QED
  BY <1>1, <1>2, <1>3 DEF Accounted

\* A thread out of the approval takes nothing with it when it raises.
LEMMA RaisesInFlight ==
    ASSUME Types, Locking, NEW t \in Threads, Raises(t)
    PROVE  /\ pc[t] \notin {"saving", "activating"} => InFlight' = InFlight
           /\ pc[t] \in {"saving", "activating"} => InFlight = 1 /\ InFlight' = 0
<1>1. pc'[t] = "idle" /\ \A u \in Threads \ {t} : pc'[u] = pc[u]
  BY RaisesOthers
<1>2. CASE pc[t] \notin {"saving", "activating"}
  BY <1>1, <1>2, InFlightKept
<1>3. CASE pc[t] \in {"saving", "activating"}
  <2>1. \A u \in Threads : pc'[u] \notin {"saving", "activating"}
    BY <1>1, <1>3, OneHolder DEF Holding
  <2> QED
    BY <1>3, <2>1 DEF InFlight
<1> QED
  BY <1>2, <1>3

\* A write that fails: what it leaves due is paid for by the fault, or by its own activation.
LEMMA WriteFailsAccounted ==
    ASSUME Types, Locking, Working, Accounted, SwitchNext, NEW t \in Threads, WriteFails(t)
    PROVE  Accounted'
<1>1. CASE pc[t] \notin {"saving", "activating"}
  BY <1>1, RaisesInFlight, AccountedKept DEF WriteFails
<1>2. CASE pc[t] \in {"saving", "activating"}
  <2>1. PICK outcome \in Outcomes : Writes(t, outcome)
    BY DEF WriteFails
  <2>2. /\ pc[t] = "activating" /\ prev[t] # Unread /\ Exposed /\ tail # "garbage"
        /\ faults' = faults + 1 /\ policy' = policy
    BY <1>2, ExposedBy DEF WriteFails, Kind, Holding, Locking, Locked
  <2>3. InFlight = 1 /\ InFlight' = 0
    BY <1>2, RaisesInFlight DEF WriteFails
  <2>4. \A u \in Threads : pc'[u] \notin AfterTest
    <3>1. pc'[t] = "idle" /\ \A u \in Threads \ {t} : pc'[u] = pc[u]
      BY RaisesOthers DEF WriteFails
    <3> QED
      BY <1>2, <3>1, OneHolder DEF Holding, AfterTest
  <2>5. Due' = 0 \/ Due = 1 \/ Cardinality(Activated)' = Cardinality(Activated) + 1
    <3>1. CASE tail' # "unterminated"
      BY <2>4, <3>1 DEF Due
    <3>2. CASE tail = "unterminated"
      BY <2>2, <3>2 DEF Due
    <3>3. CASE tail' = "unterminated" /\ tail # "unterminated"
      <4>1. chain' = Append(chain, Record(t))
        BY <2>1, <3>3 DEF Writes, Outcomes
      <4>2. Record(t) \in Records /\ Record(t).kind = "proposal_activation"
        BY <2>2, RecordType DEF Kind
      <4> QED
        BY <4>1, <4>2, OfGrows DEF Types, Activated
    <3> QED
      BY <3>1, <3>2, <3>3
  <2>6. /\ Cardinality(Activated) \in Nat
        /\ \/ Cardinality(Activated)' = Cardinality(Activated)
           \/ Cardinality(Activated)' = Cardinality(Activated) + 1
    BY ActivatedGrows
  <2>7. policy.version \in Int /\ faults \in Int /\ policy'.version = policy.version
    BY <2>2 DEF Types, Policies
  <2>8. Due \in {0, 1} /\ Due' \in {0, 1}
    BY DEF Due
  <2> QED
    BY <2>2, <2>3, <2>5, <2>6, <2>7, <2>8 DEF Accounted
<1> QED
  BY <1>1, <1>2

\* A record that is written whole leaves nothing due that was not due before.
LEMMA WriteRecordDue ==
    ASSUME Types, Locking, Working, SwitchNext, NEW t \in Threads, WriteRecord(t)
    PROVE  /\ pc[t] \notin {"saving", "activating"} => Due' <= Due
           /\ pc[t] = "activating" => Due' = 0
<1>1. tail' = IF tail = "unterminated" THEN "garbage" ELSE "clean"
  BY DEF WriteRecord, Writes, Locking, Locked
<1>2. \A u \in Threads \ {t} : pc'[u] = pc[u]
  BY RaisesOthers DEF WriteRecord, Types
<1>3. pc'[t] \notin {"saving", "activating"} /\ (pc'[t] = "applying" => pc[t] = "testing")
  <2>1. CASE Raises(t)
    BY <2>1, RaisesOthers
  <2>2. CASE ~Raises(t)
    BY <2>2 DEF WriteRecord, Types, After, Kind
  <2> QED
    BY <2>1, <2>2
<1>4. CASE \A u \in Threads : pc'[u] \notin AfterTest
  <2>1. Due' = 0
    BY <1>1, <1>4 DEF Due
  <2> QED
    BY <2>1, Small
<1>5. ASSUME NEW u \in Threads, pc'[u] \in AfterTest
      PROVE  pc[t] # "activating" /\ Due' <= Due
  <2>1. pc[u] \in Holding /\ pc[u] # "proposing"
    BY <1>2, <1>3, <1>5 DEF AfterTest, Holding
  <2>2. pc[t] # "activating"
    BY <1>2, <1>3, <1>5, <2>1, OneHolder DEF AfterTest, Holding
  <2>3. Exposed
    BY <2>1, ExposedBy
  <2>4. CASE tail = "unterminated"
    BY <2>2, <2>3, <2>4 DEF Due
  <2>5. CASE tail # "unterminated"
    BY <1>1, <2>2, <2>5 DEF Due
  <2> QED
    BY <2>4, <2>5, <2>2
<1> QED
  BY <1>4, <1>5

\* No step leaves the file further ahead of the chain than faults and approvals explain.
LEMMA AccountedStep ==
    ASSUME Types, Locking, Working, VersionsTested, Accounted, SwitchNext
    PROVE  Accounted'
<1> USE DEF disk
<1>a. /\ policy.version \in Int /\ file.version \in Int /\ faults \in Int
      /\ file.version <= policy.version /\ pc \in [Threads -> Phases]
      /\ work \in [Threads -> Works]
  BY DEF Types, Policies, VersionsTested
<1>b. /\ Cardinality(Activated) \in Nat /\ Cardinality(Activated)' \in Nat
      /\ Cardinality(Activated) <= Cardinality(Activated)'
  BY ActivatedGrows
<1>c. Due \in {0, 1} /\ Due' \in {0, 1} /\ InFlight \in {0, 1} /\ InFlight' \in {0, 1}
  BY DEF Due, InFlight
<1>1. ASSUME NEW t \in Threads, NEW req \in Requests, Handle(t, req) PROVE Accounted'
  <2>1. /\ UNCHANGED <<tail, pending, policy, faults>> /\ pc[t] = "idle"
        /\ pc'[t] \in {"remembering", "submitting"}
        /\ \A u \in Threads \ {t} : pc'[u] = pc[u] /\ work'[u] = work[u]
    BY <1>a, <1>1 DEF Handle
  <2>2. Due' <= Due
    BY <2>1, DueKept DEF AfterTest
  <2>3. InFlight' = InFlight
    BY <2>1, InFlightKept
  <2> QED
    BY <2>1, <2>2, <2>3, AccountedKept
<1>2. ASSUME NEW t \in Threads, NEW id \in DOMAIN pending, Approve(t, id) PROVE Accounted'
  <2>1. /\ UNCHANGED <<tail, policy, faults>> /\ pc[t] = "idle" /\ pc'[t] = "testing"
        /\ DOMAIN pending' = DOMAIN pending
        /\ \A u \in Threads \ {t} : pc'[u] = pc[u] /\ work'[u] = work[u]
    BY <1>a, <1>2 DEF Approve
  <2>2. Due' <= Due
    BY <2>1, DueKept DEF AfterTest
  <2>3. InFlight' = InFlight
    BY <2>1, InFlightKept
  <2> QED
    BY <2>1, <2>2, <2>3, AccountedKept
<1>3. ASSUME NEW t \in Threads, Submit(t) PROVE Accounted'
  <2>1. /\ UNCHANGED <<tail, policy, faults, work>> /\ pc[t] = "submitting" /\ pc'[t] = "proposing"
        /\ DOMAIN pending' = DOMAIN pending \cup {work[t].id}
        /\ \A u \in Threads \ {t} : pc'[u] = pc[u]
        /\ \A u \in Threads : pc[u] \notin Holding
    BY <1>a, <1>3, OneHolder DEF Submit
  <2>2. Exposed' => Exposed
    BY <2>1 DEF Exposed, Holding
  <2>3. \A u \in Threads : pc'[u] \notin AfterTest
    BY <2>1 DEF Holding, AfterTest
  <2>4. Due' <= Due
    BY <2>1, <2>2, <2>3 DEF Due
  <2>5. InFlight' = InFlight
    BY <2>1, InFlightKept
  <2> QED
    BY <2>1, <2>4, <2>5, AccountedKept
<1>4. ASSUME NEW t \in Threads, ReadLast(t) PROVE Accounted'
  <2>1. UNCHANGED <<tail, policy, faults, work, pc, pending>>
    BY <1>4 DEF ReadLast
  <2>2. Due' <= Due
    BY <2>1, DueKept
  <2>3. InFlight' = InFlight
    BY <2>1, InFlightKept
  <2> QED
    BY <2>1, <2>2, <2>3, AccountedKept
<1>5. ASSUME NEW t \in Threads, Unreadable(t) PROVE Accounted'
  <2>1. /\ UNCHANGED <<tail, policy, faults, pending>> /\ tail = "garbage" /\ Raises(t)
        /\ pc[t] \in DOMAIN Kind
    BY <1>5 DEF Unreadable, Appending
  <2>2. pc'[t] = "idle" /\ \A u \in Threads \ {t} : pc'[u] = pc[u]
    BY <2>1, RaisesOthers
  <2>3. CASE pc[t] = "activating"
    <3>1. Due = 1
      BY <2>1, <2>3 DEF Due, AfterTest
    <3>2. \A u \in Threads : pc'[u] \notin AfterTest
      BY <2>2, <2>3, OneHolder DEF AfterTest, Holding
    <3>3. Due' = 0
      BY <2>1, <3>2 DEF Due
    <3>4. InFlight = 1 /\ InFlight' = 0
      BY <2>1, <2>3, RaisesInFlight
    <3> QED
      BY <1>a, <1>b, <2>1, <3>1, <3>3, <3>4 DEF Accounted
  <2>4. CASE pc[t] # "activating"
    <3>1. InFlight' = InFlight
      BY <2>1, <2>4, RaisesInFlight DEF Kind
    <3>2. Due' <= Due
      BY <2>1, <2>2 DEF Due, AfterTest
    <3> QED
      BY <2>1, <3>1, <3>2, AccountedKept
  <2> QED
    BY <2>3, <2>4
<1>6. ASSUME NEW t \in Threads, WriteRecord(t) PROVE Accounted'
  <2>1. UNCHANGED <<policy, faults>> /\ pc[t] \in DOMAIN Kind /\ prev[t] # Unread
    BY <1>6 DEF WriteRecord
  <2>2. \A u \in Threads \ {t} : pc'[u] = pc[u]
    BY <1>6, RaisesOthers DEF WriteRecord, Types
  <2>3. pc'[t] \notin {"saving", "activating"}
    <3>1. CASE Raises(t)
      BY <3>1, RaisesOthers
    <3>2. CASE ~Raises(t)
      BY <1>6, <3>2 DEF WriteRecord, Types, After, Kind
    <3> QED
      BY <3>1, <3>2
  <2>4. CASE pc[t] = "activating"
    <3>1. chain' = Append(chain, Record(t))
      BY <1>6 DEF WriteRecord, Writes
    <3>2. Record(t) \in Records /\ Record(t).kind = "proposal_activation"
      BY <2>4, RecordType DEF Kind
    <3>3. Cardinality(Activated)' = Cardinality(Activated) + 1
      BY <3>1, <3>2, OfGrows DEF Types, Activated
    <3>4. Due' = 0
      BY <1>6, <2>4, WriteRecordDue
    <3> QED
      BY <1>a, <1>b, <1>c, <2>1, <3>3, <3>4 DEF Accounted
  <2>5. CASE pc[t] # "activating"
    <3>1. InFlight' = InFlight
      BY <2>1, <2>2, <2>3, <2>5, InFlightKept DEF Kind
    <3>2. Due' <= Due
      BY <1>6, <2>1, <2>5, WriteRecordDue DEF Kind
    <3> QED
      BY <2>1, <3>1, <3>2, AccountedKept
  <2> QED
    BY <2>4, <2>5
<1>7. ASSUME NEW t \in Threads, WriteFails(t) PROVE Accounted'
  BY <1>7, WriteFailsAccounted
<1>8. ASSUME NEW t \in Threads, AssignPolicy(t) PROVE Accounted'
  <2>1. /\ UNCHANGED <<chain, tail, faults, work, pending>> /\ pc[t] = "applying" /\ pc'[t] = "saving"
        /\ policy'.version = policy.version + 1
        /\ \A u \in Threads \ {t} : pc'[u] = pc[u]
    BY <1>a, <1>8 DEF AssignPolicy, Patched
  <2>2. Due' <= Due
    BY <2>1, DueKept DEF AfterTest
  <2>3. InFlight = 0
    BY <2>1, OneHolder, NotInFlight DEF Holding
  <2>4. InFlight' = 1
    BY <2>1 DEF InFlight
  <2>5. Cardinality(Activated)' = Cardinality(Activated)
    BY <2>1 DEF Activated, Of
  <2> QED
    BY <1>a, <1>b, <1>c, <2>1, <2>2, <2>3, <2>4, <2>5 DEF Accounted
<1>9. ASSUME NEW t \in Threads, SavePolicy(t) PROVE Accounted'
  <2>1. /\ UNCHANGED <<tail, policy, faults, work>> /\ pc[t] = "saving" /\ pc'[t] = "activating"
        /\ DOMAIN pending' = DOMAIN pending
        /\ \A u \in Threads \ {t} : pc'[u] = pc[u]
    BY <1>a, <1>9 DEF SavePolicy
  <2>2. Due' <= Due
    BY <2>1, DueKept DEF AfterTest
  <2>3. InFlight' = InFlight
    BY <2>1, InFlightKept
  <2> QED
    BY <2>1, <2>2, <2>3, AccountedKept
<1>10. ASSUME NEW t \in Threads, SaveFails(t) PROVE Accounted'
  <2>1. /\ UNCHANGED <<chain, tail, policy, pending>> /\ pc[t] = "saving"
        /\ faults' = faults + 1 /\ Raises(t)
    BY <1>10 DEF SaveFails
  <2>2. /\ pc'[t] = "idle"
        /\ \A u \in Threads \ {t} : pc'[u] = pc[u] /\ work'[u] = work[u]
    BY <2>1, RaisesOthers
  <2>3. Due' <= Due
    BY <2>1, <2>2, DueKept DEF AfterTest
  <2>4. InFlight = 1 /\ InFlight' = 0
    BY <2>1, RaisesInFlight
  <2> QED
    BY <1>a, <1>b, <1>c, <2>1, <2>3, <2>4 DEF Accounted
<1>11. CASE Crash
  <2>1. /\ policy' = file /\ DOMAIN pending' = {} /\ faults' = faults + 1
        /\ \A t \in Threads : pc'[t] = "idle"
    BY <1>11 DEF Crash
  <2>2. Due' = 0
    BY <2>1 DEF Due, Exposed, AfterTest
  <2>3. InFlight' = 0
    BY <2>1 DEF InFlight
  <2> QED
    BY <1>a, <1>b, <1>c, <2>1, <2>2, <2>3 DEF Accounted
<1> QED
  BY <1>1, <1>2, <1>3, <1>4, <1>5, <1>6, <1>7, <1>8, <1>9, <1>10, <1>11 DEF SwitchNext, ThreadNext

-----------------------------------------------------------------------------
(* The theorems. *)

LEMMA SwitchInitial ==
    ASSUME SwitchInit
    PROVE  SwitchInv
<1>1. /\ chain = <<>> /\ DOMAIN pending = {} /\ faults = 0 /\ ids = 0 /\ tail = "clean"
      /\ policy = DefaultPolicy /\ file = DefaultPolicy
      /\ \A t \in Threads : pc[t] = "idle" /\ prev[t] = Unread /\ work[t] = NoWork
  BY DEF SwitchInit
<1>2. DefaultPolicy \in Policies /\ DefaultPolicy.version = 1 /\ NoWork \in Works
  BY DEF DefaultPolicy, Policies, NoWork, NoPatch, Works, Patches
<1>3. Types
  <2>1. pending \in [DOMAIN pending -> Entries]
    BY DEF SwitchInit
  <2>2. chain \in Seq(Records)
    BY <1>1
  <2> QED
    BY <1>1, <1>2, <2>1, <2>2 DEF SwitchInit, Types, Unread, Phases
<1>4. \A k : Of(k) = {} /\ Cardinality(Of(k)) = 0
  BY <1>1, FS_EmptySet DEF Of
<1>5. Locking
  BY <1>1 DEF Locking, Locked, Holding
<1>6. Working
  BY <1>1 DEF Working, Knows, Holding
<1>7. ChainVerifies
  BY <1>1 DEF ChainVerifies
<1>8. Tested
  BY <1>1, <1>2, <1>4 DEF Tested, Named, VersionsTested, Tests
<1>9. Rising
  BY <1>1, <1>4 DEF Rising, Rises, Activated
<1>10. Accounted
  <2>1. Due = 0 /\ InFlight = 0
    BY <1>1 DEF Due, InFlight, AfterTest
  <2>2. Cardinality(Activated) = 0
    BY <1>4 DEF Activated
  <2> QED
    BY <1>1, <1>2, <2>1, <2>2 DEF Accounted
<1> QED
  BY <1>3, <1>5, <1>6, <1>7, <1>8, <1>9, <1>10 DEF SwitchInv

LEMMA SwitchStutters ==
    ASSUME SwitchInv, UNCHANGED switchVars
    PROVE  SwitchInv'
<1> USE DEF switchVars, disk, memory
<1>1. \A k : Of(k)' = Of(k)
  BY DEF Of
<1>2. Types' /\ Locking' /\ ChainVerifies'
  BY DEF SwitchInv, Types, Locking, Locked, ChainVerifies
<1>3. Working'
  BY <1>1 DEF SwitchInv, Working, Knows
<1>4. Tested'
  BY <1>1 DEF SwitchInv, Tested, Named, VersionsTested, Tests
<1>5. Rising'
  BY <1>1 DEF SwitchInv, Rising, Rises, Activated
<1>6. Accounted'
  BY <1>1 DEF SwitchInv, Accounted, Activated, Due, Exposed, InFlight
<1> QED
  BY <1>2, <1>3, <1>4, <1>5, <1>6 DEF SwitchInv

(***************************************************************************)
(* The inductive invariant: who holds the locks of an append and of an     *)
(* approval, what an approval has tested, how far the chain is behind the  *)
(* policy.                                                                 *)
(***************************************************************************)
THEOREM SwitchboardInvariant == SwitchSpec => []SwitchInv
<1>1. SwitchInit => SwitchInv
  BY SwitchInitial
<1>2. SwitchInv /\ [SwitchNext]_switchVars => SwitchInv'
  <2>1. ASSUME SwitchInv, SwitchNext PROVE SwitchInv'
    <3>1. /\ Types /\ Locking /\ Working /\ ChainVerifies /\ Tested /\ Rising /\ Accounted
          /\ VersionsTested
      BY <2>1 DEF SwitchInv, Tested
    <3>2. Types' /\ Locking' /\ Working'
      BY <2>1, <3>1, TypesStep, LockingStep, WorkingStep
    <3>3. ChainVerifies' /\ Tested'
      BY <2>1, <3>1, ChainStep, TestedStep
    <3>4. Rising' /\ Accounted'
      BY <2>1, <3>1, RisingStep, AccountedStep
    <3> QED
      BY <3>2, <3>3, <3>4 DEF SwitchInv
  <2> QED
    BY <2>1, SwitchStutters
<1> QED
  BY <1>1, <1>2, PTL DEF SwitchSpec

\* EventChain.verify() finds every record behind its predecessor, whatever failed.
THEOREM ChainAlwaysVerifies == SwitchSpec => []ChainVerifies
<1>1. SwitchInv => ChainVerifies
  BY DEF SwitchInv
<1> QED
  BY <1>1, SwitchboardInvariant, PTL

\* Each version of the policy, live or on disk, follows a durable record of its test.
THEOREM NothingUntested == SwitchSpec => []TestedBeforeActive
<1>1. SwitchInv => TestedBeforeActive
  <2> SUFFICES ASSUME SwitchInv PROVE TestedBeforeActive
    OBVIOUS
  <2>1. /\ Named(policy) /\ Named(file) /\ VersionsTested /\ chain \in Seq(Records)
        /\ policy.version \in Int /\ file.version \in Int
    BY DEF SwitchInv, Tested, Types, Policies
  <2>2. Tests \in Nat
    BY <2>1, OfFinite DEF Tests
  <2>3. policy.version - 1 <= Tests /\ file.version - 1 <= Tests
    BY <2>1, <2>2 DEF VersionsTested
  <2> QED
    BY <2>1, <2>3 DEF TestedBeforeActive, Named, Tests
<1> QED
  BY <1>1, SwitchboardInvariant, PTL

\* A saved version without activation record is the trace of a fault, or about to get it.
THEOREM ActivationsTraced == SwitchSpec => []ActivationsAccounted
<1>1. SwitchInv => ActivationsAccounted
  <2> SUFFICES ASSUME SwitchInv PROVE ActivationsAccounted
    OBVIOUS
  <2> DEFINE underWay == {t \in Threads : pc[t] = "activating"}
  <2>1. /\ Types /\ Locking /\ Rising /\ VersionsTested /\ Accounted
        /\ policy.version \in Int /\ file.version \in Int /\ faults \in Int
        /\ file.version <= policy.version
    BY DEF SwitchInv, Types, Policies, Tested, VersionsTested
  <2>2. Cardinality(Activated) \in Nat /\ Due \in {0, 1} /\ InFlight \in {0, 1}
    BY <2>1, OfFinite, Small DEF Types, Activated
  <2>3. policy.version - 1 - Cardinality(Activated) <= faults + InFlight
    BY <2>1, <2>2 DEF Accounted
  <2>4. Cardinality(underWay) \in Nat /\ (underWay # {} => Cardinality(underWay) = 1)
    <3>1. CASE underWay = {}
      BY <3>1, FS_EmptySet
    <3>2. ASSUME NEW t \in underWay
          PROVE  Cardinality(underWay) = 1
      <4>1. underWay = {t}
        BY <2>1, <3>2, OneHolder DEF Holding
      <4> QED
        BY <4>1, FS_Singleton
    <3> QED
      BY <3>1, <3>2
  <2>5. file.version - 1 - Cardinality(Activated) <= faults + Cardinality(underWay)
    <3>1. CASE underWay # {}
      BY <2>1, <2>2, <2>3, <2>4, <3>1
    <3>2. ASSUME NEW t \in Threads, pc[t] = "saving"
          PROVE  file.version - 1 - Cardinality(Activated) <= faults + Cardinality(underWay)
      <4>1. file.version < policy.version
        BY <2>1, <3>2 DEF Rising, Rises
      <4> QED
        BY <2>1, <2>2, <2>3, <2>4, <4>1
    <3>3. CASE underWay = {} /\ \A t \in Threads : pc[t] # "saving"
      <4>1. InFlight = 0
        BY <3>3 DEF InFlight
      <4> QED
        BY <2>1, <2>2, <2>3, <2>4, <4>1
    <3> QED
      BY <3>1, <3>2, <3>3
  <2> QED
    BY <2>1, <2>5 DEF ActivationsAccounted, Rising, Activated
<1> QED
  BY <1>1, SwitchboardInvariant, PTL
=============================================================================
