-------------------------- MODULE SovereignLedger --------------------------
(***************************************************************************)
(* The event ledger of sovereign/ledger/ and its checkpoints.  Goroutines  *)
(* share one Ledger; each of its methods runs under the ledger's RWMutex   *)
(* and is one step here.  CreateCheckpoint() and Archive() call several of *)
(* them, and write files, with nothing held in between.  The process may   *)
(* end at any step, and the next one starts from the latest checkpoint.    *)
(*                                                                         *)
(* An event's hash covers its identity and the hash before it, so it is    *)
(* the sequence of the identities so far; the first one links to "".       *)
(***************************************************************************)
EXTENDS Integers, Sequences, SequencesExt, MerkleTree

CONSTANTS
    Goroutines,
    EventIds,        \* an event's id with its content hashes and versions
    Capacities,      \* the MaxEvents a LedgerConfig may ask for
    DefaultCapacity, \* what NewLedger() sets
    LastMilli,       \* bound: the clock stands at 0..LastMilli
    Workloads,       \* bound: how many calls of CreateCheckpoint and of Archive a run makes
    MaxMishaps       \* bound: crashes and failed calls

ASSUME LedgerAssumption ==
    /\ Capacities \subseteq Nat \ {0} /\ DefaultCapacity \in Nat \ {0}
    /\ LastMilli \in Nat /\ MaxMishaps \in Nat
    /\ Workloads \subseteq [checkpoints : Nat, archives : Nat]

VARIABLES
    events, lastHash, verified, sealed, maxEvents, \* the Ledger
    up,        \* the process runs
    at,        \* at[g]: the next step of g's CreateCheckpoint or Archive
    name,      \* name[g]: the millisecond in the name of its checkpoint
    got,       \* got[g]: what its calls returned so far
    dir,       \* dir[m]: what the file checkpoint_<m>.json holds
    clock,     \* the last millisecond read
    left,      \* what is left of the workload
    mishaps,
    begun,     \* history: how many checkpoints were begun under a name,
    known,     \*   the events when the only one of these was begun,
    returned,  \*   and the names CreateCheckpoint returned
    archived,  \* history: the last archive returned
    replays    \* history: what Replay returned in this process

bookVars == <<events, lastHash, verified, sealed, maxEvents>>
diskVars == <<dir, clock, begun, known, returned>>
ledgerVars == <<bookVars, up, at, name, got, diskVars, left, mishaps, archived, replays>>

Millis == 0..LastMilli
Identities(es, n) == [i \in 1..n |-> es[i].id]

\* What computeEventHash() and the link say of every event, in the order Verify() checks it.
Linked(es) == \A i \in DOMAIN es : /\ es[i].prev = Identities(es, i - 1)
                                   /\ es[i].hash = Identities(es, i)

OpenLedger(n) ==
    /\ events' = <<>> /\ lastHash' = <<>>
    /\ verified' = FALSE /\ sealed' = FALSE /\ maxEvents' = n

\* Variant: a ledger that was verified goes on taking events.
AppendToVerified(id) ==
    /\ up /\ ~sealed /\ Len(events) < maxEvents
    /\ lastHash' = Append(lastHash, id)
    /\ events' = Append(events, [id |-> id, prev |-> lastHash, hash |-> lastHash'])
    /\ UNCHANGED <<verified, sealed, maxEvents, up, at, name, got, diskVars, left, mishaps,
                   archived, replays>>

\* Refused on a verified, sealed or full ledger.
AppendEvent(id) ==
    /\ up /\ ~verified /\ ~sealed /\ Len(events) < maxEvents
    /\ lastHash' = Append(lastHash, id)
    /\ events' = Append(events, [id |-> id, prev |-> lastHash, hash |-> lastHash'])
    /\ UNCHANGED <<verified, sealed, maxEvents, up, at, name, got, diskVars, left, mishaps,
                   archived, replays>>

verifyLocked == Linked(events) /\ verified' = TRUE

Verify ==
    /\ up /\ verifyLocked
    /\ UNCHANGED <<events, lastHash, sealed, maxEvents, up, at, name, got, diskVars, left, mishaps,
                   archived, replays>>

\* It answers a question, under the read lock, and leaves the ledger verified all the same.
TamperDetection ==
    /\ up /\ verifyLocked
    /\ UNCHANGED <<events, lastHash, sealed, maxEvents, up, at, name, got, diskVars, left, mishaps,
                   archived, replays>>

Seal ==
    /\ up /\ verifyLocked
    /\ sealed' = TRUE
    /\ UNCHANGED <<events, lastHash, maxEvents, up, at, name, got, diskVars, left, mishaps,
                   archived, replays>>

Replay ==
    /\ up /\ verified
    /\ replays' = replays \cup {events}
    /\ UNCHANGED <<bookVars, up, at, name, got, diskVars, left, mishaps, archived>>

(***************************************************************************)
(* CreateCheckpoint(): the snapshot, whose time names the file, the        *)
(* export, os.Create, and the write.                                       *)
(***************************************************************************)
Advance(g, from, to) == up /\ at[g] = from /\ at' = [at EXCEPT ![g] = to]

Begins(kind) == left[kind] > 0 /\ left' = [left EXCEPT ![kind] = @ - 1]

CreateSnapshot(g) ==
    /\ Begins("checkpoints") /\ Advance(g, "idle", "export")
    /\ clock' \in clock..LastMilli
    /\ name' = [name EXCEPT ![g] = clock']
    /\ begun' = [begun EXCEPT ![clock'] = @ + 1]
    /\ known' = [known EXCEPT ![clock'] = IF begun[clock'] = 0 THEN events ELSE <<>>]
    /\ UNCHANGED <<bookVars, up, got, dir, returned, mishaps, archived, replays>>

TheExport == [events |-> events, verified |-> verified, sealed |-> sealed, root |-> lastHash]

\* What the calls of Archive() have to fill in; CreateCheckpoint() uses the data alone.
Holding(data) ==
    [data |-> data, count |-> 0, root |-> <<>>, verified |-> FALSE, sealed |-> FALSE]

NoData == [events |-> <<>>, verified |-> FALSE, sealed |-> FALSE, root |-> <<>>]
Nothing == Holding(NoData)

\* A checkpoint's file: all of an export, or nothing that parses as JSON.
Whole(data) == [state |-> "whole", data |-> data]
NoFile == [state |-> "missing", data |-> NoData]
Empty == [state |-> "empty", data |-> NoData]
Broken == [state |-> "broken", data |-> NoData]

Export(g) ==
    /\ Advance(g, "export", "create")
    /\ got' = [got EXCEPT ![g] = Holding(TheExport)]
    /\ UNCHANGED <<bookVars, up, name, diskVars, left, mishaps, archived, replays>>

\* A file that is already there is emptied.
OpenFile(g) ==
    /\ Advance(g, "create", "write")
    /\ dir' = [dir EXCEPT ![name[g]] = Empty]
    /\ UNCHANGED <<bookVars, up, name, got, clock, begun, known, returned, left, mishaps, archived,
                   replays>>

\* Written from the start of the file: what another call left there may stick out at the end.
WrittenOver(content, data) ==
    {Whole(data)} \cup (IF content \in {Empty, Whole(data)} THEN {} ELSE {Broken})

WriteFile(g) ==
    /\ Advance(g, "write", "idle")
    /\ \E content \in WrittenOver(dir[name[g]], got[g].data) :
          dir' = [dir EXCEPT ![name[g]] = content]
    /\ returned' = returned \cup {name[g]}
    /\ got' = [got EXCEPT ![g] = Nothing] /\ name' = [name EXCEPT ![g] = 0]
    /\ UNCHANGED <<bookVars, up, clock, begun, known, left, mishaps, archived, replays>>

Mishap == mishaps < MaxMishaps /\ mishaps' = mishaps + 1

\* Variant: the error of Flush is not looked at, and the path is returned.
FlushUnchecked(g) ==
    /\ Mishap /\ Advance(g, "write", "idle")
    /\ \E content \in {dir[name[g]], Broken} : dir' = [dir EXCEPT ![name[g]] = content]
    /\ returned' = returned \cup {name[g]}
    /\ got' = [got EXCEPT ![g] = Nothing] /\ name' = [name EXCEPT ![g] = 0]
    /\ UNCHANGED <<bookVars, up, clock, begun, known, left, archived, replays>>

\* os.Create, Write or Flush reports an error: no path is returned, what was written stays.
CheckpointFails(g) ==
    /\ Mishap
    /\ \/ Advance(g, "create", "idle") /\ UNCHANGED dir
       \/ /\ Advance(g, "write", "idle")
          /\ \E content \in {dir[name[g]], Broken} : dir' = [dir EXCEPT ![name[g]] = content]
    /\ got' = [got EXCEPT ![g] = Nothing] /\ name' = [name EXCEPT ![g] = 0]
    /\ UNCHANGED <<bookVars, up, clock, begun, known, returned, left, archived, replays>>

(***************************************************************************)
(* Archive(): five calls, in the order of its composite literal.           *)
(***************************************************************************)
ArchiveExport(g) ==
    /\ Begins("archives") /\ Advance(g, "idle", "count")
    /\ got' = [got EXCEPT ![g] = Holding(TheExport)]
    /\ UNCHANGED <<bookVars, up, name, diskVars, mishaps, archived, replays>>

ArchiveCount(g) ==
    /\ Advance(g, "count", "root")
    /\ got' = [got EXCEPT ![g].count = Len(events)]
    /\ UNCHANGED <<bookVars, up, name, diskVars, left, mishaps, archived, replays>>

ArchiveRoot(g) ==
    /\ Advance(g, "root", "verified")
    /\ got' = [got EXCEPT ![g].root = lastHash]
    /\ UNCHANGED <<bookVars, up, name, diskVars, left, mishaps, archived, replays>>

ArchiveVerified(g) ==
    /\ Advance(g, "verified", "sealed")
    /\ got' = [got EXCEPT ![g].verified = verified]
    /\ UNCHANGED <<bookVars, up, name, diskVars, left, mishaps, archived, replays>>

ArchiveSealed(g) ==
    /\ Advance(g, "sealed", "idle")
    /\ archived' = [got[g] EXCEPT !.sealed = sealed]
    /\ got' = [got EXCEPT ![g] = Nothing]
    /\ UNCHANGED <<bookVars, up, name, diskVars, left, mishaps, replays>>

(***************************************************************************)
(* The process ends; a write under way may be cut short.                   *)
(***************************************************************************)
Crash ==
    /\ up /\ Mishap
    /\ up' = FALSE
    /\ \E cut \in SUBSET {name[g] : g \in {g \in Goroutines : at[g] = "write"}} :
          dir' = [m \in Millis |-> IF m \in cut THEN Broken ELSE dir[m]]
    /\ OpenLedger(DefaultCapacity)
    /\ at' = [g \in Goroutines |-> "idle"] /\ name' = [g \in Goroutines |-> 0]
    /\ got' = [g \in Goroutines |-> Nothing]
    /\ archived' = Nothing /\ replays' = {}
    /\ UNCHANGED <<left, clock, begun, known, returned>>

Checkpoints == {m \in Millis : dir[m] # NoFile}

Latest(m) == m \in Checkpoints /\ \A n \in Checkpoints : n <= m

Readable(m) == dir[m].state = "whole"

\* AppendEvent() on a new ledger for each event of an export; those it refuses are dropped.
Reappended(es) ==
    [i \in 1..(IF Len(es) <= DefaultCapacity THEN Len(es) ELSE DefaultCapacity) |->
        [id |-> es[i].id, prev |-> Identities(es, i - 1), hash |-> Identities(es, i)]]

RecoverLatest ==
    /\ ~up /\ up' = TRUE
    /\ \E m \in Millis : Latest(m) /\ Readable(m) /\ events' = Reappended(dir[m].data.events)
    /\ lastHash' = Identities(events', Len(events'))
    /\ UNCHANGED <<verified, sealed, maxEvents, at, name, got, diskVars, left, mishaps, archived,
                   replays>>

\* The caller's choice where there is nothing to recover or the file is refused.
StartAfresh ==
    /\ ~up /\ up' = TRUE
    /\ \A m \in Millis : Latest(m) => ~Readable(m)
    /\ \E n \in Capacities : OpenLedger(n)
    /\ UNCHANGED <<at, name, got, diskVars, left, mishaps, archived, replays>>

LedgerInit ==
    /\ events = <<>> /\ lastHash = <<>> /\ verified = FALSE /\ sealed = FALSE
    /\ maxEvents \in Capacities /\ up = TRUE
    /\ at = [g \in Goroutines |-> "idle"] /\ name = [g \in Goroutines |-> 0]
    /\ got = [g \in Goroutines |-> Nothing]
    /\ dir = [m \in Millis |-> NoFile] /\ clock = 0 /\ left \in Workloads /\ mishaps = 0
    /\ begun = [m \in Millis |-> 0] /\ known = [m \in Millis |-> <<>>] /\ returned = {}
    /\ archived = Nothing /\ replays = {}

CheckpointNext(g) ==
    \/ CreateSnapshot(g) \/ Export(g) \/ OpenFile(g) \/ WriteFile(g) \/ CheckpointFails(g)

ArchiveNext(g) ==
    \/ ArchiveExport(g) \/ ArchiveCount(g) \/ ArchiveRoot(g) \/ ArchiveVerified(g)
    \/ ArchiveSealed(g)

LedgerNext ==
    \/ \E id \in EventIds : AppendEvent(id)
    \/ Verify \/ TamperDetection \/ Seal \/ Replay
    \/ \E g \in Goroutines : CheckpointNext(g) \/ ArchiveNext(g)
    \/ Crash \/ RecoverLatest \/ StartAfresh

LedgerSpec == LedgerInit /\ [][LedgerNext]_ledgerVars

(***************************************************************************)
(* What a caller may rely on.                                              *)
(***************************************************************************)

(***************************************************************************)
(* A checkpoint that was returned, and that no other call named in the     *)
(* same millisecond, stays readable, and what RecoverLatest() makes of it  *)
(* begins with the events the ledger held when the call was made, up to    *)
(* the capacity of a new ledger: appends, failures and other checkpoints   *)
(* between the snapshot, the export and the write take none of them away.  *)
(***************************************************************************)
Own(m) == m \in returned /\ begun[m] = 1

UpTo(es, n) == [i \in 1..(IF Len(es) <= n THEN Len(es) ELSE n) |-> es[i]]

CheckpointsCover ==
    \A m \in Millis : Own(m) =>
        /\ Readable(m)
        /\ IsPrefix(UpTo(known[m], DefaultCapacity), Reappended(dir[m].data.events))

(***************************************************************************)
(* Once the ledger is verified, by whichever method, it gives one answer:  *)
(* every replay is what it holds now.  An archive counts at least the      *)
(* events it carries and its root covers at least those it counts, and the *)
(* archive of a ledger that was already verified agrees with itself.       *)
(***************************************************************************)
Consistent(archive) ==
    /\ Len(archive.data.events) <= archive.count /\ archive.count <= Len(archive.root)
    /\ archive.data.verified => archive.verified /\ archive.root = archive.data.root

AnswersAgree ==
    /\ \A replay \in replays : verified /\ replay = events
    /\ Consistent(archived)

(***************************************************************************)
(* A proof from the tree of the current events is accepted for its own     *)
(* leaf exactly when no node on the leaf's way up stands alone, and for no *)
(* other leaf: Proof() skips a level without a sibling, so the last events *)
(* of most ledgers cannot be proved (three events, the third).             *)
(***************************************************************************)
Leaves == [i \in DOMAIN events |-> Leaf(events[i].hash)]

ProofsVerify ==
    LET tree == Tree(Leaves)
    IN  events # <<>> =>
        \A i, j \in 0..Len(events) - 1 :
            VerifyProof(tree, i, Proof(tree, i), Leaves[j + 1]) <=> i = j /\ Paired(tree, i)
=============================================================================
