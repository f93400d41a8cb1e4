------------------------------ MODULE ColdBoot ------------------------------
(***************************************************************************)
(* The second way into the WORM file: ColdBootProtocol of src/cold_boot.py *)
(* boots on the file, keeps the last hash in memory and appends in place   *)
(* (SVC 254), next to the WormStorageEngine that appends by renaming, and  *)
(* ICPAnchorBridge of src/icp_anchor.py, which anchors what it reads there.*)
(*                                                                         *)
(* An append of the engine reads the last hash, copies the file and,       *)
(* later, puts the copy with its record in the file's place: a line that a *)
(* driver wrote in between is gone. What fails inside it leaves the file   *)
(* alone (WormStorage has its steps one by one, and the temporary file     *)
(* that two engines at once would share). A driver's write opens the file  *)
(* and writes to it in one step, so that no rename of an engine falls      *)
(* between the two; writers that take turns never come to that.            *)
(*                                                                         *)
(* Lines have one length, LineSize. SVC 254 measures the payload and 64    *)
(* bytes, less than the line it writes, which holds two hashes of 64       *)
(* characters and three keys as well.                                      *)
(***************************************************************************)
EXTENDS HashChain

CONSTANTS
    Drivers,        \* processes that may hold a ColdBootProtocol on the file
    Engines,        \* processes that may hold a WormStorageEngine on it
    Payloads,
    LineSize,       \* the length of a record's line
    Measured,       \* the part of it that SVC 254 checks the space for
    Limit,          \* MAX_WORM_SIZE
    EngineLimit,    \* MAX_WORM_FILE_SIZE_BYTES
    OneWriter,      \* whether writers take turns
    MaxWrites,      \* bound: writes that are begun, whatever becomes of them
    MaxFaults,      \* bound: OSErrors, and crashes that cut a write short
    MaxAnchors      \* bound: anchors in the chain

ASSUME VolumeAssumption ==
    /\ Payloads # {}
    /\ LineSize \in Nat /\ Measured \in 0..LineSize
    /\ Limit \in Nat /\ EngineLimit \in Nat
    /\ OneWriter \in BOOLEAN
    /\ MaxWrites \in Nat /\ MaxFaults \in Nat /\ MaxAnchors \in Nat

VARIABLES
    volume,     \* the file: its lines, and whether the last one has its newline
    meta,       \* driver -> metadata: root_slot, record_count and tail
    pc,         \* driver -> place in _svc_write_once()
    record,     \* driver -> the record in flight
    append,     \* engine -> place in append(), its record, the copy of the file
    acked,      \* history: the records a writer reported as written
    anchors,    \* the anchor chain, genesis first, or <<>> if not initialized
    writes,     \* history: writes begun
    faults      \* history: OSErrors and writes cut short

vars == <<volume, meta, pc, record, append, acked, anchors, writes, faults>>

Records == RecordsOver(Payloads)
NoRecord == MakeRecord(ZeroHash, CHOOSE p \in Payloads : TRUE)
EmptyVolume == [lines |-> <<>>, ended |-> TRUE]
Unloaded == [root_slot |-> ZeroHash, record_count |-> 0, tail |-> 0]
NoAppend == [at |-> "idle", record |-> NoRecord, existing |-> EmptyVolume]

\* An anchor. (Its own hash covers its fields and the anchor before it, and
\* is taken to be free of collisions: the chain is the list.)
Anchor(root, count) == [worm_root_hash |-> root, record_count |-> count]
Genesis == Anchor(ZeroHash, 0)
EmptyWormRoot == <<"GENESIS_EMPTY_WORM">>
Anchors == [worm_root_hash : Seq(Payloads) \cup {EmptyWormRoot}, record_count : Nat]

Volumes == [lines : Seq(LinesOver(Payloads)), ended : BOOLEAN]

TypeOK ==
    /\ volume \in Volumes
    /\ volume.lines = <<>> => volume.ended
    /\ meta \in [Drivers -> [root_slot : Seq(Payloads), record_count : Nat, tail : Nat]]
    /\ pc \in [Drivers -> {"down", "idle", "writing", "written"}]
    /\ record \in [Drivers -> Records]
    /\ append \in [Engines -> [at : {"idle", "linked", "copied"}, record : Records, existing : Volumes]]
    /\ \A e \in Engines : append[e].existing.lines = <<>> => append[e].existing.ended
    /\ acked \subseteq Records
    /\ anchors \in Seq(Anchors) /\ Len(anchors) <= MaxAnchors
    /\ writes \in 0..MaxWrites
    /\ faults \in 0..MaxFaults

Init ==
    /\ volume = EmptyVolume
    /\ meta = [d \in Drivers |-> Unloaded]
    /\ pc = [d \in Drivers |-> "down"]
    /\ record = [d \in Drivers |-> NoRecord]
    /\ append = [e \in Engines |-> NoAppend]
    /\ acked = {}
    /\ anchors = <<>>
    /\ writes = 0
    /\ faults = 0

-----------------------------------------------------------------------------
Size(v) == Len(v.lines)
Bytes(v) == Size(v) * LineSize
Parses(v) == \A i \in 1..Size(v) : v.lines[i] # TornLine

\* Text for one line arrives at the end of the file: a line of its own, or,
\* when the last line has no newline yet, more bytes of that line, which is
\* then not valid JSON.
AppendText(v, line, ended) ==
    [lines |-> IF v.ended
                 THEN Append(v.lines, line)
                 ELSE [v.lines EXCEPT ![Size(v)] = TornLine],
     ended |-> ended]

\* What can be left of a write that does not come to its end: nothing, a part
\* of the record, the record without its newline, or all of it (fsync fails).
CutShort(v, r) ==
    {v, AppendText(v, TornLine, FALSE), AppendText(v, r, FALSE), AppendText(v, r, TRUE)}

\* _load_existing_state(). What does not parse is ignored, as a whole.
Loaded(v) ==
    IF v.lines = <<>> \/ ~Parses(v)
      THEN Unloaded
      ELSE [root_slot |-> LastHash(v.lines), record_count |-> Size(v), tail |-> Bytes(v)]

\* _svc_read_many(): the return code for the record at place i, from 1.
ReadMany(v, i) ==
    CASE ~Parses(v)                              -> 12
      [] Parses(v) /\ i \notin 1..Size(v)        -> 4
      [] Parses(v) /\ i \in 1..Size(v)           ->
            IF VerifyIntegrity(SubSeq(v.lines, 1, i)) THEN 0 ELSE 8

-----------------------------------------------------------------------------
AllDown == \A d \in Drivers : pc[d] = "down"
AllIdle == \A e \in Engines : append[e].at = "idle"

\* Variant: the state on the disk is not loaded.
BootWithoutLoading(d) ==
    /\ pc[d] = "down"
    /\ OneWriter => AllDown /\ AllIdle
    /\ meta' = [meta EXCEPT ![d] = Unloaded]
    /\ pc' = [pc EXCEPT ![d] = "idle"]
    /\ UNCHANGED <<volume, record, append, acked, anchors, writes, faults>>

\* cold_boot(): the phases one after the other. Phase 1 hashes the sources
\* and phase 3 only logs.
Boot(d) ==
    /\ pc[d] = "down"
    /\ OneWriter => AllDown /\ AllIdle
    /\ meta' = [meta EXCEPT ![d] = Loaded(volume)]
    /\ pc' = [pc EXCEPT ![d] = "idle"]
    /\ UNCHANGED <<volume, record, append, acked, anchors, writes, faults>>

\* An OSError while the file is read: the boot goes on, at the genesis root, or,
\* when stat() was what failed, with the records it read and a tail of 0.
BootUnread(d) ==
    /\ pc[d] = "down"
    /\ OneWriter => AllDown /\ AllIdle
    /\ faults < MaxFaults
    /\ faults' = faults + 1
    /\ meta' \in {[meta EXCEPT ![d] = m] : m \in {Unloaded, [Loaded(volume) EXCEPT !.tail = 0]}}
    /\ pc' = [pc EXCEPT ![d] = "idle"]
    /\ UNCHANGED <<volume, record, append, acked, anchors, writes>>

\* _svc_write_once() up to the write: the space is checked and the record is
\* linked by what the metadata says. (A full volume answers 4, without effect.)
WriteOnce(d, p) ==
    /\ pc[d] = "idle"
    /\ meta[d].tail + Measured <= Limit
    /\ writes < MaxWrites
    /\ writes' = writes + 1
    /\ record' = [record EXCEPT ![d] = MakeRecord(meta[d].root_slot, p)]
    /\ pc' = [pc EXCEPT ![d] = "writing"]
    /\ UNCHANGED <<volume, meta, append, acked, anchors, faults>>

\* Variant: the file is opened for writing, not for appending.
WriteTruncating(d) ==
    /\ pc[d] = "writing"
    /\ volume' = AppendText(EmptyVolume, record[d], TRUE)
    /\ pc' = [pc EXCEPT ![d] = "written"]
    /\ UNCHANGED <<meta, record, append, acked, anchors, writes, faults>>

\* open(.., "a"), write(), flush(), fsync().
Write(d) ==
    /\ pc[d] = "writing"
    /\ volume' = AppendText(volume, record[d], TRUE)
    /\ pc' = [pc EXCEPT ![d] = "written"]
    /\ UNCHANGED <<meta, record, append, acked, anchors, writes, faults>>

\* An OSError on the way: return code 8. Whatever reached the file stays in
\* it, and the metadata does not follow.
WriteFails(d) ==
    /\ pc[d] = "writing"
    /\ faults < MaxFaults
    /\ faults' = faults + 1
    /\ volume' \in CutShort(volume, record[d])
    /\ pc' = [pc EXCEPT ![d] = "idle"]
    /\ record' = [record EXCEPT ![d] = NoRecord]
    /\ UNCHANGED <<meta, append, acked, anchors, writes>>

\* Variant: the root is not moved on.
CompleteKeepingRoot(d) ==
    /\ pc[d] = "written"
    /\ meta' = [meta EXCEPT ![d] = [root_slot    |-> @.root_slot,
                                    record_count |-> @.record_count + 1,
                                    tail         |-> Bytes(volume)]]
    /\ acked' = acked \cup {record[d]}
    /\ pc' = [pc EXCEPT ![d] = "idle"]
    /\ record' = [record EXCEPT ![d] = NoRecord]
    /\ UNCHANGED <<volume, append, anchors, writes, faults>>

\* Variant: the tail is not moved on.
CompleteKeepingTail(d) ==
    /\ pc[d] = "written"
    /\ meta' = [meta EXCEPT ![d] = [root_slot    |-> record[d].record_hash,
                                    record_count |-> @.record_count + 1,
                                    tail         |-> @.tail]]
    /\ acked' = acked \cup {record[d]}
    /\ pc' = [pc EXCEPT ![d] = "idle"]
    /\ record' = [record EXCEPT ![d] = NoRecord]
    /\ UNCHANGED <<volume, append, anchors, writes, faults>>

\* The metadata follow the write, and 0 is returned with the hash. (An ANCHOR
\* record also calls SVC 253, which only logs.)
Complete(d) ==
    /\ pc[d] = "written"
    /\ meta' = [meta EXCEPT ![d] = [root_slot    |-> record[d].record_hash,
                                    record_count |-> @.record_count + 1,
                                    tail         |-> Bytes(volume)]]
    /\ acked' = acked \cup {record[d]}
    /\ pc' = [pc EXCEPT ![d] = "idle"]
    /\ record' = [record EXCEPT ![d] = NoRecord]
    /\ UNCHANGED <<volume, append, anchors, writes, faults>>

\* The size of the file is read outside the try: an OSError leaves the handler
\* with the record in the file and the metadata where they were.
CompleteFails(d) ==
    /\ pc[d] = "written"
    /\ faults < MaxFaults
    /\ faults' = faults + 1
    /\ pc' = [pc EXCEPT ![d] = "idle"]
    /\ record' = [record EXCEPT ![d] = NoRecord]
    /\ UNCHANGED <<volume, meta, append, acked, anchors, writes>>

\* The driver's process ends between two steps.
Halt(d) ==
    /\ pc[d] # "down"
    /\ pc' = [pc EXCEPT ![d] = "down"]
    /\ meta' = [meta EXCEPT ![d] = Unloaded]
    /\ record' = [record EXCEPT ![d] = NoRecord]
    /\ UNCHANGED <<volume, append, acked, anchors, writes, faults>>

\* It dies with the write under way.
CrashWriting(d) ==
    /\ pc[d] = "writing"
    /\ faults < MaxFaults
    /\ faults' = faults + 1
    /\ volume' \in CutShort(volume, record[d])
    /\ pc' = [pc EXCEPT ![d] = "down"]
    /\ meta' = [meta EXCEPT ![d] = Unloaded]
    /\ record' = [record EXCEPT ![d] = NoRecord]
    /\ UNCHANGED <<append, acked, anchors, writes>>

(***************************************************************************)
(* WormStorageEngine.append() in three steps. The last line gives the hash *)
(* to link to; one that does not parse raises.                             *)
(***************************************************************************)
EngineLink(e, p) ==
    /\ append[e].at = "idle"
    /\ OneWriter => AllDown /\ AllIdle
    /\ ~EndsTorn(volume.lines)
    /\ writes < MaxWrites
    /\ writes' = writes + 1
    /\ append' = [append EXCEPT ![e] = [NoAppend EXCEPT !.at = "linked",
                                         !.record = MakeRecord(LastHash(volume.lines), p)]]
    /\ UNCHANGED <<volume, meta, pc, record, acked, anchors, faults>>

\* _check_size_limit(), then every byte of the file is read.
EngineCopy(e) ==
    /\ append[e].at = "linked"
    /\ Bytes(volume) + LineSize <= EngineLimit
    /\ append' = [append EXCEPT ![e].at = "copied", ![e].existing = volume]
    /\ UNCHANGED <<volume, meta, pc, record, acked, anchors, writes, faults>>

\* The copy and the record become the file, and the record is returned.
EngineReplace(e) ==
    /\ append[e].at = "copied"
    /\ volume' = AppendText(append[e].existing, append[e].record, TRUE)
    /\ acked' = acked \cup {append[e].record}
    /\ append' = [append EXCEPT ![e] = NoAppend]
    /\ UNCHANGED <<meta, pc, record, anchors, writes, faults>>

\* A full file, an OSError or the end of the process before the rename.
EngineGivesUp(e) ==
    /\ append[e].at # "idle"
    /\ append' = [append EXCEPT ![e] = NoAppend]
    /\ UNCHANGED <<volume, meta, pc, record, acked, anchors, writes, faults>>

-----------------------------------------------------------------------------
\* initialize(): a genesis anchor, and whatever was anchored is forgotten.
InitializeBridge ==
    /\ MaxAnchors > 0
    /\ anchors' = <<Genesis>>
    /\ UNCHANGED <<volume, meta, pc, record, append, acked, writes, faults>>

\* anchor_state(): initializes the bridge first when nobody has.
AnchorState(root, count) ==
    LET chain == IF anchors = <<>> THEN <<Genesis>> ELSE anchors
    IN  /\ Len(chain) < MaxAnchors
        /\ anchors' = Append(chain, Anchor(root, count))

\* sync_from_worm(): every line is parsed, the last one is the root. A line
\* that does not parse ends it without an anchor.
SyncFromWorm ==
    /\ Parses(volume)
    /\ IF volume.lines = <<>>
         THEN AnchorState(EmptyWormRoot, 0)
         ELSE AnchorState(LastHash(volume.lines), Size(volume))
    /\ UNCHANGED <<volume, meta, pc, record, append, acked, writes, faults>>

Next ==
    \/ \E d \in Drivers :
        \/ Boot(d)
        \/ BootUnread(d)
        \/ \E p \in Payloads : WriteOnce(d, p)
        \/ Write(d)
        \/ WriteFails(d)
        \/ Complete(d)
        \/ CompleteFails(d)
        \/ Halt(d)
        \/ CrashWriting(d)
    \/ \E e \in Engines :
        \/ \E p \in Payloads : EngineLink(e, p)
        \/ EngineCopy(e)
        \/ EngineReplace(e)
        \/ EngineGivesUp(e)
    \/ InitializeBridge
    \/ SyncFromWorm

Spec == Init /\ [][Next]_vars

-----------------------------------------------------------------------------
\* While nothing was cut short and writers take turns, the two ways to write
\* make one chain: verify_chain() and verify_integrity() accept the file,
\* whichever of them wrote which record and however often drivers reboot.
ChainSharedByWriters ==
    faults = 0 => volume.ended /\ Parses(volume) /\ VerifyIntegrity(volume.lines)

\* What a driver keeps in memory between calls is what a reboot would load.
MetadataCurrent ==
    faults = 0 => \A d \in Drivers : pc[d] = "idle" => meta[d] = Loaded(volume)

\* The space is checked on the tail of the call before and for a part of the
\* line; the engine has a cap of its own. Together they never take the file
\* over the larger cap by more than the part of one line that is not measured.
LargestVolume ==
    IF Limit + (LineSize - Measured) >= EngineLimit
      THEN Limit + (LineSize - Measured)
      ELSE EngineLimit
WithinLimits == faults = 0 => Bytes(volume) <= LargestVolume

\* "append immutable record" (SVC 254): what was reported as written, SVC 255
\* finds and verifies.
Readable(r) ==
    \E i \in 1..Size(volume) : ReadMany(volume, i) = 0 /\ volume.lines[i] = r
AckedReadable == faults = 0 => \A r \in acked : Readable(r)

\* The conjunction that is inductive as long as writers take turns: no driver
\* boots while another one is up or an engine appends, and a record in flight
\* still links to the end of the file when it is written, has room, and is the
\* last one when the metadata follow.
OneAtWork ==
    OneWriter =>
        /\ \A d, e \in Drivers : pc[d] # "down" /\ pc[e] # "down" => d = e
        /\ \A e \in Engines : append[e].at # "idle" =>
              AllDown /\ \A f \in Engines \ {e} : append[f].at = "idle"

\* What an engine has read of the file is what the file holds, through faults too.
CopiesCurrent ==
    OneWriter => \A e \in Engines :
        /\ append[e].at # "idle" =>
              /\ ~EndsTorn(volume.lines)
              /\ append[e].record = MakeRecord(LastHash(volume.lines), append[e].record.payload)
        /\ append[e].at = "copied" =>
              append[e].existing = volume /\ Bytes(volume) + LineSize <= EngineLimit

InFlightCurrent ==
    faults = 0 => \A d \in Drivers :
        /\ pc[d] = "writing" =>
              /\ record[d] = MakeRecord(LastHash(volume.lines), record[d].payload)
              /\ meta[d] = Loaded(volume)
              /\ Bytes(volume) + Measured <= Limit
        /\ pc[d] = "written" =>
              /\ volume.lines # <<>>
              /\ volume.lines[Size(volume)] = record[d]
              /\ meta[d].record_count + 1 = Size(volume)

IInv ==
    /\ TypeOK
    /\ OneAtWork
    /\ CopiesCurrent
    /\ ChainSharedByWriters
    /\ MetadataCurrent
    /\ InFlightCurrent
    /\ AckedReadable
    /\ WithinLimits

\* READ_MANY answers for ever what it answered once, or fails: through torn
\* lines, stale roots and forks no index ever yields a second record, as long as
\* no engine overwrites the file with a copy made before another one wrote.
ReadStable ==
    [][\A i \in 1..Size(volume) :
          ReadMany(volume, i) = 0 /\ ReadMany(volume', i) = 0
             => volume'.lines[i] = volume.lines[i]]_vars

\* An anchor is a proof about the past of the file: as long as the file can
\* be read at all, the record at the anchored count has the anchored hash.
AnchorsAttest ==
    Parses(volume) =>
        \A k \in 2..Len(anchors) : anchors[k].record_count > 0 =>
            /\ anchors[k].record_count <= Size(volume)
            /\ volume.lines[anchors[k].record_count].record_hash
                 = anchors[k].worm_root_hash
=============================================================================
