---------------------------- MODULE WormStorage ----------------------------
(***************************************************************************)
(* WormStorageEngine.append() of src/worm.py, one file-system call at a    *)
(* time, run by the threads of one or more processes that keep an engine   *)
(* each on the same storage path.                                          *)
(*                                                                         *)
(* The engine's lock is a threading.Lock of its own, so it excludes the    *)
(* threads of one process only; the temporary file has one fixed name per  *)
(* storage path, so every process opens, truncates, renames and unlinks    *)
(* the same one.                                                           *)
(***************************************************************************)
EXTENDS HashChain

CONSTANTS
    Processes,      \* processes, each with one WormStorageEngine on the path
    Threads,        \* threads that call append()
    ProcessOf,      \* the process a thread belongs to
    NoThread,       \* nobody holds the lock
    Payloads,       \* payloads (non-empty dictionaries)
    Oversized,      \* payloads whose record exceeds MAX_RECORD_SIZE_BYTES
    MaxRecords,     \* MAX_WORM_FILE_SIZE_BYTES, in records
    MaxCrashes,     \* bound: process crashes in a behaviour
    MaxFaults       \* bound: OSErrors in a behaviour

ASSUME ThreadsAssumption ==
    /\ NoThread \notin Threads
    /\ ProcessOf \in [Threads -> Processes]
ASSUME BoundsAssumption ==
    /\ Oversized \subseteq Payloads
    /\ MaxRecords \in Nat /\ MaxCrashes \in Nat /\ MaxFaults \in Nat

VARIABLES
    live,       \* lines of the file at storage_path
    tmpExists,  \* whether storage_path.with_suffix(".worm.tmp") exists
    tmp,        \* lines of that file (<<>> when it does not exist)
    lock,       \* process -> thread that holds the engine's _lock
    pc,         \* thread -> place in append()
    payload,    \* thread -> its argument; meaningless when idle
    prev,       \* thread -> prev_hash
    existing,   \* thread -> existing
    fd,         \* thread -> the file its open descriptor f refers to now
    acked,      \* history: record hashes append() returned, in order
    crashes,    \* history: crashes so far
    faults      \* history: OSErrors so far

files == <<live, tmpExists, tmp>>
locals == <<payload, prev, existing>>
vars == <<files, lock, pc, locals, fd, acked, crashes, faults>>

Lines == LinesOver(Payloads)
Stages == {"idle", "waiting", "locked", "hashed", "sized", "read",
           "opened", "partial", "written", "replaced", "failed"}
Places == {"none", "tmp", "live", "gone"}

TypeOK ==
    /\ live \in Seq(Lines)
    /\ tmpExists \in BOOLEAN
    /\ tmp \in Seq(Lines)
    /\ lock \in [Processes -> Threads \cup {NoThread}]
    /\ pc \in [Threads -> Stages]
    /\ payload \in [Threads -> Payloads]
    /\ prev \in [Threads -> Seq(Payloads)]
    /\ existing \in [Threads -> Seq(Lines)]
    /\ fd \in [Threads -> Places]
    /\ acked \in Seq(Seq(Payloads))
    /\ crashes \in 0..MaxCrashes
    /\ faults \in 0..MaxFaults

\* The engines are constructed: _ensure_storage() has touched the file.
Init ==
    /\ live = <<>>
    /\ tmpExists = FALSE
    /\ tmp = <<>>
    /\ lock = [p \in Processes |-> NoThread]
    /\ pc = [t \in Threads |-> "idle"]
    /\ payload \in {[t \in Threads |-> p] : p \in Payloads}
    /\ prev = [t \in Threads |-> ZeroHash]
    /\ existing = [t \in Threads |-> <<>>]
    /\ fd = [t \in Threads |-> "none"]
    /\ acked = <<>>
    /\ crashes = 0
    /\ faults = 0

\* final_record of the append in flight.
NewRecord(t) == MakeRecord(prev[t], payload[t])
MyLock(t) == lock[ProcessOf[t]]

Goto(t, stage) == pc' = [pc EXCEPT ![t] = stage]

\* Leaving `with self._lock:`, by return or by exception.
Leave(t) ==
    /\ lock' = [lock EXCEPT ![ProcessOf[t]] = NoThread]
    /\ pc' = [pc EXCEPT ![t] = "idle"]
    /\ prev' = [prev EXCEPT ![t] = ZeroHash]
    /\ existing' = [existing EXCEPT ![t] = <<>>]
    /\ UNCHANGED payload

\* append(payload) is called. (A payload that is not a dictionary, or empty,
\* is refused before the lock and changes nothing.)
Call(t, p) ==
    /\ pc[t] = "idle"
    /\ payload' = [payload EXCEPT ![t] = p]
    /\ Goto(t, "waiting")
    /\ UNCHANGED <<files, lock, prev, existing, fd, acked, crashes, faults>>

Acquire(t) ==
    /\ pc[t] = "waiting"
    /\ MyLock(t) = NoThread
    /\ lock' = [lock EXCEPT ![ProcessOf[t]] = t]
    /\ Goto(t, "locked")
    /\ UNCHANGED <<files, locals, fd, acked, crashes, faults>>

\* Variant: the record is linked to the first line, not the last.
ReadFirstHash(t) ==
    /\ pc[t] = "locked"
    /\ prev' = [prev EXCEPT ![t] = IF live = <<>> THEN ZeroHash ELSE live[1].record_hash]
    /\ Goto(t, "hashed")
    /\ UNCHANGED <<lock, payload, existing, files, fd, acked, crashes, faults>>

\* get_last_hash(), the record, and the check of its size. A last line that
\* does not parse raises, and so does an oversized record.
ReadLastHash(t) ==
    /\ pc[t] = "locked"
    /\ IF EndsTorn(live) \/ payload[t] \in Oversized
         THEN Leave(t)
         ELSE /\ prev' = [prev EXCEPT ![t] = LastHash(live)]
              /\ Goto(t, "hashed")
              /\ UNCHANGED <<lock, payload, existing>>
    /\ UNCHANGED <<files, fd, acked, crashes, faults>>

\* _check_size_limit(): stat() of the file as it is now.
CheckSizeLimit(t) ==
    /\ pc[t] = "hashed"
    /\ IF Len(live) + 1 > MaxRecords
         THEN Leave(t)
         ELSE /\ Goto(t, "sized")
              /\ UNCHANGED <<lock, locals>>
    /\ UNCHANGED <<files, fd, acked, crashes, faults>>

ReadExisting(t) ==
    /\ pc[t] = "sized"
    /\ existing' = [existing EXCEPT ![t] = live]
    /\ Goto(t, "read")
    /\ UNCHANGED <<files, lock, payload, prev, fd, acked, crashes, faults>>

\* open(tmp_path, "wb"): a file already there, a leftover of a crash or one
\* that another process is writing, is truncated and shared.
OpenTmp(t) ==
    /\ pc[t] = "read"
    /\ tmpExists' = TRUE
    /\ tmp' = <<>>
    /\ fd' = [fd EXCEPT ![t] = "tmp"]
    /\ Goto(t, "opened")
    /\ UNCHANGED <<live, lock, locals, acked, crashes, faults>>

\* The content of the file behind t's descriptor becomes lines.
WriteThrough(t, lines) ==
    /\ live' = IF fd[t] = "live" THEN Overwrite(live, lines) ELSE live
    /\ tmp' = IF fd[t] = "tmp" THEN Overwrite(tmp, lines) ELSE tmp
    /\ UNCHANGED tmpExists

\* Variant: the record is appended to the live file in place.
WritePartInPlace(t) ==
    /\ pc[t] = "opened"
    /\ live' = Append(live, TornLine)
    /\ Goto(t, "partial")
    /\ UNCHANGED <<tmpExists, tmp, lock, locals, fd, acked, crashes, faults>>

\* Some of the bytes reach the file: all of existing and part of the record.
WritePart(t) ==
    /\ pc[t] = "opened"
    /\ WriteThrough(t, Append(existing[t], TornLine))
    /\ Goto(t, "partial")
    /\ UNCHANGED <<lock, locals, fd, acked, crashes, faults>>

\* The rest of them, flush(), fsync() and the close of the descriptor.
WriteRest(t) ==
    /\ pc[t] = "partial"
    /\ WriteThrough(t, Append(existing[t], NewRecord(t)))
    /\ fd' = [fd EXCEPT ![t] = "none"]
    /\ Goto(t, "written")
    /\ UNCHANGED <<lock, locals, acked, crashes, faults>>

\* os.replace(tmp_path, storage_path): whatever file has the temporary name
\* becomes the live one, and descriptors follow the file they were opened on.
\* With no such file it raises FileNotFoundError, an OSError.
Replace(t) ==
    /\ pc[t] = "written"
    /\ IF tmpExists
         THEN /\ live' = tmp
              /\ tmp' = <<>>
              /\ tmpExists' = FALSE
              /\ fd' = [u \in Threads |->
                          CASE fd[u] = "tmp"  -> "live"
                            [] fd[u] = "live" -> "gone"
                            [] OTHER          -> fd[u]]
              /\ Goto(t, "replaced")
         ELSE /\ Goto(t, "failed")
              /\ UNCHANGED <<files, fd>>
    /\ UNCHANGED <<lock, locals, acked, crashes, faults>>

\* Variant: append() answers once the bytes are synced, before the rename.
ReturnBeforeRename(t) ==
    /\ pc[t] \in {"written", "replaced"}
    /\ acked' = Append(acked, NewRecord(t).record_hash)
    /\ Leave(t)
    /\ UNCHANGED <<files, fd, crashes, faults>>

\* return final_record, and the lock is released on the way out.
Return(t) ==
    /\ pc[t] = "replaced"
    /\ acked' = Append(acked, NewRecord(t).record_hash)
    /\ Leave(t)
    /\ UNCHANGED <<files, fd, crashes, faults>>

\* An OSError while the file is read or measured: nothing to clean up.
FailReading(t) ==
    /\ pc[t] \in {"locked", "hashed"}
    /\ faults < MaxFaults
    /\ faults' = faults + 1
    /\ Leave(t)
    /\ UNCHANGED <<files, fd, acked, crashes>>

\* Variant: a step after the rename, such as a sync of the directory, is put
\* inside the try as well.
FailWritingOrAfter(t) ==
    /\ pc[t] \in {"sized", "read", "opened", "partial", "written", "replaced"}
    /\ faults < MaxFaults
    /\ faults' = faults + 1
    /\ fd' = [fd EXCEPT ![t] = "none"]
    /\ Goto(t, "failed")
    /\ UNCHANGED <<files, lock, locals, acked, crashes>>

\* An OSError between the read of the existing bytes and the rename, the
\* rename itself included: the with block closes the descriptor.
FailWriting(t) ==
    /\ pc[t] \in {"sized", "read", "opened", "partial", "written"}
    /\ faults < MaxFaults
    /\ faults' = faults + 1
    /\ fd' = [fd EXCEPT ![t] = "none"]
    /\ Goto(t, "failed")
    /\ UNCHANGED <<files, lock, locals, acked, crashes>>

\* Variant: the lock is not released when the append raises.
CleanUpHoldingLock(t) ==
    /\ pc[t] = "failed"
    /\ tmpExists' = FALSE
    /\ tmp' = <<>>
    /\ fd' = [u \in Threads |-> IF fd[u] = "tmp" THEN "gone" ELSE fd[u]]
    /\ Goto(t, "idle")
    /\ UNCHANGED <<live, lock, locals, acked, crashes, faults>>

\* except OSError: the temporary file is unlinked, whoever it belongs to, and
\* WormStorageError is raised.
CleanUp(t) ==
    /\ pc[t] = "failed"
    /\ tmpExists' = FALSE
    /\ tmp' = <<>>
    /\ fd' = [u \in Threads |-> IF fd[u] = "tmp" THEN "gone" ELSE fd[u]]
    /\ Leave(t)
    /\ UNCHANGED <<live, acked, crashes, faults>>

\* A process dies and is started again. Its threads, lock and descriptors
\* are gone; the files stay as they are, the temporary one included.
Crash(p) ==
    LET mine == {t \in Threads : ProcessOf[t] = p}
    IN  /\ crashes < MaxCrashes
        /\ \E t \in mine : pc[t] # "idle"
        /\ crashes' = crashes + 1
        /\ lock' = [lock EXCEPT ![p] = NoThread]
        /\ pc' = [t \in Threads |-> IF t \in mine THEN "idle" ELSE pc[t]]
        /\ prev' = [t \in Threads |-> IF t \in mine THEN ZeroHash ELSE prev[t]]
        /\ existing' = [t \in Threads |-> IF t \in mine THEN <<>> ELSE existing[t]]
        /\ fd' = [t \in Threads |-> IF t \in mine THEN "none" ELSE fd[t]]
        /\ UNCHANGED <<files, payload, acked, faults>>

\* What a thread inside append() does when it is scheduled.
Step(t) ==
    \/ ReadLastHash(t)
    \/ CheckSizeLimit(t)
    \/ ReadExisting(t)
    \/ OpenTmp(t)
    \/ WritePart(t)
    \/ WriteRest(t)
    \/ Replace(t)
    \/ Return(t)
    \/ CleanUp(t)

Next ==
    \/ \E t \in Threads :
        \/ \E p \in Payloads : Call(t, p)
        \/ Acquire(t)
        \/ Step(t)
        \/ FailReading(t)
        \/ FailWriting(t)
    \/ \E p \in Processes : Crash(p)

Spec == Init /\ [][Next]_vars

\* The interpreter schedules every thread that can run.
Fairness == \A t \in Threads : WF_vars(Step(t)) /\ WF_vars(Acquire(t))
FairSpec == Spec /\ Fairness

-----------------------------------------------------------------------------
\* All threads share one engine: the deployment the lock is written for.
SingleProcess == \A t, u \in Threads : ProcessOf[t] = ProcessOf[u]

\* The live file is a valid chain in every state, whatever a crash or an
\* OSError interrupts: temp file, fsync and rename leave no partial write.
ChainIntact == VerifyIntegrity(live)

\* "Append-only": no step takes a record out of the live file, alters one or
\* puts one before another.
AppendOnly ==
    [][ /\ Len(live) <= Len(live')
        /\ SubSeq(live', 1, Len(live)) = live ]_vars

\* The cap on the file's size, measured before the bytes are written and
\* without them, still bounds the file after the rename.
WithinSizeLimit == Len(live) <= MaxRecords

\* A record append() returned is in the live file from then on: nobody's
\* rename of a stale copy takes it out again.
AckedRecordsKept ==
    \A i \in 1..Len(acked) : \E j \in 1..Len(live) :
        live[j] # TornLine /\ live[j].record_hash = acked[i]

\* "A failed append leaves the live state unchanged" (src/twin.py) is sound
\* only if the record of an append that is about to raise has not landed.
FailedAppendLeavesNoRecord ==
    \A t \in Threads : pc[t] = "failed" =>
        \A j \in 1..Len(live) : live[j] # NewRecord(t)

\* Every way out of append() gives the lock back, the failing ones included.
LockReleased == \A p \in Processes : lock[p] # NoThread ~> lock[p] = NoThread

-----------------------------------------------------------------------------
\* The inductive invariant behind these properties, for the threads of one
\* process. What the thread that holds the lock has read is still what the
\* file holds, the temporary file is exactly what it has written so far, and
\* the length of a record's hash is its place in the chain, so that two
\* records never share one.
Inside(t) == pc[t] \notin {"idle", "waiting"}
Mutex == \A t \in Threads : Inside(t) <=> MyLock(t) = t

HasHash == {"hashed", "sized", "read", "opened", "partial", "written", "failed"}
HasRoom == {"sized", "read", "opened", "partial", "written"}
HasExisting == {"read", "opened", "partial", "written"}
UpToDate(t) ==
    /\ pc[t] \in HasHash => prev[t] = LastHash(live)
    /\ pc[t] \in HasRoom => Len(live) < MaxRecords
    /\ pc[t] \in HasExisting => existing[t] = live
    /\ pc[t] = "opened" => tmp = <<>>
    /\ pc[t] = "partial" => tmp = Append(live, TornLine)
    /\ pc[t] = "written" => tmp = Append(live, NewRecord(t))
    /\ pc[t] = "replaced" => /\ live # <<>>
                             /\ live[Len(live)] = NewRecord(t)
                             /\ \A i \in 1..Len(acked) :
                                    acked[i] # NewRecord(t).record_hash
    /\ fd[t] = IF pc[t] \in {"opened", "partial"} THEN "tmp" ELSE "none"

Numbered == \A i \in 1..Len(live) : Len(live[i].record_hash) = i

ChainInv ==
    /\ live \in Seq(RecordsOver(Payloads))
    /\ ChainIntact
    /\ Numbered

IInv ==
    /\ TypeOK
    /\ Mutex
    /\ \A t \in Threads : UpToDate(t)
    /\ ChainInv
    /\ WithinSizeLimit
    /\ AckedRecordsKept

\* The engine implements the append-only log its callers rely on.
Log == INSTANCE AppendOnlyLog WITH log <- live
ImplementsLog == Log!LogSpec
=============================================================================
