------------------------- MODULE WormStorageProofs -------------------------
(***************************************************************************)
(* Proofs about WormStorage: for any number of threads of one process, any *)
(* payloads, any size limit and any number of crashes and OSErrors, the    *)
(* file is an append-only hash chain that keeps every acknowledged record. *)
(***************************************************************************)
EXTENDS WormStorage, DataLemmas

-----------------------------------------------------------------------------
(* The inductive invariant. *)

\* The engine starts in a state of the right type, whatever the deployment.
LEMMA InitTypeOK == Init => TypeOK
  <1> SUFFICES ASSUME Init PROVE TypeOK
    OBVIOUS
  <1> USE ThreadsAssumption, BoundsAssumption DEF Init
  <1>1. live \in Seq(Lines) /\ tmp \in Seq(Lines)
    OBVIOUS
  <1>0. tmpExists \in BOOLEAN
    OBVIOUS
  <1>2. lock \in [Processes -> Threads \cup {NoThread}] /\ pc \in [Threads -> Stages]
    BY DEF Stages
  <1>3. payload \in [Threads -> Payloads] /\ prev \in [Threads -> Seq(Payloads)]
    BY DEF ZeroHash
  <1>4. existing \in [Threads -> Seq(Lines)] /\ fd \in [Threads -> Places]
    BY DEF Places
  <1>5. acked \in Seq(Seq(Payloads)) /\ crashes \in 0..MaxCrashes /\ faults \in 0..MaxFaults
    OBVIOUS
  <1>6. QED
    BY <1>0, <1>1, <1>2, <1>3, <1>4, <1>5 DEF TypeOK

\* The record in flight and the lines written for it are of the right type.
LEMMA InFlightType ==
    ASSUME TypeOK, NEW t \in Threads
    PROVE  /\ NewRecord(t) \in RecordsOver(Payloads)
           /\ NewRecord(t).record_hash \in Seq(Payloads)
           /\ Append(existing[t], NewRecord(t)) \in Seq(Lines)
           /\ Append(existing[t], TornLine) \in Seq(Lines)
  <1>1. NewRecord(t) \in RecordsOver(Payloads)
    BY MakeRecordType DEF TypeOK, NewRecord
  <1>2. NewRecord(t).record_hash \in Seq(Payloads)
    BY <1>1 DEF RecordsOver
  <1>3. NewRecord(t) \in Lines /\ TornLine \in Lines
    BY <1>1 DEF Lines, LinesOver
  <1>4. QED
    BY <1>1, <1>2, <1>3 DEF TypeOK

\* Leaving append() keeps the lock and the thread's variables well typed.
LEMMA LeaveType ==
    ASSUME TypeOK, NEW t \in Threads, Leave(t)
    PROVE  /\ lock' \in [Processes -> Threads \cup {NoThread}]
           /\ pc' \in [Threads -> Stages]
           /\ payload' \in [Threads -> Payloads]
           /\ prev' \in [Threads -> Seq(Payloads)]
           /\ existing' \in [Threads -> Seq(Lines)]
  <1>1. lock' \in [Processes -> Threads \cup {NoThread}]
    BY ThreadsAssumption DEF TypeOK, Leave
  <1>2. pc' \in [Threads -> Stages] /\ payload' \in [Threads -> Payloads]
    BY DEF TypeOK, Leave, Stages
  <1>3. ZeroHash \in Seq(Payloads) /\ <<>> \in Seq(Lines)
    BY DEF ZeroHash
  <1>4. prev' \in [Threads -> Seq(Payloads)] /\ existing' \in [Threads -> Seq(Lines)]
    BY <1>3 DEF TypeOK, Leave
  <1>5. QED
    BY <1>1, <1>2, <1>4

\* Type correctness is preserved by every step, whatever the deployment.
LEMMA NextTypeOK == TypeOK /\ [Next]_vars => TypeOK'
  <1> SUFFICES ASSUME TypeOK, [Next]_vars PROVE TypeOK'
    OBVIOUS
  <1> USE ThreadsAssumption, BoundsAssumption
  <1> USE DEF TypeOK, files, locals, Goto, Leave
  <1>1. ASSUME NEW t \in Threads, NEW p \in Payloads, Call(t, p) PROVE TypeOK'
    BY <1>1 DEF Call, Stages
  <1>2. ASSUME NEW t \in Threads, Acquire(t) PROVE TypeOK'
    BY <1>2 DEF Acquire, Stages
  <1>3. ASSUME NEW t \in Threads, ReadLastHash(t) PROVE TypeOK'
    <2>1. UNCHANGED <<live, tmpExists, tmp, fd, acked, crashes, faults>>
      BY <1>3 DEF ReadLastHash
    <2>2. CASE EndsTorn(live) \/ payload[t] \in Oversized
      <3>1. Leave(t)
        BY <2>2, <1>3 DEF ReadLastHash
      <3>2. QED
        BY <2>1, <3>1, LeaveType
    <2>3. CASE ~(EndsTorn(live) \/ payload[t] \in Oversized)
      <3>1. LastHash(live) \in Seq(Payloads)
        BY <2>3, LastHashType DEF Lines
      <3>2. /\ prev' = [prev EXCEPT ![t] = LastHash(live)]
            /\ pc' = [pc EXCEPT ![t] = "hashed"]
            /\ UNCHANGED <<lock, payload, existing>>
        BY <2>3, <1>3 DEF ReadLastHash
      <3>3. QED
        BY <2>1, <3>1, <3>2 DEF Stages
    <2>4. QED
      BY <2>2, <2>3
  <1>4. ASSUME NEW t \in Threads, CheckSizeLimit(t) PROVE TypeOK'
    <2>1. UNCHANGED <<live, tmpExists, tmp, fd, acked, crashes, faults>>
      BY <1>4 DEF CheckSizeLimit
    <2>2. CASE Len(live) + 1 > MaxRecords
      <3>1. Leave(t)
        BY <2>2, <1>4 DEF CheckSizeLimit
      <3>2. QED
        BY <2>1, <3>1, LeaveType
    <2>3. CASE ~(Len(live) + 1 > MaxRecords)
      <3>1. pc' \in [Threads -> Stages]
        BY <2>3, <1>4 DEF CheckSizeLimit, Stages
      <3>2. UNCHANGED <<lock, payload, prev, existing>>
        BY <2>3, <1>4 DEF CheckSizeLimit
      <3>3. QED
        BY <2>1, <3>1, <3>2
    <2>4. QED
      BY <2>2, <2>3
  <1>5. ASSUME NEW t \in Threads, ReadExisting(t) PROVE TypeOK'
    BY <1>5 DEF ReadExisting, Stages
  <1>6. ASSUME NEW t \in Threads, OpenTmp(t) PROVE TypeOK'
    BY <1>6 DEF OpenTmp, Stages, Places
  <1>7. ASSUME NEW t \in Threads, WritePart(t) PROVE TypeOK'
    <2> DEFINE lines == Append(existing[t], TornLine)
    <2>1. lines \in Seq(Lines)
      BY InFlightType
    <2>2. Overwrite(live, lines) \in Seq(Lines) /\ Overwrite(tmp, lines) \in Seq(Lines)
      BY <2>1, OverwriteType
    <2>3. live' \in Seq(Lines) /\ tmp' \in Seq(Lines) /\ tmpExists' \in BOOLEAN
      BY <2>2, <1>7 DEF WritePart, WriteThrough
    <2>4. QED
      BY <2>3, <1>7 DEF WritePart, Stages, Places
  <1>8. ASSUME NEW t \in Threads, WriteRest(t) PROVE TypeOK'
    <2> DEFINE lines == Append(existing[t], NewRecord(t))
    <2>1. lines \in Seq(Lines)
      BY InFlightType
    <2>2. Overwrite(live, lines) \in Seq(Lines) /\ Overwrite(tmp, lines) \in Seq(Lines)
      BY <2>1, OverwriteType
    <2>3. live' \in Seq(Lines) /\ tmp' \in Seq(Lines) /\ tmpExists' \in BOOLEAN
      BY <2>2, <1>8 DEF WriteRest, WriteThrough
    <2>4. QED
      BY <2>3, <1>8 DEF WriteRest, Stages, Places
  <1>9. ASSUME NEW t \in Threads, Replace(t) PROVE TypeOK'
    <2>1. UNCHANGED <<lock, payload, prev, existing, acked, crashes, faults>>
      BY <1>9 DEF Replace
    <2>2. CASE tmpExists
      <3>1. live' \in Seq(Lines) /\ tmp' \in Seq(Lines)
        BY <1>9, <2>2 DEF Replace
      <3>2. fd' \in [Threads -> Places]
        BY <1>9, <2>2 DEF Replace, Places
      <3>3. pc' \in [Threads -> Stages]
        BY <1>9, <2>2 DEF Replace, Stages
      <3>4. tmpExists' \in BOOLEAN
        BY <1>9, <2>2 DEF Replace
      <3>5. QED
        BY <2>1, <3>1, <3>2, <3>3, <3>4
    <2>3. CASE ~tmpExists
      <3>1. UNCHANGED <<live, tmpExists, tmp, fd>>
        BY <1>9, <2>3 DEF Replace
      <3>2. pc' \in [Threads -> Stages]
        BY <1>9, <2>3 DEF Replace, Stages
      <3>3. QED
        BY <2>1, <3>1, <3>2
    <2>4. QED
      BY <2>2, <2>3
  <1>10. ASSUME NEW t \in Threads, Return(t) PROVE TypeOK'
    <2>1. acked' \in Seq(Seq(Payloads))
      BY <1>10, InFlightType DEF Return
    <2>2. QED
      BY <2>1, <1>10 DEF Return, Stages, ZeroHash
  <1>11. ASSUME NEW t \in Threads, FailReading(t) PROVE TypeOK'
    BY <1>11 DEF FailReading, Stages, ZeroHash
  <1>12. ASSUME NEW t \in Threads, FailWriting(t) PROVE TypeOK'
    BY <1>12 DEF FailWriting, Stages, Places
  <1>13. ASSUME NEW t \in Threads, CleanUp(t) PROVE TypeOK'
    <2>1. /\ tmp' \in Seq(Lines) /\ fd' \in [Threads -> Places]
          /\ UNCHANGED <<live, acked, crashes, faults>>
      BY <1>13 DEF CleanUp, Places
    <2>2. tmpExists' \in BOOLEAN
      BY <1>13 DEF CleanUp
    <2>3. Leave(t)
      BY <1>13 DEF CleanUp
    <2>4. QED
      BY <2>1, <2>2, <2>3, LeaveType
  <1>14. ASSUME NEW p \in Processes, Crash(p) PROVE TypeOK'
    BY <1>14 DEF Crash, Stages, Places, ZeroHash
  <1>15. CASE UNCHANGED vars
    BY <1>15 DEF vars
  <1>16. QED
    BY <1>1, <1>2, <1>3, <1>4, <1>5, <1>6, <1>7, <1>8, <1>9, <1>10, <1>11, <1>12, <1>13, <1>14, <1>15 DEF Next, Step

\* Every reachable state of every deployment is well typed.
THEOREM TypeCorrect == Spec => []TypeOK
  <1>1. QED
    BY InitTypeOK, NextTypeOK, PTL DEF Spec
-----------------------------------------------------------------------------
(* One process: the lock makes the file the property of one thread. *)

\* A thread is between acquiring and releasing the lock exactly when the lock
\* is its own, whatever the deployment.
LEMMA NextMutex == TypeOK /\ Mutex /\ [Next]_vars => Mutex'
  <1> SUFFICES ASSUME TypeOK, Mutex, [Next]_vars, NEW u \in Threads
               PROVE  (Inside(u) <=> MyLock(u) = u)'
    BY DEF Mutex
  <1> USE ThreadsAssumption DEF TypeOK, Mutex, Inside, MyLock, Goto, Leave
  <1>1. ASSUME NEW t \in Threads, NEW p \in Payloads, Call(t, p) PROVE (Inside(u) <=> MyLock(u) = u)'
    BY <1>1 DEF Call
  <1>2. ASSUME NEW t \in Threads, Acquire(t) PROVE (Inside(u) <=> MyLock(u) = u)'
    BY <1>2 DEF Acquire
  <1>3. ASSUME NEW t \in Threads, ReadLastHash(t) PROVE (Inside(u) <=> MyLock(u) = u)'
    <2>1. pc[t] \notin {"idle", "waiting"}
      BY <1>3 DEF ReadLastHash
    <2>2. CASE Leave(t)
      BY <2>1, <2>2
    <2>3. CASE pc' = [pc EXCEPT ![t] = "hashed"] /\ lock' = lock
      BY <2>1, <2>3
    <2>4. QED
      BY <2>2, <2>3, <1>3 DEF ReadLastHash
  <1>4. ASSUME NEW t \in Threads, CheckSizeLimit(t) PROVE (Inside(u) <=> MyLock(u) = u)'
    <2>1. pc[t] \notin {"idle", "waiting"}
      BY <1>4 DEF CheckSizeLimit
    <2>2. CASE Leave(t)
      BY <2>1, <2>2
    <2>3. CASE pc' = [pc EXCEPT ![t] = "sized"] /\ lock' = lock
      BY <2>1, <2>3
    <2>4. QED
      BY <2>2, <2>3, <1>4 DEF CheckSizeLimit
  <1>5. ASSUME NEW t \in Threads, ReadExisting(t) PROVE (Inside(u) <=> MyLock(u) = u)'
    BY <1>5 DEF ReadExisting
  <1>6. ASSUME NEW t \in Threads, OpenTmp(t) PROVE (Inside(u) <=> MyLock(u) = u)'
    BY <1>6 DEF OpenTmp
  <1>7. ASSUME NEW t \in Threads, WritePart(t) PROVE (Inside(u) <=> MyLock(u) = u)'
    BY <1>7 DEF WritePart
  <1>8. ASSUME NEW t \in Threads, WriteRest(t) PROVE (Inside(u) <=> MyLock(u) = u)'
    BY <1>8 DEF WriteRest
  <1>9. ASSUME NEW t \in Threads, Replace(t) PROVE (Inside(u) <=> MyLock(u) = u)'
    BY <1>9 DEF Replace
  <1>10. ASSUME NEW t \in Threads, Return(t) PROVE (Inside(u) <=> MyLock(u) = u)'
    BY <1>10 DEF Return
  <1>11. ASSUME NEW t \in Threads, FailReading(t) PROVE (Inside(u) <=> MyLock(u) = u)'
    BY <1>11 DEF FailReading
  <1>12. ASSUME NEW t \in Threads, FailWriting(t) PROVE (Inside(u) <=> MyLock(u) = u)'
    BY <1>12 DEF FailWriting
  <1>13. ASSUME NEW t \in Threads, CleanUp(t) PROVE (Inside(u) <=> MyLock(u) = u)'
    BY <1>13 DEF CleanUp
  <1>14. ASSUME NEW p \in Processes, Crash(p) PROVE (Inside(u) <=> MyLock(u) = u)'
    BY <1>14 DEF Crash
  <1>15. CASE UNCHANGED vars
    BY <1>15 DEF vars
  <1>16. QED
    BY <1>1, <1>2, <1>3, <1>4, <1>5, <1>6, <1>7, <1>8, <1>9, <1>10, <1>11, <1>12, <1>13, <1>14, <1>15 DEF Next, Step

\* When a thread of the one process is inside append(), no other one is, and
\* no other one has the temporary file open.
LEMMA Alone ==
    ASSUME SingleProcess, TypeOK, Mutex, NEW t \in Threads, Inside(t),
           NEW u \in Threads, u # t, UpToDate(u)
    PROVE  pc[u] \in {"idle", "waiting"} /\ fd[u] = "none"
  <1>1. MyLock(t) = t /\ MyLock(u) = t
    BY DEF Mutex, MyLock, SingleProcess
  <1>2. pc[u] \in {"idle", "waiting"}
    BY <1>1 DEF Mutex, Inside
  <1>3. QED
    BY <1>2 DEF UpToDate

\* Nothing is asked of a thread that is outside append() but a closed file.
LEMMA OutsideUpToDate ==
    ASSUME NEW u \in Threads, pc'[u] \in {"idle", "waiting"}, fd'[u] = "none"
    PROVE  UpToDate(u)'
  BY DEF UpToDate, HasHash, HasRoom, HasExisting

\* A record chained to the last hash has a hash no append() has returned: it
\* is longer than every hash in the file.
LEMMA NewHashIsNew ==
    ASSUME TypeOK, ChainInv, AckedRecordsKept, NEW t \in Threads,
           prev[t] = LastHash(live)
    PROVE  /\ \A i \in 1..Len(acked) : acked[i] # NewRecord(t).record_hash
           /\ \A j \in 1..Len(live) : live[j] # NewRecord(t)
  <1>1. LastHash(live) \in Seq(Payloads) /\ Len(LastHash(live)) = Len(live)
    <2>1. LastHash(live) \in Seq(Payloads)
      BY LastHashType, RecordsAreLines DEF ChainInv, ChainIntact
    <2>2. Len(LastHash(live)) = Len(live)
      BY DEF ChainInv, Numbered, LastHash, ZeroHash
    <2>3. QED
      BY <2>1, <2>2
  <1>2. NewRecord(t).record_hash = Append(LastHash(live), payload[t])
    BY DEF NewRecord, MakeRecord, Hash
  <1>3. Len(NewRecord(t).record_hash) = Len(live) + 1
    BY <1>1, <1>2 DEF TypeOK
  <1>4. \A j \in 1..Len(live) : Len(live[j].record_hash) # Len(live) + 1
    BY DEF ChainInv, Numbered
  <1>5. QED
    BY <1>3, <1>4 DEF AckedRecordsKept

\* What the lock holder knows of the files stays true: nobody else moves them.
LEMMA NextUpToDate ==
    ASSUME SingleProcess, IInv, [Next]_vars
    PROVE  \A u \in Threads : UpToDate(u)'
  <1> USE DEF Goto, locals, files
  <1>t. /\ pc \in [Threads -> Stages] /\ fd \in [Threads -> Places]
        /\ prev \in [Threads -> Seq(Payloads)] /\ payload \in [Threads -> Payloads]
        /\ existing \in [Threads -> Seq(Lines)]
    BY DEF IInv, TypeOK
  <1>0. TypeOK /\ Mutex /\ (\A t \in Threads : UpToDate(t)) /\ ChainInv /\ AckedRecordsKept
    BY DEF IInv
  <1>1. ASSUME NEW t \in Threads, NEW p \in Payloads, Call(t, p) PROVE \A u \in Threads : UpToDate(u)'
    <2>1. \A u \in Threads : u # t => UpToDate(u)'
      BY <1>0, <1>t, <1>1 DEF Call, UpToDate, NewRecord
    <2>2. UpToDate(t)'
      BY <1>0, <1>t, <1>1 DEF Call, UpToDate, HasHash, HasRoom, HasExisting
    <2>3. QED
      BY <2>1, <2>2
  <1>2. ASSUME NEW t \in Threads, Acquire(t) PROVE \A u \in Threads : UpToDate(u)'
    <2>1. \A u \in Threads : u # t => UpToDate(u)'
      BY <1>0, <1>t, <1>2 DEF Acquire, UpToDate, NewRecord
    <2>2. UpToDate(t)'
      BY <1>0, <1>t, <1>2 DEF Acquire, UpToDate, HasHash, HasRoom, HasExisting
    <2>3. QED
      BY <2>1, <2>2
  <1>3. ASSUME NEW t \in Threads, ReadLastHash(t) PROVE \A u \in Threads : UpToDate(u)'
    <2>1. Inside(t)
      BY <1>3 DEF ReadLastHash, Inside
    <2>a. \/ Leave(t)
          \/ /\ prev' = [prev EXCEPT ![t] = LastHash(live)]
             /\ Goto(t, "hashed")
      BY <1>3 DEF ReadLastHash
    <2>b. UNCHANGED <<live, fd>>
      BY <1>3 DEF ReadLastHash
    <2>2. \A u \in Threads : u # t => pc[u] \in {"idle", "waiting"} /\ fd[u] = "none"
      BY <1>0, <2>1, Alone
    <2>3. \A u \in Threads : u # t => pc'[u] = pc[u] /\ fd'[u] = "none"
      BY <2>a, <2>b, <1>t, <2>2 DEF Leave
    <2>4. \A u \in Threads : u # t => UpToDate(u)'
      BY <2>2, <2>3, OutsideUpToDate
    <2>5. UpToDate(t)'
      <3>1. fd'[t] = "none"
        BY <1>0, <1>t, <1>3 DEF ReadLastHash, UpToDate
      <3>2. CASE Leave(t)
        BY <3>1, <3>2, <1>t, OutsideUpToDate DEF Leave
      <3>3. CASE prev' = [prev EXCEPT ![t] = LastHash(live)] /\ Goto(t, "hashed")
        <4>1. pc'[t] = "hashed" /\ prev'[t] = LastHash(live') /\ live' = live
          BY <3>3, <2>b, <1>t
        <4>2. QED
          BY <3>1, <4>1 DEF UpToDate, HasRoom, HasExisting
      <3>4. QED
        BY <3>2, <3>3, <2>a
    <2>6. QED
      BY <2>4, <2>5
  <1>4. ASSUME NEW t \in Threads, CheckSizeLimit(t) PROVE \A u \in Threads : UpToDate(u)'
    <2>1. Inside(t)
      BY <1>4 DEF CheckSizeLimit, Inside
    <2>0. live \in Seq(Lines) /\ MaxRecords \in Nat
      BY <1>0, BoundsAssumption DEF TypeOK
    <2>a. \/ Leave(t)
          \/ Goto(t, "sized") /\ UNCHANGED <<lock, locals>> /\ Len(live) < MaxRecords
      BY <1>4, <2>0 DEF CheckSizeLimit
    <2>b. UNCHANGED <<live, fd>>
      BY <1>4 DEF CheckSizeLimit
    <2>2. \A u \in Threads : u # t => pc[u] \in {"idle", "waiting"} /\ fd[u] = "none"
      BY <1>0, <2>1, Alone
    <2>3. \A u \in Threads : u # t => pc'[u] = pc[u] /\ fd'[u] = "none"
      BY <2>a, <2>b, <1>t, <2>2 DEF Leave
    <2>4. \A u \in Threads : u # t => UpToDate(u)'
      BY <2>2, <2>3, OutsideUpToDate
    <2>5. UpToDate(t)'
      <3>1. fd'[t] = "none"
        BY <1>0, <1>t, <1>4 DEF CheckSizeLimit, UpToDate
      <3>2. CASE Leave(t)
        BY <3>1, <3>2, <1>t, OutsideUpToDate DEF Leave
      <3>3. CASE Goto(t, "sized") /\ UNCHANGED <<lock, locals>> /\ Len(live) < MaxRecords
        <4>1. pc'[t] = "sized" /\ prev'[t] = LastHash(live') /\ Len(live') < MaxRecords
          BY <1>0, <1>t, <3>3, <2>b, <1>4 DEF CheckSizeLimit, UpToDate, HasHash, HasRoom
        <4>2. QED
          BY <3>1, <4>1 DEF UpToDate, HasRoom, HasExisting
      <3>4. QED
        BY <3>2, <3>3, <2>a
    <2>6. QED
      BY <2>4, <2>5
  <1>5. ASSUME NEW t \in Threads, ReadExisting(t) PROVE \A u \in Threads : UpToDate(u)'
    <2>1. Inside(t)
      BY <1>5 DEF ReadExisting, Inside
    <2>2. \A u \in Threads : u # t => pc[u] \in {"idle", "waiting"} /\ fd[u] = "none"
      BY <1>0, <2>1, Alone
    <2>3. \A u \in Threads : u # t => pc'[u] = pc[u] /\ fd'[u] = "none"
      BY <1>5, <1>t, <2>2 DEF ReadExisting, Leave
    <2>4. \A u \in Threads : u # t => UpToDate(u)'
      BY <2>2, <2>3, OutsideUpToDate
    <2>5. UpToDate(t)'
      BY <1>0, <1>t, <1>5 DEF ReadExisting, UpToDate, HasHash, HasRoom
    <2>6. QED
      BY <2>4, <2>5
  <1>6. ASSUME NEW t \in Threads, OpenTmp(t) PROVE \A u \in Threads : UpToDate(u)'
    <2>1. Inside(t)
      BY <1>6 DEF OpenTmp, Inside
    <2>2. \A u \in Threads : u # t => pc[u] \in {"idle", "waiting"} /\ fd[u] = "none"
      BY <1>0, <2>1, Alone
    <2>3. \A u \in Threads : u # t => pc'[u] = pc[u] /\ fd'[u] = "none"
      BY <1>6, <1>t, <2>2 DEF OpenTmp, Leave
    <2>4. \A u \in Threads : u # t => UpToDate(u)'
      BY <2>2, <2>3, OutsideUpToDate
    <2>5. UpToDate(t)'
      BY <1>0, <1>t, <1>6 DEF OpenTmp, UpToDate, HasHash, HasRoom, HasExisting
    <2>6. QED
      BY <2>4, <2>5
  <1>7. ASSUME NEW t \in Threads, WritePart(t) PROVE \A u \in Threads : UpToDate(u)'
    <2>1. Inside(t)
      BY <1>7 DEF WritePart, Inside
    <2>2. \A u \in Threads : u # t => pc[u] \in {"idle", "waiting"} /\ fd[u] = "none"
      BY <1>0, <2>1, Alone
    <2>3. \A u \in Threads : u # t => pc'[u] = pc[u] /\ fd'[u] = "none"
      BY <1>7, <1>t, <2>2 DEF WritePart, Leave
    <2>4. \A u \in Threads : u # t => UpToDate(u)'
      BY <2>2, <2>3, OutsideUpToDate
    <2>5. UpToDate(t)'
      <3> DEFINE lines == Append(existing[t], TornLine)
      <3>1. /\ fd[t] = "tmp" /\ existing[t] = live /\ prev[t] = LastHash(live)
            /\ Len(live) < MaxRecords
            /\ tmp = <<>>
        BY <1>0, <1>t, <1>7 DEF WritePart, UpToDate, HasHash, HasRoom, HasExisting
      <3>2. lines \in Seq(Lines) /\ Len(tmp) <= Len(lines)
        BY <1>0, <1>t, <3>1, InFlightType
      <3>3. tmp' = lines /\ live' = live
        <4>1. tmp \in Seq(Lines)
          BY <1>0 DEF TypeOK
        <4>2. Overwrite(tmp, lines) = lines
          BY <4>1, <3>2, OverwriteLonger
        <4>3. QED
          BY <3>1, <4>2, <1>7 DEF WritePart, WriteThrough
      <3>4. /\ pc'[t] = "partial" /\ fd'[t] = "tmp"
            /\ UNCHANGED <<prev, existing, payload>>
        BY <3>1, <1>t, <1>7 DEF WritePart
      <3>5. QED
        BY <3>1, <3>3, <3>4 DEF UpToDate, HasHash, HasRoom, HasExisting, NewRecord
    <2>6. QED
      BY <2>4, <2>5
  <1>8. ASSUME NEW t \in Threads, WriteRest(t) PROVE \A u \in Threads : UpToDate(u)'
    <2>1. Inside(t)
      BY <1>8 DEF WriteRest, Inside
    <2>2. \A u \in Threads : u # t => pc[u] \in {"idle", "waiting"} /\ fd[u] = "none"
      BY <1>0, <2>1, Alone
    <2>3. \A u \in Threads : u # t => pc'[u] = pc[u] /\ fd'[u] = "none"
      BY <1>8, <1>t, <2>2 DEF WriteRest, Leave
    <2>4. \A u \in Threads : u # t => UpToDate(u)'
      BY <2>2, <2>3, OutsideUpToDate
    <2>5. UpToDate(t)'
      <3> DEFINE lines == Append(existing[t], NewRecord(t))
      <3>1. /\ fd[t] = "tmp" /\ existing[t] = live /\ prev[t] = LastHash(live)
            /\ Len(live) < MaxRecords
            /\ tmp = Append(live, TornLine)
        BY <1>0, <1>t, <1>8 DEF WriteRest, UpToDate, HasHash, HasRoom, HasExisting
      <3>2. lines \in Seq(Lines) /\ Len(tmp) <= Len(lines)
        BY <1>0, <1>t, <3>1, InFlightType
      <3>3. tmp' = lines /\ live' = live
        <4>1. tmp \in Seq(Lines)
          BY <1>0 DEF TypeOK
        <4>2. Overwrite(tmp, lines) = lines
          BY <4>1, <3>2, OverwriteLonger
        <4>3. QED
          BY <3>1, <4>2, <1>8 DEF WriteRest, WriteThrough
      <3>4. /\ pc'[t] = "written" /\ fd'[t] = "none"
            /\ UNCHANGED <<prev, existing, payload>>
        BY <3>1, <1>t, <1>8 DEF WriteRest
      <3>5. QED
        BY <3>1, <3>3, <3>4 DEF UpToDate, HasHash, HasRoom, HasExisting, NewRecord
    <2>6. QED
      BY <2>4, <2>5
  <1>9. ASSUME NEW t \in Threads, Replace(t) PROVE \A u \in Threads : UpToDate(u)'
    <2>1. Inside(t)
      BY <1>9 DEF Replace, Inside
    <2>2. \A u \in Threads : u # t => pc[u] \in {"idle", "waiting"} /\ fd[u] = "none"
      BY <1>0, <2>1, Alone
    <2>3. \A u \in Threads : u # t => pc'[u] = pc[u] /\ fd'[u] = "none"
      BY <1>9, <1>t, <2>2 DEF Replace, Leave
    <2>4. \A u \in Threads : u # t => UpToDate(u)'
      BY <2>2, <2>3, OutsideUpToDate
    <2>5. UpToDate(t)'
      <3>1. /\ fd[t] = "none" /\ prev[t] = LastHash(live)
            /\ tmp = Append(live, NewRecord(t))
        BY <1>0, <1>t, <1>9 DEF Replace, UpToDate, HasHash, HasRoom
      <3>2. UNCHANGED <<prev, payload, acked>> /\ fd'[t] = "none"
        BY <3>1, <1>t, <1>9 DEF Replace
      <3>3. CASE tmpExists
        <4>1. live' = Append(live, NewRecord(t)) /\ pc'[t] = "replaced"
          BY <3>1, <3>3, <1>t, <1>9 DEF Replace
        <4>2. live' # <<>> /\ live'[Len(live')] = NewRecord(t)
          BY <4>1, <1>0, InFlightType DEF ChainInv
        <4>3. NewRecord(t)' = NewRecord(t)
          BY <3>2 DEF NewRecord
        <4>4. \A i \in 1..Len(acked) : acked[i] # NewRecord(t).record_hash
          BY <1>0, <1>t, <3>1, NewHashIsNew
        <4>5. QED
          BY <3>2, <4>1, <4>2, <4>3, <4>4 DEF UpToDate, HasHash, HasRoom, HasExisting
      <3>4. CASE ~tmpExists
        <4>1. pc'[t] = "failed" /\ live' = live
          BY <3>4, <1>t, <1>9 DEF Replace
        <4>2. QED
          BY <3>1, <3>2, <4>1 DEF UpToDate, HasRoom, HasExisting
      <3>5. QED
        BY <3>3, <3>4
    <2>6. QED
      BY <2>4, <2>5
  <1>10. ASSUME NEW t \in Threads, Return(t) PROVE \A u \in Threads : UpToDate(u)'
    <2>1. Inside(t)
      BY <1>10 DEF Return, Inside
    <2>2. \A u \in Threads : u # t => pc[u] \in {"idle", "waiting"} /\ fd[u] = "none"
      BY <1>0, <2>1, Alone
    <2>3. \A u \in Threads : u # t => pc'[u] = pc[u] /\ fd'[u] = "none"
      BY <1>10, <1>t, <2>2 DEF Return, Leave
    <2>4. \A u \in Threads : u # t => UpToDate(u)'
      BY <2>2, <2>3, OutsideUpToDate
    <2>5. UpToDate(t)'
      <3>1. pc'[t] = "idle" /\ fd'[t] = "none"
        BY <1>0, <1>t, <1>10 DEF Return, Leave, UpToDate
      <3>2. QED
        BY <3>1, OutsideUpToDate
    <2>6. QED
      BY <2>4, <2>5
  <1>11. ASSUME NEW t \in Threads, FailReading(t) PROVE \A u \in Threads : UpToDate(u)'
    <2>1. Inside(t)
      BY <1>11 DEF FailReading, Inside
    <2>2. \A u \in Threads : u # t => pc[u] \in {"idle", "waiting"} /\ fd[u] = "none"
      BY <1>0, <2>1, Alone
    <2>3. \A u \in Threads : u # t => pc'[u] = pc[u] /\ fd'[u] = "none"
      BY <1>11, <1>t, <2>2 DEF FailReading, Leave
    <2>4. \A u \in Threads : u # t => UpToDate(u)'
      BY <2>2, <2>3, OutsideUpToDate
    <2>5. UpToDate(t)'
      <3>1. pc'[t] = "idle" /\ fd'[t] = "none"
        BY <1>0, <1>t, <1>11 DEF FailReading, Leave, UpToDate
      <3>2. QED
        BY <3>1, OutsideUpToDate
    <2>6. QED
      BY <2>4, <2>5
  <1>12. ASSUME NEW t \in Threads, FailWriting(t) PROVE \A u \in Threads : UpToDate(u)'
    <2>1. Inside(t)
      BY <1>12 DEF FailWriting, Inside
    <2>2. \A u \in Threads : u # t => pc[u] \in {"idle", "waiting"} /\ fd[u] = "none"
      BY <1>0, <2>1, Alone
    <2>3. \A u \in Threads : u # t => pc'[u] = pc[u] /\ fd'[u] = "none"
      BY <1>12, <1>t, <2>2 DEF FailWriting, Leave
    <2>4. \A u \in Threads : u # t => UpToDate(u)'
      BY <2>2, <2>3, OutsideUpToDate
    <2>5. UpToDate(t)'
      BY <1>0, <1>t, <1>12 DEF FailWriting, UpToDate, HasHash, HasRoom, HasExisting
    <2>6. QED
      BY <2>4, <2>5
  <1>13. ASSUME NEW t \in Threads, CleanUp(t) PROVE \A u \in Threads : UpToDate(u)'
    <2>1. Inside(t)
      BY <1>13 DEF CleanUp, Inside
    <2>2. \A u \in Threads : u # t => pc[u] \in {"idle", "waiting"} /\ fd[u] = "none"
      BY <1>0, <2>1, Alone
    <2>3. \A u \in Threads : u # t => pc'[u] = pc[u] /\ fd'[u] = "none"
      BY <1>13, <1>t, <2>2 DEF CleanUp, Leave
    <2>4. \A u \in Threads : u # t => UpToDate(u)'
      BY <2>2, <2>3, OutsideUpToDate
    <2>5. UpToDate(t)'
      <3>1. pc'[t] = "idle" /\ fd'[t] = "none"
        BY <1>0, <1>t, <1>13 DEF CleanUp, Leave, UpToDate
      <3>2. QED
        BY <3>1, OutsideUpToDate
    <2>6. QED
      BY <2>4, <2>5
  <1>14. ASSUME NEW p \in Processes, Crash(p) PROVE \A u \in Threads : UpToDate(u)'
    <2>1. \A u \in Threads : ProcessOf[u] = p
      BY <1>14 DEF Crash, SingleProcess
    <2>2. \A u \in Threads : pc'[u] = "idle" /\ fd'[u] = "none"
      BY <2>1, <1>14 DEF Crash
    <2>3. QED
      BY <2>2, OutsideUpToDate
  <1>15. CASE UNCHANGED vars
    BY <1>0, <1>t, <1>15 DEF vars, UpToDate, NewRecord
  <1>16. QED
    BY <1>1, <1>2, <1>3, <1>4, <1>5, <1>6, <1>7, <1>8, <1>9, <1>10, <1>11, <1>12, <1>13, <1>14, <1>15 DEF Next, Step

\* The live file changes only when the lock holder's rename adds its record.
LEMMA LiveStep ==
    ASSUME SingleProcess, IInv, [Next]_vars
    PROVE  \/ live' = live
           \/ \E t \in Threads : /\ prev[t] = LastHash(live)
                                /\ live' = Append(live, NewRecord(t))
                                /\ acked' = acked
                                /\ Replace(t)
  <1> USE DEF files, locals
  <1>0. \A t \in Threads : UpToDate(t)
    BY DEF IInv
  <1>1. ASSUME NEW t \in Threads, Replace(t), tmpExists
        PROVE  /\ prev[t] = LastHash(live)
               /\ live' = Append(live, NewRecord(t))
               /\ acked' = acked
    BY <1>0, <1>1 DEF Replace, UpToDate, HasHash, HasRoom
  <1>2. ASSUME NEW t \in Threads, Replace(t), ~tmpExists PROVE live' = live
    BY <1>2 DEF Replace
  <1>3. ASSUME NEW t \in Threads, WritePart(t) PROVE live' = live
    BY <1>0, <1>3 DEF WritePart, WriteThrough, UpToDate
  <1>4. ASSUME NEW t \in Threads, WriteRest(t) PROVE live' = live
    BY <1>0, <1>4 DEF WriteRest, WriteThrough, UpToDate
  <1>5. ASSUME NEW t \in Threads, \/ \E p \in Payloads : Call(t, p)
                                 \/ Acquire(t) \/ ReadLastHash(t) \/ CheckSizeLimit(t)
                                 \/ ReadExisting(t) \/ OpenTmp(t) \/ Return(t) \/ CleanUp(t)
                                 \/ FailReading(t) \/ FailWriting(t)
        PROVE  live' = live
    BY <1>5 DEF Call, Acquire, ReadLastHash, CheckSizeLimit, ReadExisting, OpenTmp, Return,
                CleanUp, FailReading, FailWriting
  <1>6. ASSUME NEW p \in Processes, Crash(p) PROVE live' = live
    BY <1>6 DEF Crash
  <1>7. CASE UNCHANGED vars
    BY <1>7 DEF vars
  <1>8. QED
    BY <1>1, <1>2, <1>3, <1>4, <1>5, <1>6, <1>7 DEF Next, Step

\* Only Return tells a caller of a record, the one its rename put last.
LEMMA AckedStep ==
    ASSUME SingleProcess, IInv, [Next]_vars
    PROVE  \/ acked' = acked
           \/ /\ live' = live
              /\ \E i \in 1..Len(live) :
                    /\ \A j \in 1..Len(acked) : acked[j] # live[i].record_hash
                    /\ acked' = Append(acked, live[i].record_hash)
  <1> USE DEF files, locals
  <1>0. (\A t \in Threads : UpToDate(t)) /\ live \in Seq(RecordsOver(Payloads))
    BY DEF IInv, ChainInv
  <1>1. ASSUME NEW t \in Threads, Return(t)
        PROVE  /\ live' = live
               /\ Len(live) \in 1..Len(live)
               /\ \A j \in 1..Len(acked) : acked[j] # live[Len(live)].record_hash
               /\ acked' = Append(acked, live[Len(live)].record_hash)
    <2>1. live # <<>> /\ live[Len(live)] = NewRecord(t)
      BY <1>0, <1>1 DEF Return, UpToDate
    <2>2. \A j \in 1..Len(acked) : acked[j] # NewRecord(t).record_hash
      BY <1>0, <1>1 DEF Return, UpToDate
    <2>3. live' = live /\ acked' = Append(acked, NewRecord(t).record_hash)
      BY <1>1 DEF Return
    <2>4. Len(live) \in 1..Len(live)
      BY <2>1, <1>0
    <2>5. QED
      BY <2>1, <2>2, <2>3, <2>4
  <1>2. ASSUME NEW t \in Threads, \/ \E p \in Payloads : Call(t, p)
                                 \/ Acquire(t) \/ ReadLastHash(t) \/ CheckSizeLimit(t)
                                 \/ ReadExisting(t) \/ OpenTmp(t) \/ WritePart(t)
                                 \/ WriteRest(t) \/ Replace(t) \/ CleanUp(t)
                                 \/ FailReading(t) \/ FailWriting(t)
        PROVE  acked' = acked
    BY <1>2 DEF Call, Acquire, ReadLastHash, CheckSizeLimit, ReadExisting, OpenTmp, WritePart,
                WriteRest, Replace, CleanUp, FailReading, FailWriting
  <1>3. ASSUME NEW p \in Processes, Crash(p) PROVE acked' = acked
    BY <1>3 DEF Crash
  <1>4. CASE UNCHANGED vars
    BY <1>4 DEF vars
  <1>5. QED
    BY <1>1, <1>2, <1>3, <1>4 DEF Next, Step

\* The file stays a numbered chain of records.
LEMMA NextChainInv ==
    ASSUME SingleProcess, IInv, [Next]_vars
    PROVE  ChainInv'
  <1>1. ChainInv
    BY DEF IInv
  <1>2. CASE live' = live
    BY <1>1, <1>2 DEF ChainInv, ChainIntact, Numbered
  <1>3. ASSUME NEW t \in Threads, prev[t] = LastHash(live), live' = Append(live, NewRecord(t))
        PROVE  ChainInv'
    <2>1. payload[t] \in Payloads
      BY DEF IInv, TypeOK
    <2>2. live' = Append(live, MakeRecord(LastHash(live), payload[t]))
      BY <1>3 DEF NewRecord
    <2>3. QED
      BY <1>1, <2>1, <2>2, AppendKeepsChain, AppendKeepsNumbers DEF ChainInv, ChainIntact, Numbered
  <1>4. QED
    BY <1>2, <1>3, LiveStep

\* Every record append() returned is still in the file after a step.
LEMMA NextAcked ==
    ASSUME SingleProcess, IInv, [Next]_vars
    PROVE  AckedRecordsKept'
  <1>1. /\ live \in Seq(RecordsOver(Payloads)) /\ acked \in Seq(Seq(Payloads))
        /\ \A t \in Threads : NewRecord(t) \in RecordsOver(Payloads)
        /\ AckedRecordsKept /\ ChainInv /\ ChainInv'
    BY InFlightType, NextChainInv DEF IInv, ChainInv, TypeOK
  <1>2. CASE acked' = acked /\ live' = live
    BY <1>1, <1>2 DEF AckedRecordsKept
  <1>3. ASSUME NEW t \in Threads, live' = Append(live, NewRecord(t)), acked' = acked
        PROVE  AckedRecordsKept'
    <2>1. \A j \in 1..Len(live) : j \in 1..Len(live') /\ live'[j] = live[j]
      BY <1>1, <1>3
    <2>2. QED
      BY <1>1, <1>3, <2>1 DEF AckedRecordsKept
  <1>4. ASSUME NEW i \in 1..Len(live), live' = live, acked' = Append(acked, live[i].record_hash)
        PROVE  AckedRecordsKept'
    <2>1. live[i] # TornLine /\ live[i].record_hash \in Seq(Payloads)
      <3>1. live[i] \in RecordsOver(Payloads)
        BY <1>1
      <3>2. live[i].record_hash \in Seq(Payloads)
        BY <3>1 DEF RecordsOver
      <3>3. live[i] # TornLine
        BY <1>1 DEF ChainInv, ChainIntact, VerifyIntegrity
      <3>4. QED
        BY <3>2, <3>3
    <2>2. SUFFICES ASSUME NEW k \in 1..Len(acked')
                   PROVE  \E j \in 1..Len(live) :
                             live[j] # TornLine /\ live[j].record_hash = acked'[k]
      BY <1>4 DEF AckedRecordsKept
    <2>3. CASE k \in 1..Len(acked)
      <3>1. acked'[k] = acked[k]
        BY <1>1, <1>4, <2>1, <2>3
      <3>2. QED
        BY <1>1, <2>3, <3>1 DEF AckedRecordsKept
    <2>4. CASE k = Len(acked) + 1
      BY <1>1, <1>4, <2>1, <2>4
    <2>5. k \in 1..Len(acked) \/ k = Len(acked) + 1
      BY <1>1, <1>4, <2>1
    <2>6. QED
      BY <2>3, <2>4, <2>5
  <1>5. QED
    BY <1>2, <1>3, <1>4, LiveStep, AckedStep

\* The file stays within the cap: the room was measured under the lock.
LEMMA NextWithinSizeLimit ==
    ASSUME SingleProcess, IInv, [Next]_vars
    PROVE  WithinSizeLimit'
  <1> USE DEF WithinSizeLimit
  <1>1. /\ live \in Seq(Lines) /\ MaxRecords \in Nat /\ Len(live) <= MaxRecords
        /\ \A t \in Threads : UpToDate(t)
        /\ \A t \in Threads : Append(existing[t], NewRecord(t)) \in Seq(Lines)
    BY BoundsAssumption, InFlightType DEF IInv, TypeOK
  <1>2. CASE live' = live
    BY <1>1, <1>2
  <1>3. ASSUME NEW t \in Threads, live' = Append(live, NewRecord(t)), Replace(t)
        PROVE  WithinSizeLimit'
    <2>1. Len(live) < MaxRecords
      BY <1>1, <1>3 DEF Replace, UpToDate, HasRoom
    <2>2. Len(live') = Len(live) + 1
      BY <1>1, <1>3
    <2>3. QED
      BY <1>1, <2>1, <2>2
  <1>4. QED
    BY <1>2, <1>3, LiveStep

\* The inductive invariant holds in every state of a one-process deployment.
THEOREM InvariantHolds == ASSUME SingleProcess PROVE Spec => []IInv
  <1>1. Init => IInv
    <2> SUFFICES ASSUME Init PROVE IInv
      OBVIOUS
    <2>1. Mutex
      BY ThreadsAssumption DEF Init, Mutex, Inside, MyLock
    <2>2. \A t \in Threads : UpToDate(t)
      BY DEF Init, UpToDate, HasHash, HasRoom, HasExisting
    <2>3. ChainInv /\ AckedRecordsKept
      BY DEF Init, ChainInv, ChainIntact, VerifyIntegrity, Numbered, AckedRecordsKept
    <2>5. WithinSizeLimit
      BY BoundsAssumption DEF Init, WithinSizeLimit
    <2>4. QED
      BY InitTypeOK, <2>1, <2>2, <2>3, <2>5 DEF IInv
  <1>2. IInv /\ [Next]_vars => IInv'
    <2> SUFFICES ASSUME IInv, [Next]_vars PROVE IInv'
      OBVIOUS
    <2>1. TypeOK' /\ Mutex'
      BY NextTypeOK, NextMutex DEF IInv
    <2>2. (\A t \in Threads : UpToDate(t))'
      BY NextUpToDate
    <2>3. ChainInv' /\ AckedRecordsKept' /\ WithinSizeLimit'
      BY NextChainInv, NextAcked, NextWithinSizeLimit
    <2>4. QED
      BY <2>1, <2>2, <2>3 DEF IInv
  <1>3. QED
    BY <1>1, <1>2, PTL DEF Spec

-----------------------------------------------------------------------------
(* What the invariant gives, for a one-process deployment. *)

\* The live file is a valid hash chain at every instant, crashes included.
THEOREM ChainAlwaysIntact == ASSUME SingleProcess PROVE Spec => []ChainIntact
  <1>1. IInv => ChainIntact
    BY DEF IInv, ChainInv
  <1>2. QED
    BY <1>1, InvariantHolds, PTL

\* No record whose append() returned is ever lost.
THEOREM AcknowledgedIsDurable == ASSUME SingleProcess PROVE Spec => []AckedRecordsKept
  <1>1. IInv => AckedRecordsKept
    BY DEF IInv
  <1>2. QED
    BY <1>1, InvariantHolds, PTL

\* The file never exceeds its cap.
THEOREM SizeLimitHolds == ASSUME SingleProcess PROVE Spec => []WithinSizeLimit
  <1>1. IInv => WithinSizeLimit
    BY DEF IInv
  <1>2. QED
    BY <1>1, InvariantHolds, PTL

\* An append() about to raise has left no record behind.
THEOREM FailureIsClean == ASSUME SingleProcess PROVE Spec => []FailedAppendLeavesNoRecord
  <1>1. IInv => FailedAppendLeavesNoRecord
    <2> SUFFICES ASSUME IInv, NEW t \in Threads, pc[t] = "failed"
                 PROVE  \A j \in 1..Len(live) : live[j] # NewRecord(t)
      BY DEF FailedAppendLeavesNoRecord
    <2>1. prev[t] = LastHash(live)
      BY DEF IInv, UpToDate, HasHash
    <2>2. QED
      BY <2>1, NewHashIsNew DEF IInv
  <1>2. QED
    BY <1>1, InvariantHolds, PTL

\* No step removes, alters or reorders a record of the live file.
THEOREM OnlyAppends == ASSUME SingleProcess PROVE Spec => AppendOnly
  <1>1. IInv /\ [Next]_vars => [ /\ Len(live) <= Len(live')
                               /\ SubSeq(live', 1, Len(live)) = live ]_vars
    <2> SUFFICES ASSUME IInv, [Next]_vars
                 PROVE  Len(live) <= Len(live') /\ SubSeq(live', 1, Len(live)) = live
      OBVIOUS
    <2>1. /\ live \in Seq(RecordsOver(Payloads))
          /\ \A t \in Threads : NewRecord(t) \in RecordsOver(Payloads)
      BY InFlightType DEF IInv, ChainInv
    <2>2. CASE live' = live
      BY <2>1, <2>2
    <2>3. ASSUME NEW t \in Threads, live' = Append(live, NewRecord(t))
          PROVE  Len(live) <= Len(live') /\ SubSeq(live', 1, Len(live)) = live
      BY <2>1, <2>3
    <2>4. QED
      BY <2>2, <2>3, LiveStep
  <1>2. QED
    BY <1>1, InvariantHolds, PTL DEF Spec, AppendOnly

\* The engine implements the append-only log: its initial state is the log's,
\* its rename adds a record to it, its return acknowledges one, and everything
\* else it does is invisible.
THEOREM Refinement == ASSUME SingleProcess PROVE Spec => ImplementsLog
  <1>1. Init => Log!LogInit
    BY DEF Init, Log!LogInit
  <1>2. IInv /\ [Next]_vars => [Log!LogNext]_(Log!logVars)
    <2> SUFFICES ASSUME IInv, [Next]_vars
                 PROVE  [Log!LogNext]_(Log!logVars)
      OBVIOUS
    <2>1. CASE live' = live /\ acked' = acked
      BY <2>1 DEF Log!logVars
    <2>2. ASSUME NEW t \in Threads, prev[t] = LastHash(live),
                 live' = Append(live, NewRecord(t)), acked' = acked
          PROVE  Log!LogNext
      <3>1. payload[t] \in Payloads
        BY DEF IInv, TypeOK
      <3>2. Log!Extend(payload[t])
        BY <2>2 DEF Log!Extend, NewRecord, Log!MakeRecord, MakeRecord, Log!LastHash, LastHash,
                    Log!Hash, Hash, Log!ZeroHash, ZeroHash
      <3>3. QED
        BY <3>1, <3>2 DEF Log!LogNext
    <2>3. ASSUME NEW i \in 1..Len(live), live' = live,
                 \A j \in 1..Len(acked) : acked[j] # live[i].record_hash,
                 acked' = Append(acked, live[i].record_hash)
          PROVE  Log!LogNext
      BY <2>3 DEF Log!LogNext, Log!Acknowledge
    <2>4. QED
      BY <2>1, <2>2, <2>3, LiveStep, AckedStep
  <1>3. QED
    BY <1>1, <1>2, InvariantHolds, PTL DEF Spec, ImplementsLog, Log!LogSpec
=============================================================================
