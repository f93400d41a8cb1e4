--------------------------- MODULE ColdBootProofs ---------------------------
(***************************************************************************)
(* Proofs about ColdBoot, for any number of drivers and engines, any       *)
(* payloads, limits and bounds: writers that take turns keep one chain,    *)
(* and, whatever is cut short, READ_MANY never changes an answer, as long  *)
(* as they take turns or none of them is an engine.                        *)
(***************************************************************************)
EXTENDS ColdBoot, DataLemmas

-----------------------------------------------------------------------------
(* Lemmas about the file. *)
EndsWell(v) == v.lines = <<>> => v.ended
Appends == [at : {"idle", "linked", "copied"}, record : Records, existing : Volumes]
Metadata == [root_slot : Seq(Payloads), record_count : Nat, tail : Nat]

\* Replacing a line of a file leaves as many lines.
LEMMA ReplaceLine ==
    ASSUME NEW S, NEW lines \in Seq(S), NEW n \in 1..Len(lines), NEW line \in S
    PROVE  /\ [lines EXCEPT ![n] = line] \in Seq(S)
           /\ Len([lines EXCEPT ![n] = line]) = Len(lines)
  BY SMT

\* A file that parses is a file of records.
LEMMA ParsedLines ==
    ASSUME NEW v \in Volumes, Parses(v)
    PROVE  v.lines \in Seq(Records)
  BY DEF Volumes, Parses, Size, LinesOver, Records

\* The end of a file that parses is not torn.
LEMMA ParsedEnd ==
    ASSUME NEW v \in Volumes, Parses(v)
    PROVE  LastHash(v.lines) \in Seq(Payloads)
  <1>1. v.lines \in Seq(LinesOver(Payloads)) /\ ~EndsTorn(v.lines)
    BY DEF Volumes, Parses, Size, EndsTorn
  <1>2. QED
    BY <1>1, LastHashType

\* A line more is LineSize more.
LEMMA OneLineMore ==
    ASSUME NEW n \in Nat, NEW m, m = n + 1
    PROVE  m * LineSize = n * LineSize + LineSize /\ n * LineSize \in Nat
  BY VolumeAssumption

\* A file's length is a number.
LEMMA BytesType ==
    ASSUME NEW v \in Volumes
    PROVE  Size(v) \in Nat /\ Bytes(v) \in Nat
  <1>1. Size(v) \in Nat
    BY DEF Size, Volumes
  <1>2. QED
    BY <1>1, OneLineMore DEF Bytes

\* What a boot loads is metadata.
LEMMA LoadedType ==
    ASSUME NEW v \in Volumes
    PROVE  Loaded(v) \in Metadata
  <1>1. Size(v) \in Nat /\ Bytes(v) \in Nat
    BY BytesType
  <1>2. CASE v.lines = <<>> \/ ~Parses(v)
    BY <1>2 DEF Loaded, Unloaded, ZeroHash, Metadata
  <1>3. CASE ~(v.lines = <<>> \/ ~Parses(v))
    BY <1>1, <1>3, ParsedEnd DEF Loaded, Metadata
  <1>4. QED
    BY <1>2, <1>3

\* Appending text to a file leaves a file, and one that is not empty.
LEMMA AppendTextType ==
    ASSUME NEW v \in Volumes, v.lines = <<>> => v.ended,
           NEW line \in LinesOver(Payloads), NEW ended \in BOOLEAN
    PROVE  /\ AppendText(v, line, ended) \in Volumes
           /\ AppendText(v, line, ended).lines # <<>>
  <1> DEFINE w == AppendText(v, line, ended)
  <1>1. w.ended = ended /\ w = [lines |-> w.lines, ended |-> w.ended]
    BY DEF AppendText
  <1>2. CASE v.ended
    <2>1. w.lines = Append(v.lines, line)
      BY <1>2 DEF AppendText
    <2>2. w.lines \in Seq(LinesOver(Payloads)) /\ w.lines # <<>>
      BY <2>1 DEF Volumes
    <2>3. QED
      BY <1>1, <2>2 DEF Volumes
  <1>3. CASE ~v.ended
    <2>1. w.lines = [v.lines EXCEPT ![Size(v)] = TornLine]
      BY <1>3 DEF AppendText
    <2>2. v.lines \in Seq(LinesOver(Payloads)) /\ Len(v.lines) > 0
      BY <1>3 DEF Volumes
    <2>3. TornLine \in LinesOver(Payloads)
      BY DEF LinesOver
    <2>6. Size(v) \in 1..Len(v.lines)
      BY <2>2 DEF Size
    <2>7. /\ [v.lines EXCEPT ![Size(v)] = TornLine] \in Seq(LinesOver(Payloads))
          /\ Len([v.lines EXCEPT ![Size(v)] = TornLine]) = Len(v.lines)
      BY <2>2, <2>3, <2>6, ReplaceLine
    <2>4. w.lines \in Seq(LinesOver(Payloads)) /\ Len(w.lines) = Len(v.lines)
      BY <2>1, <2>7, Zenon
    <2>5. QED
      BY <1>1, <2>2, <2>4 DEF Volumes
  <1>4. QED
    BY <1>2, <1>3

\* A write cut short leaves a file all the same.
LEMMA CutShortType ==
    ASSUME NEW v \in Volumes, v.lines = <<>> => v.ended,
           NEW r \in Records, NEW w \in CutShort(v, r)
    PROVE  w \in Volumes /\ (w.lines = <<>> => w.ended)
  <1>1. TornLine \in LinesOver(Payloads) /\ r \in LinesOver(Payloads)
    BY DEF LinesOver, Records
  <1>2. w \in {v, AppendText(v, TornLine, FALSE), AppendText(v, r, FALSE), AppendText(v, r, TRUE)}
    BY DEF CutShort
  <1>3. QED
    BY <1>1, <1>2, AppendTextType

\* The driver's record before it has written one.
LEMMA NoRecordType == NoRecord \in Records
  <1> DEFINE some == CHOOSE p \in Payloads : TRUE
  <1>1. some \in Payloads
    BY VolumeAssumption
  <1>2. <<>> \in Seq(Payloads)
    OBVIOUS
  <1> HIDE DEF some
  <1>3. MakeRecord(<<>>, some) \in RecordsOver(Payloads)
    BY <1>1, <1>2, MakeRecordType
  <1>4. QED
    BY <1>3 DEF NoRecord, Records, ZeroHash, some

\* An engine's append before it has begun.
LEMMA NoAppendType == NoAppend \in Appends /\ EndsWell(NoAppend.existing)
  BY NoRecordType DEF NoAppend, EmptyVolume, Appends, Volumes, EndsWell

-----------------------------------------------------------------------------
(* Types. *)
LEMMA InitTypeOK == Init => TypeOK
  <1> SUFFICES ASSUME Init PROVE TypeOK
    OBVIOUS
  <1> USE VolumeAssumption DEF Init
  <1>1. volume \in Volumes /\ (volume.lines = <<>> => volume.ended)
    BY DEF EmptyVolume, Volumes
  <1>2. meta \in [Drivers -> Metadata]
    BY DEF Unloaded, ZeroHash, Metadata
  <1>3. record \in [Drivers -> Records]
    BY NoRecordType
  <1>4. anchors \in Seq(Anchors) /\ Len(anchors) <= MaxAnchors
    OBVIOUS
  <1>5. append \in [Engines -> Appends] /\ (\A e \in Engines : EndsWell(append[e].existing))
    BY NoAppendType
  <1>6. QED
    BY <1>1, <1>2, <1>3, <1>4, <1>5 DEF TypeOK, Metadata, Appends, EndsWell

\* The record WRITE_ONCE computes is a record.
LEMMA LinkedType ==
    ASSUME TypeOK, NEW d \in Drivers, NEW p \in Payloads
    PROVE  MakeRecord(meta[d].root_slot, p) \in Records
  BY MakeRecordType DEF TypeOK, Records

\* Anchoring keeps a chain of anchors within its bound.
LEMMA AnchorStateType ==
    ASSUME TypeOK, NEW root \in Seq(Payloads) \cup {EmptyWormRoot}, NEW count \in Nat,
           AnchorState(root, count)
    PROVE  anchors' \in Seq(Anchors) /\ Len(anchors') <= MaxAnchors
  <1> DEFINE chain == IF anchors = <<>> THEN <<Genesis>> ELSE anchors
  <1>1. Genesis \in Anchors /\ Anchor(root, count) \in Anchors
    BY DEF Genesis, Anchor, Anchors, ZeroHash
  <1>2. chain \in Seq(Anchors)
    BY <1>1 DEF TypeOK
  <1>3. Len(chain) < MaxAnchors /\ anchors' = Append(chain, Anchor(root, count))
    BY DEF AnchorState
  <1> HIDE DEF chain
  <1>4. QED
    BY <1>1, <1>2, <1>3, VolumeAssumption

LEMMA NextTypeOK == TypeOK /\ [Next]_vars => TypeOK'
  <1> SUFFICES ASSUME TypeOK, [Next]_vars PROVE TypeOK'
    OBVIOUS
  <1> USE VolumeAssumption
  <1>0. /\ volume \in Volumes /\ (volume.lines = <<>> => volume.ended)
        /\ meta \in [Drivers -> Metadata]
        /\ pc \in [Drivers -> {"down", "idle", "writing", "written"}]
        /\ record \in [Drivers -> Records]
        /\ append \in [Engines -> Appends] /\ (\A e \in Engines : EndsWell(append[e].existing))
        /\ acked \subseteq Records
        /\ anchors \in Seq(Anchors) /\ Len(anchors) <= MaxAnchors
        /\ writes \in 0..MaxWrites
        /\ faults \in 0..MaxFaults
    BY DEF TypeOK, Metadata, Appends, EndsWell
  <1>1. ASSUME NEW d \in Drivers, Boot(d) PROVE TypeOK'
    <2>1. meta' \in [Drivers -> Metadata]
      BY <1>0, <1>1, LoadedType DEF Boot
    <2>2. QED
      BY <1>0, <1>1, <2>1 DEF Boot, TypeOK, Metadata, Appends, EndsWell
  <1>2. ASSUME NEW d \in Drivers, NEW p \in Payloads, WriteOnce(d, p) PROVE TypeOK'
    <2>1. record' \in [Drivers -> Records]
      BY <1>0, <1>2, LinkedType DEF WriteOnce
    <2>2. writes' \in 0..MaxWrites
      BY <1>0, <1>2 DEF WriteOnce
    <2>3. QED
      BY <1>0, <1>2, <2>1, <2>2 DEF WriteOnce, TypeOK, Metadata, Appends, EndsWell
  <1>3. ASSUME NEW d \in Drivers, Write(d) PROVE TypeOK'
    <2>1. record[d] \in LinesOver(Payloads)
      BY <1>0 DEF Records, LinesOver
    <2>2. volume' \in Volumes /\ volume'.lines # <<>>
      BY <1>0, <1>3, <2>1, AppendTextType DEF Write
    <2>3. QED
      BY <1>0, <1>3, <2>2 DEF Write, TypeOK, Metadata, Appends, EndsWell
  <1>4. ASSUME NEW d \in Drivers, WriteFails(d) PROVE TypeOK'
    <2>1. volume' \in Volumes /\ (volume'.lines = <<>> => volume'.ended)
      BY <1>0, <1>4, CutShortType DEF WriteFails
    <2>2. record' \in [Drivers -> Records]
      BY <1>0, <1>4, NoRecordType DEF WriteFails
    <2>3. faults' \in 0..MaxFaults
      BY <1>0, <1>4 DEF WriteFails
    <2>4. QED
      BY <1>0, <1>4, <2>1, <2>2, <2>3 DEF WriteFails, TypeOK, Metadata, Appends, EndsWell
  <1>5. ASSUME NEW d \in Drivers, Complete(d) PROVE TypeOK'
    <2>1. meta' \in [Drivers -> Metadata]
      <3>1. record[d].record_hash \in Seq(Payloads) /\ meta[d].record_count + 1 \in Nat
            /\ Bytes(volume) \in Nat
        BY <1>0, BytesType DEF Records, RecordsOver, Metadata
      <3>2. QED
        BY <1>0, <1>5, <3>1 DEF Complete, Metadata
    <2>2. record' \in [Drivers -> Records] /\ acked' \subseteq Records
      BY <1>0, <1>5, NoRecordType DEF Complete
    <2>3. QED
      BY <1>0, <1>5, <2>1, <2>2 DEF Complete, TypeOK, Metadata, Appends, EndsWell
  <1>6. ASSUME NEW d \in Drivers, Halt(d) PROVE TypeOK'
    <2>1. meta' \in [Drivers -> Metadata]
      BY <1>0, <1>6 DEF Halt, Unloaded, ZeroHash, Metadata
    <2>2. record' \in [Drivers -> Records]
      BY <1>0, <1>6, NoRecordType DEF Halt
    <2>3. QED
      BY <1>0, <1>6, <2>1, <2>2 DEF Halt, TypeOK, Metadata, Appends, EndsWell
  <1>7. ASSUME NEW d \in Drivers, CrashWriting(d) PROVE TypeOK'
    <2>1. volume' \in Volumes /\ (volume'.lines = <<>> => volume'.ended)
      BY <1>0, <1>7, CutShortType DEF CrashWriting
    <2>2. meta' \in [Drivers -> Metadata]
      BY <1>0, <1>7 DEF CrashWriting, Unloaded, ZeroHash, Metadata
    <2>3. record' \in [Drivers -> Records]
      BY <1>0, <1>7, NoRecordType DEF CrashWriting
    <2>4. faults' \in 0..MaxFaults
      BY <1>0, <1>7 DEF CrashWriting
    <2>5. QED
      BY <1>0, <1>7, <2>1, <2>2, <2>3, <2>4 DEF CrashWriting, TypeOK, Metadata, Appends, EndsWell
  <1>8. ASSUME NEW d \in Drivers, BootUnread(d) PROVE TypeOK'
    <2>1. PICK m \in {Unloaded, [Loaded(volume) EXCEPT !.tail = 0]} :
            meta' = [meta EXCEPT ![d] = m]
      BY <1>8 DEF BootUnread
    <2>2. m \in Metadata
      <3>1. Loaded(volume) \in Metadata
        BY <1>0, LoadedType
      <3>2. [Loaded(volume) EXCEPT !.tail = 0] \in Metadata
        BY <3>1 DEF Metadata
      <3>3. Unloaded \in Metadata
        BY DEF Unloaded, ZeroHash, Metadata
      <3>4. QED
        BY <2>1, <3>2, <3>3
    <2>3. meta' \in [Drivers -> Metadata]
      BY <1>0, <2>1, <2>2
    <2>4. faults' \in 0..MaxFaults
      BY <1>0, <1>8 DEF BootUnread
    <2>5. QED
      BY <1>0, <1>8, <2>3, <2>4 DEF BootUnread, TypeOK, Metadata, Appends, EndsWell
  <1>9. ASSUME NEW d \in Drivers, CompleteFails(d) PROVE TypeOK'
    <2>1. record' \in [Drivers -> Records] /\ faults' \in 0..MaxFaults
      BY <1>0, <1>9, NoRecordType DEF CompleteFails
    <2>2. QED
      BY <1>0, <1>9, <2>1 DEF CompleteFails, TypeOK, Metadata, Appends, EndsWell
  <1>10. ASSUME NEW e \in Engines, NEW p \in Payloads, EngineLink(e, p) PROVE TypeOK'
    <2> DEFINE r == MakeRecord(LastHash(volume.lines), p)
    <2>1. LastHash(volume.lines) \in Seq(Payloads)
      BY <1>0, <1>10, LastHashType DEF EngineLink, Volumes
    <2>2. r \in Records
      BY <2>1, MakeRecordType DEF Records
    <2>3. append' = [append EXCEPT ![e] = [NoAppend EXCEPT !.at = "linked", !.record = r]]
      BY <1>10 DEF EngineLink
    <2> HIDE DEF r
    <2>4. /\ [NoAppend EXCEPT !.at = "linked", !.record = r] \in Appends
          /\ EndsWell([NoAppend EXCEPT !.at = "linked", !.record = r].existing)
      BY <2>2, NoAppendType DEF Appends
    <2>5. append' \in [Engines -> Appends] /\ (\A f \in Engines : EndsWell(append'[f].existing))
      BY <1>0, <2>3, <2>4
    <2>6. writes' \in 0..MaxWrites
      BY <1>0, <1>10 DEF EngineLink
    <2>7. UNCHANGED <<volume, meta, pc, record, acked, anchors, faults>>
      BY <1>10 DEF EngineLink
    <2>8. QED
      BY <1>0, <2>5, <2>6, <2>7 DEF TypeOK, Metadata, Appends, EndsWell
  <1>11. ASSUME NEW e \in Engines, EngineCopy(e) PROVE TypeOK'
    <2>1. append' = [append EXCEPT ![e] = [@ EXCEPT !.at = "copied", !.existing = volume]]
      BY <1>0, <1>11 DEF EngineCopy, Appends
    <2>2. /\ [append[e] EXCEPT !.at = "copied", !.existing = volume] \in Appends
          /\ EndsWell([append[e] EXCEPT !.at = "copied", !.existing = volume].existing)
      BY <1>0 DEF Appends, EndsWell
    <2>3. append' \in [Engines -> Appends] /\ (\A f \in Engines : EndsWell(append'[f].existing))
      BY <1>0, <2>1, <2>2
    <2>4. QED
      BY <1>0, <1>11, <2>3 DEF EngineCopy, TypeOK, Metadata, Appends, EndsWell
  <1>12. ASSUME NEW e \in Engines, EngineReplace(e) PROVE TypeOK'
    <2>1. append[e].record \in Records /\ append[e].existing \in Volumes
      BY <1>0 DEF Appends
    <2>2. append[e].existing.lines = <<>> => append[e].existing.ended
      BY <1>0 DEF EndsWell
    <2>3. append[e].record \in LinesOver(Payloads)
      BY <2>1 DEF Records, LinesOver
    <2>4. volume' \in Volumes /\ volume'.lines # <<>>
      BY <1>12, <2>1, <2>2, <2>3, AppendTextType DEF EngineReplace
    <2>5. append' \in [Engines -> Appends] /\ (\A f \in Engines : EndsWell(append'[f].existing))
      BY <1>0, <1>12, NoAppendType DEF EngineReplace
    <2>6. acked' \subseteq Records
      BY <1>0, <1>12, <2>1 DEF EngineReplace
    <2>7. UNCHANGED <<meta, pc, record, anchors, writes, faults>>
      BY <1>12 DEF EngineReplace
    <2>8. QED
      BY <1>0, <2>4, <2>5, <2>6, <2>7 DEF TypeOK, Metadata, Appends, EndsWell
  <1>13. ASSUME NEW e \in Engines, EngineGivesUp(e) PROVE TypeOK'
    <2>1. append' \in [Engines -> Appends] /\ (\A f \in Engines : EndsWell(append'[f].existing))
      BY <1>0, <1>13, NoAppendType DEF EngineGivesUp
    <2>2. QED
      BY <1>0, <1>13, <2>1 DEF EngineGivesUp, TypeOK, Metadata, Appends, EndsWell
  <1>14. ASSUME InitializeBridge PROVE TypeOK'
    <2>1. anchors' \in Seq(Anchors) /\ Len(anchors') <= MaxAnchors
      BY <1>14 DEF InitializeBridge, Genesis, Anchor, Anchors, ZeroHash
    <2>2. QED
      BY <1>0, <1>14, <2>1 DEF InitializeBridge, TypeOK, Metadata, Appends, EndsWell
  <1>15. ASSUME SyncFromWorm PROVE TypeOK'
    <2>1. anchors' \in Seq(Anchors) /\ Len(anchors') <= MaxAnchors
      <3>1. LastHash(volume.lines) \in Seq(Payloads) /\ Size(volume) \in Nat
        BY <1>0, <1>15, ParsedEnd DEF SyncFromWorm, Size, Volumes
      <3>2. QED
        BY <1>15, <3>1, AnchorStateType DEF SyncFromWorm
    <2>2. QED
      BY <1>0, <1>15, <2>1 DEF SyncFromWorm, TypeOK, Metadata, Appends, EndsWell
  <1>16. ASSUME UNCHANGED vars PROVE TypeOK'
    BY <1>0, <1>16 DEF vars, TypeOK, Metadata, Appends, EndsWell
  <1>17. QED
    BY <1>1, <1>2, <1>3, <1>4, <1>5, <1>6, <1>7, <1>8, <1>9, <1>10, <1>11, <1>12, <1>13,
       <1>14, <1>15, <1>16 DEF Next

\* Whatever the writers do, and whatever is cut short, the variables of the
\* drivers, the file and the bridge keep their types.
THEOREM VolumeTypeCorrect == Spec => []TypeOK
  <1>1. QED
    BY InitTypeOK, NextTypeOK, PTL DEF Spec

-----------------------------------------------------------------------------
(* Turns: one writer at work, which knows the end of the file. *)
Turns == OneAtWork /\ CopiesCurrent

LEMMA InitTurns == Init => Turns
  BY DEF Init, Turns, OneAtWork, CopiesCurrent, NoAppend

\* A driver is at work alone, and no engine is.
LEMMA DriverAlone ==
    ASSUME OneWriter, OneAtWork, NEW d \in Drivers, pc[d] # "down"
    PROVE  /\ \A e \in Drivers : e # d => pc[e] = "down"
           /\ \A e \in Engines : append[e].at = "idle"
  BY DEF OneAtWork, AllDown

\* An engine is at work alone, and no driver is.
LEMMA EngineAlone ==
    ASSUME OneWriter, OneAtWork, NEW e \in Engines, append[e].at # "idle"
    PROVE  /\ \A d \in Drivers : pc[d] = "down"
           /\ \A f \in Engines : f # e => append[f].at = "idle"
  BY DEF OneAtWork, AllDown

LEMMA NextTurns == TypeOK /\ Turns /\ [Next]_vars => Turns'
  <1> SUFFICES ASSUME TypeOK, Turns, [Next]_vars, OneWriter PROVE Turns'
    BY DEF Turns, OneAtWork, CopiesCurrent
  <1>0. /\ OneAtWork /\ CopiesCurrent
        /\ DOMAIN pc = Drivers /\ DOMAIN append = Engines
        /\ append \in [Engines -> Appends]
        /\ volume \in Volumes
    BY DEF Turns, TypeOK, Appends
  <1>1. ASSUME NEW d \in Drivers, Boot(d) \/ BootUnread(d) PROVE Turns'
    <2>1. AllDown /\ AllIdle /\ UNCHANGED <<volume, append>> /\ pc' = [pc EXCEPT ![d] = "idle"]
      BY <1>1 DEF Boot, BootUnread
    <2>2. \A c \in Drivers : c # d => pc'[c] = "down"
      BY <1>0, <2>1 DEF AllDown
    <2>3. \A e \in Engines : append'[e].at = "idle"
      BY <2>1 DEF AllIdle
    <2>4. QED
      BY <2>2, <2>3 DEF Turns, OneAtWork, CopiesCurrent
  <1>2. ASSUME NEW d \in Drivers, pc[d] # "down", UNCHANGED append,
               \E at \in {"down", "idle", "writing", "written"} : pc' = [pc EXCEPT ![d] = at]
        PROVE  Turns'
    <2>1. \A c \in Drivers : c # d => pc'[c] = "down"
      BY <1>0, <1>2, DriverAlone
    <2>2. \A e \in Engines : append'[e].at = "idle"
      BY <1>0, <1>2, DriverAlone
    <2>3. QED
      BY <2>1, <2>2 DEF Turns, OneAtWork, CopiesCurrent
  <1>3. ASSUME NEW d \in Drivers,
               \/ \E p \in Payloads : WriteOnce(d, p)
               \/ Write(d) \/ WriteFails(d) \/ Complete(d) \/ CompleteFails(d)
               \/ Halt(d) \/ CrashWriting(d)
        PROVE  Turns'
    <2>1. pc[d] # "down" /\ UNCHANGED append
      BY <1>3 DEF WriteOnce, Write, WriteFails, Complete, CompleteFails, Halt, CrashWriting
    <2>2. \E at \in {"down", "idle", "writing", "written"} : pc' = [pc EXCEPT ![d] = at]
      BY <1>3 DEF WriteOnce, Write, WriteFails, Complete, CompleteFails, Halt, CrashWriting
    <2>3. QED
      BY <1>2, <2>1, <2>2
  <1>4. ASSUME NEW e \in Engines, NEW p \in Payloads, EngineLink(e, p) PROVE Turns'
    <2>1. /\ AllDown /\ AllIdle /\ ~EndsTorn(volume.lines) /\ UNCHANGED <<volume, pc>>
          /\ append' = [append EXCEPT ![e] = [NoAppend EXCEPT !.at = "linked",
                           !.record = MakeRecord(LastHash(volume.lines), p)]]
      BY <1>4 DEF EngineLink
    <2>2. \A f \in Engines : f # e => append'[f].at = "idle"
      BY <1>0, <2>1 DEF AllIdle
    <2>3. \A d \in Drivers : pc'[d] = "down"
      BY <2>1 DEF AllDown
    <2>4. append'[e].at = "linked" /\ append'[e].record = MakeRecord(LastHash(volume'.lines), p)
      BY <1>0, <2>1 DEF NoAppend
    <2>5. append'[e].record = MakeRecord(LastHash(volume'.lines), append'[e].record.payload)
      BY <2>4 DEF MakeRecord
    <2>6. QED
      BY <2>1, <2>2, <2>3, <2>4, <2>5 DEF Turns, OneAtWork, CopiesCurrent, AllDown
  <1>5. ASSUME NEW e \in Engines, EngineCopy(e) PROVE Turns'
    <2>1. /\ append[e].at = "linked" /\ Bytes(volume) + LineSize <= EngineLimit
          /\ UNCHANGED <<volume, pc>>
          /\ append' = [append EXCEPT ![e] = [@ EXCEPT !.at = "copied", !.existing = volume]]
      BY <1>0, <1>5 DEF EngineCopy, Appends
    <2>2. /\ \A d \in Drivers : pc'[d] = "down"
          /\ \A f \in Engines : f # e => append'[f].at = "idle"
      BY <1>0, <2>1, EngineAlone
    <2>3. /\ append'[e].at = "copied" /\ append'[e].existing = volume
          /\ append'[e].record = append[e].record
      BY <1>0, <2>1 DEF Appends
    <2>4. /\ ~EndsTorn(volume.lines)
          /\ append[e].record = MakeRecord(LastHash(volume.lines), append[e].record.payload)
      BY <1>0, <2>1 DEF CopiesCurrent
    <2>5. QED
      BY <2>1, <2>2, <2>3, <2>4 DEF Turns, OneAtWork, CopiesCurrent, AllDown, Bytes, Size
  <1>6. ASSUME NEW e \in Engines, EngineReplace(e) \/ EngineGivesUp(e) PROVE Turns'
    <2>1. append[e].at # "idle" /\ UNCHANGED pc /\ append' = [append EXCEPT ![e] = NoAppend]
      BY <1>6 DEF EngineReplace, EngineGivesUp
    <2>2. /\ \A d \in Drivers : pc'[d] = "down"
          /\ \A f \in Engines : append'[f].at = "idle"
      BY <1>0, <2>1, EngineAlone DEF NoAppend
    <2>3. QED
      BY <2>2 DEF Turns, OneAtWork, CopiesCurrent
  <1>7. ASSUME InitializeBridge \/ SyncFromWorm \/ UNCHANGED vars PROVE Turns'
    <2>1. UNCHANGED <<volume, pc, append>>
      BY <1>7 DEF InitializeBridge, SyncFromWorm, vars
    <2>2. QED
      BY <1>0, <2>1 DEF Turns, OneAtWork, CopiesCurrent, AllDown, Bytes, Size
  <1>8. QED
    BY <1>1, <1>3, <1>4, <1>5, <1>6, <1>7 DEF Next

-----------------------------------------------------------------------------
(* One chain, as long as writers take turns and no write is cut short. *)

\* What a boot loads from a file that parses: its last hash and its length.
LEMMA LoadedCurrent ==
    ASSUME NEW v \in Volumes, Parses(v)
    PROVE  Loaded(v) = [root_slot |-> LastHash(v.lines),
                        record_count |-> Size(v), tail |-> Bytes(v)]
  <1>1. CASE v.lines = <<>>
    BY <1>1, VolumeAssumption DEF Loaded, Unloaded, LastHash, Size, Bytes
  <1>2. CASE v.lines # <<>>
    BY <1>2 DEF Loaded
  <1>3. QED
    BY <1>1, <1>2

\* Every record of an intact file can be read.
LEMMA IntactReadable ==
    ASSUME NEW v, v.lines \in Seq(RecordsOver(Payloads)), Parses(v),
           VerifyIntegrity(v.lines)
    PROVE  \A i \in 1..Size(v) : ReadMany(v, i) = 0
  <1> SUFFICES ASSUME NEW i \in 1..Size(v) PROVE ReadMany(v, i) = 0
    OBVIOUS
  <1> DEFINE head == SubSeq(v.lines, 1, i)
  <1>1. /\ i \in Nat /\ i <= Len(v.lines)
        /\ Len(head) = i
        /\ \A j \in 1..i : head[j] = v.lines[j]
    BY DEF Size
  <1>2. VerifyIntegrity(head)
    <2> SUFFICES ASSUME NEW j \in 1..i
                 PROVE  /\ head[j] # TornLine
                        /\ head[j].prev_hash = ExpectedPrev(head, j)
                        /\ head[j].record_hash = Hash(head[j].prev_hash, head[j].payload)
      BY <1>1 DEF VerifyIntegrity
    <2>1. /\ v.lines[j] # TornLine
          /\ v.lines[j].prev_hash = ExpectedPrev(v.lines, j)
          /\ v.lines[j].record_hash = Hash(v.lines[j].prev_hash, v.lines[j].payload)
      BY <1>1 DEF VerifyIntegrity
    <2>2. ExpectedPrev(head, j) = ExpectedPrev(v.lines, j)
      BY <1>1 DEF ExpectedPrev
    <2>3. QED
      BY <1>1, <2>1, <2>2
  <1>3. QED
    BY <1>2 DEF ReadMany

LEMMA OneMore ==
    ASSUME NEW n \in Nat, NEW m, m = n + 1
    PROVE  m \in 1..m /\ \A i \in 1..n : i \in 1..m
  OBVIOUS

\* What Append does to the places of a sequence.
LEMMA AppendedLine ==
    ASSUME NEW S, NEW s \in Seq(S), NEW e \in S
    PROVE  /\ \A i \in 1..Len(s) : Append(s, e)[i] = s[i]
           /\ Append(s, e) # <<>> /\ Append(s, e)[Len(s) + 1] = e
  <1>1. Len(s) \in Nat /\ Len(Append(s, e)) = Len(s) + 1
    OBVIOUS
  <1>2. \A i \in 1..Len(s) : Append(s, e)[i] = s[i]
    OBVIOUS
  <1>3. Append(s, e)[Len(s) + 1] = e
    OBVIOUS
  <1>4. Append(s, e) # <<>>
    BY <1>1
  <1>5. QED
    BY <1>2, <1>3, <1>4

\* A record chained to the end of an intact file leaves it intact, and the
\* places that could be read, with the new one, can be read.
LEMMA ExtendVolume ==
    ASSUME NEW v \in Volumes, v.ended, Parses(v), VerifyIntegrity(v.lines),
           NEW p \in Payloads
    PROVE  LET r == MakeRecord(LastHash(v.lines), p)
               w == AppendText(v, r, TRUE)
           IN  /\ w.ended
               /\ w.lines = Append(v.lines, r)
               /\ Size(w) = Size(v) + 1
               /\ Parses(w)
               /\ VerifyIntegrity(w.lines)
               /\ \A i \in 1..Size(w) : ReadMany(w, i) = 0
  <1> DEFINE r == MakeRecord(LastHash(v.lines), p)
             w == AppendText(v, r, TRUE)
  <1>1. v.lines \in Seq(RecordsOver(Payloads))
    BY ParsedLines DEF Records
  <1>2. w.ended /\ w.lines = Append(v.lines, r)
    BY DEF AppendText
  <1>3. w.lines \in Seq(RecordsOver(Payloads)) /\ VerifyIntegrity(w.lines)
    BY <1>1, <1>2, AppendKeepsChain
  <1>4. Size(w) = Size(v) + 1
    <2>1. r \in RecordsOver(Payloads)
      BY ParsedEnd, MakeRecordType
    <2> HIDE DEF r, w
    <2>2. QED
      BY <1>1, <1>2, <2>1 DEF Size
  <1>5. Parses(w)
    BY <1>3 DEF Parses, VerifyIntegrity, Size
  <1> HIDE DEF r, w
  <1>6. \A i \in 1..Size(w) : ReadMany(w, i) = 0
    BY <1>3, <1>5, IntactReadable
  <1>7. QED
    BY <1>2, <1>3, <1>4, <1>5, <1>6 DEF r, w

\* w is v with the record r after it: intact, and what could be read in v can
\* be read in w, and so can r.
Extends(v, r, w) ==
    /\ w.ended /\ Parses(w) /\ VerifyIntegrity(w.lines)
    /\ Size(w) = Size(v) + 1
    /\ w.lines # <<>> /\ w.lines[Size(w)] = r
    /\ \A i \in 1..Size(v) :
          i \in 1..Size(w) /\ ReadMany(w, i) = 0 /\ w.lines[i] = v.lines[i]
    /\ Size(w) \in 1..Size(w) /\ ReadMany(w, Size(w)) = 0

LEMMA ExtendReadable ==
    ASSUME NEW v \in Volumes, v.ended, Parses(v), VerifyIntegrity(v.lines),
           NEW p \in Payloads,
           NEW r, r = MakeRecord(LastHash(v.lines), p),
           NEW w, w = AppendText(v, r, TRUE)
    PROVE  Extends(v, r, w)
  <1>1. /\ w.ended /\ Parses(w) /\ VerifyIntegrity(w.lines)
        /\ w.lines = Append(v.lines, r) /\ Size(w) = Size(v) + 1
        /\ \A i \in 1..Size(w) : ReadMany(w, i) = 0
    BY ExtendVolume
  <1>2. v.lines \in Seq(Records) /\ r \in Records
    BY ParsedLines, ParsedEnd, MakeRecordType DEF Records
  <1>3. /\ \A i \in 1..Len(v.lines) : w.lines[i] = v.lines[i]
        /\ w.lines # <<>> /\ w.lines[Len(v.lines) + 1] = r
    <2>1. /\ \A i \in 1..Len(v.lines) : Append(v.lines, r)[i] = v.lines[i]
          /\ Append(v.lines, r) # <<>> /\ Append(v.lines, r)[Len(v.lines) + 1] = r
      BY <1>2, AppendedLine
    <2>2. w.lines = Append(v.lines, r)
      BY <1>1
    <2>3. QED
      BY <2>1, <2>2
  <1>4. Size(v) = Len(v.lines) /\ Size(v) \in Nat
    BY <1>2 DEF Size
  <1>5. \A i \in 1..Size(v) : i \in 1..Size(w)
    BY <1>1, <1>4, OneMore
  <1>6. Size(w) \in 1..Size(w)
    BY <1>1, <1>4, OneMore
  <1>7. w.lines[Size(w)] = r
    BY <1>1, <1>3, <1>4
  <1>8. QED
    BY <1>1, <1>3, <1>4, <1>5, <1>6, <1>7 DEF Extends

LEMMA InitInvariant == Init => IInv
  <1> SUFFICES ASSUME Init PROVE IInv
    OBVIOUS
  <1>1. TypeOK
    BY InitTypeOK
  <1>2. volume = EmptyVolume /\ acked = {} /\ \A d \in Drivers : pc[d] = "down"
    BY DEF Init
  <1>3. volume.lines = <<>> /\ volume.ended /\ Size(volume) = 0
    BY <1>2 DEF EmptyVolume, Size
  <1>4. Parses(volume) /\ VerifyIntegrity(volume.lines)
    BY <1>3 DEF Parses, VerifyIntegrity, Size
  <1>5. ChainSharedByWriters /\ AckedReadable
    BY <1>2, <1>3, <1>4 DEF ChainSharedByWriters, AckedReadable
  <1>6. OneAtWork /\ CopiesCurrent /\ MetadataCurrent /\ InFlightCurrent
    BY <1>2, InitTurns DEF Turns, MetadataCurrent, InFlightCurrent
  <1>7. WithinLimits
    <2>1. Bytes(volume) = 0
      BY <1>3, VolumeAssumption DEF Bytes
    <2>2. QED
      BY <2>1, VolumeAssumption DEF WithinLimits, LargestVolume
  <1>8. QED
    BY <1>1, <1>5, <1>6, <1>7 DEF IInv

\* What IInv says while nothing was cut short, as facts about the file.
LEMMA Undisturbed ==
    ASSUME IInv, faults = 0
    PROVE  /\ volume \in Volumes
           /\ volume.ended /\ Parses(volume) /\ VerifyIntegrity(volume.lines)
           /\ \A d \in Drivers : pc[d] = "idle" => meta[d] = Loaded(volume)
           /\ \A r \in acked : Readable(r)
           /\ Size(volume) \in Nat
  <1>1. volume \in Volumes
    BY DEF IInv, TypeOK, Volumes
  <1>2. Size(volume) \in Nat
    BY <1>1 DEF Size, Volumes
  <1>3. QED
    BY <1>1, <1>2 DEF IInv, ChainSharedByWriters, MetadataCurrent, AckedReadable, WithinLimits

\* Records that were reported stay readable when the file grows by one.
LEMMA StaysReadable ==
    ASSUME IInv, faults = 0, NEW p \in Payloads,
           NEW r, r = MakeRecord(LastHash(volume.lines), p),
           volume' = AppendText(volume, r, TRUE)
    PROVE  /\ volume'.ended /\ Parses(volume') /\ VerifyIntegrity(volume'.lines)
           /\ Size(volume') = Size(volume) + 1
           /\ volume'.lines # <<>> /\ volume'.lines[Size(volume')] = r
           /\ \A q \in acked \cup {r} : Readable(q)'
  <1>1. /\ volume \in Volumes /\ volume.ended /\ Parses(volume)
        /\ VerifyIntegrity(volume.lines) /\ \A q \in acked : Readable(q)
    BY Undisturbed
  <1>2. Extends(volume, r, volume')
    BY <1>1, ExtendReadable
  <1>3. ASSUME NEW q \in acked PROVE Readable(q)'
    <2>1. PICK i \in 1..Size(volume) : volume.lines[i] = q
      BY <1>1 DEF Readable
    <2>2. i \in 1..Size(volume') /\ ReadMany(volume', i) = 0 /\ volume'.lines[i] = q
      BY <1>2, <2>1 DEF Extends
    <2>3. QED
      BY <2>2 DEF Readable
  <1>4. Readable(r)'
    BY <1>2 DEF Extends, Readable
  <1>5. QED
    BY <1>2, <1>3, <1>4 DEF Extends

\* What does not touch the file keeps what was reported readable.
LEMMA FileUntouched ==
    ASSUME IInv, UNCHANGED <<volume, acked, faults>>
    PROVE  ChainSharedByWriters' /\ AckedReadable' /\ WithinLimits'
  <1>1. \A r \in acked : Readable(r)' <=> Readable(r)
    BY DEF Readable
  <1>2. QED
    BY <1>1 DEF IInv, ChainSharedByWriters, AckedReadable, WithinLimits

LEMMA NextInvariant ==
    ASSUME OneWriter PROVE IInv /\ [Next]_vars => IInv'
  <1> SUFFICES ASSUME IInv, [Next]_vars PROVE IInv'
    OBVIOUS
  <1>1. TypeOK /\ TypeOK' /\ OneAtWork /\ CopiesCurrent /\ OneAtWork' /\ CopiesCurrent'
    BY NextTypeOK, NextTurns DEF IInv, Turns
  <1>2. /\ pc \in [Drivers -> {"down", "idle", "writing", "written"}]
        /\ meta \in [Drivers -> Metadata] /\ record \in [Drivers -> Records]
        /\ faults \in Nat
    BY <1>1 DEF TypeOK, Metadata
  <1>3. \A d, e \in Drivers : pc[d] # "down" /\ pc[e] # "down" => d = e
    BY <1>1 DEF OneAtWork
  <1>4. ASSUME NEW d \in Drivers, Boot(d) PROVE IInv'
    <2>1. UNCHANGED <<volume, record, acked, faults>> /\ AllDown
      BY <1>4 DEF Boot
    <2>2. /\ pc' = [pc EXCEPT ![d] = "idle"]
          /\ meta' = [meta EXCEPT ![d] = Loaded(volume)]
      BY <1>4 DEF Boot
    <2>3. \A e \in Drivers : e # d => pc'[e] = "down"
      BY <1>2, <2>1, <2>2 DEF AllDown
    <2>4. pc'[d] = "idle" /\ meta'[d] = Loaded(volume)'
      BY <1>2, <2>1, <2>2
    <2>5. MetadataCurrent' /\ InFlightCurrent'
      BY <2>3, <2>4 DEF MetadataCurrent, InFlightCurrent
    <2>6. QED
      BY <1>1, <2>1, <2>5, FileUntouched DEF IInv
  <1>5. ASSUME NEW d \in Drivers, NEW p \in Payloads, WriteOnce(d, p) PROVE IInv'
    <2>1. /\ UNCHANGED <<volume, meta, acked, faults>>
          /\ pc[d] = "idle" /\ meta[d].tail + Measured <= Limit
          /\ pc' = [pc EXCEPT ![d] = "writing"]
          /\ record' = [record EXCEPT ![d] = MakeRecord(meta[d].root_slot, p)]
      BY <1>5 DEF WriteOnce
    <2>2. /\ \A e \in Drivers : e # d => pc'[e] = "down"
          /\ pc'[d] = "writing" /\ record'[d] = MakeRecord(meta[d].root_slot, p)
      BY <1>2, <1>3, <2>1
    <2>3. ASSUME faults = 0
          PROVE  /\ meta[d] = Loaded(volume)
                 /\ record'[d] = MakeRecord(LastHash(volume.lines), record'[d].payload)
                 /\ Bytes(volume) + Measured <= Limit
      <3>1. volume \in Volumes /\ Parses(volume) /\ meta[d] = Loaded(volume)
        BY <2>1, <2>3, Undisturbed
      <3>2. meta[d].root_slot = LastHash(volume.lines) /\ meta[d].tail = Bytes(volume)
        BY <3>1, LoadedCurrent
      <3>4. Bytes(volume) + Measured <= Limit
        BY <2>1, <3>2
      <3>5. QED
        BY <2>2, <3>1, <3>2, <3>4 DEF MakeRecord
    <2>4. MetadataCurrent'
      BY <2>2 DEF MetadataCurrent
    <2>5. InFlightCurrent'
      BY <2>1, <2>2, <2>3 DEF InFlightCurrent
    <2>6. QED
      BY <1>1, <2>1, <2>4, <2>5, FileUntouched DEF IInv
  <1>6. ASSUME NEW d \in Drivers, Write(d) PROVE IInv'
    <2>1. /\ UNCHANGED <<meta, record, acked, faults>>
          /\ pc[d] = "writing" /\ pc' = [pc EXCEPT ![d] = "written"]
          /\ volume' = AppendText(volume, record[d], TRUE)
      BY <1>6 DEF Write
    <2>2. /\ \A e \in Drivers : e # d => pc'[e] = "down"
          /\ pc'[d] = "written"
      BY <1>2, <1>3, <2>1
    <2>3. MetadataCurrent'
      BY <2>2 DEF MetadataCurrent
    <2>4. CASE faults # 0
      BY <1>1, <2>1, <2>3, <2>4
         DEF IInv, ChainSharedByWriters, InFlightCurrent, AckedReadable, WithinLimits
    <2>5. CASE faults = 0
      <3>1. /\ record[d] = MakeRecord(LastHash(volume.lines), record[d].payload)
            /\ meta[d] = Loaded(volume)
            /\ Bytes(volume) + Measured <= Limit
        BY <2>1, <2>5 DEF IInv, InFlightCurrent
      <3>2. record[d].payload \in Payloads
        BY <1>2 DEF Records, RecordsOver
      <3>3. /\ volume'.ended /\ Parses(volume') /\ VerifyIntegrity(volume'.lines)
            /\ Size(volume') = Size(volume) + 1
            /\ volume'.lines # <<>> /\ volume'.lines[Size(volume')] = record[d]
            /\ \A q \in acked \cup {record[d]} : Readable(q)'
        BY <2>1, <2>5, <3>1, <3>2, StaysReadable
      <3>4. meta[d].record_count = Size(volume)
        BY <2>5, <3>1, Undisturbed, LoadedCurrent
      <3>5. Size(volume) \in Nat
        BY <2>5, Undisturbed
      <3>6. ChainSharedByWriters' /\ AckedReadable'
        BY <2>1, <3>3 DEF ChainSharedByWriters, AckedReadable
      <3>7. WithinLimits'
        <4>1. Bytes(volume') = Bytes(volume) + LineSize /\ Bytes(volume) \in Nat
          BY <3>3, <3>5, OneLineMore DEF Bytes
        <4>2. Bytes(volume) + Measured <= Limit
          BY <3>1
        <4>3. QED
          BY <4>1, <4>2, VolumeAssumption DEF WithinLimits, LargestVolume
      <3>8. InFlightCurrent'
        BY <2>1, <2>2, <3>3, <3>4 DEF InFlightCurrent
      <3>9. QED
        BY <1>1, <2>3, <3>6, <3>7, <3>8 DEF IInv
    <2>6. QED
      BY <2>4, <2>5
  <1>7. ASSUME NEW d \in Drivers,
               WriteFails(d) \/ CrashWriting(d) \/ BootUnread(d) \/ CompleteFails(d)
        PROVE  IInv'
    <2>1. faults' # 0
      BY <1>2, <1>7 DEF WriteFails, CrashWriting, BootUnread, CompleteFails
    <2>2. QED
      BY <1>1, <2>1 DEF IInv, ChainSharedByWriters, MetadataCurrent,
         InFlightCurrent, AckedReadable, WithinLimits
  <1>8. ASSUME NEW d \in Drivers, Complete(d) PROVE IInv'
    <2>1. /\ UNCHANGED <<volume, faults>>
          /\ pc[d] = "written" /\ pc' = [pc EXCEPT ![d] = "idle"]
          /\ acked' = acked \cup {record[d]}
          /\ meta' = [meta EXCEPT ![d] = [root_slot    |-> record[d].record_hash,
                                          record_count |-> meta[d].record_count + 1,
                                          tail         |-> Bytes(volume)]]
      BY <1>8 DEF Complete
    <2>2. /\ \A e \in Drivers : e # d => pc'[e] = "down"
          /\ pc'[d] = "idle"
          /\ meta'[d] = [root_slot    |-> record[d].record_hash,
                         record_count |-> meta[d].record_count + 1,
                         tail         |-> Bytes(volume)]
      BY <1>2, <1>3, <2>1
    <2>3. InFlightCurrent'
      BY <2>2 DEF InFlightCurrent
    <2>4. ChainSharedByWriters' /\ WithinLimits'
      BY <2>1 DEF IInv, ChainSharedByWriters, WithinLimits
    <2>5. ASSUME faults = 0
          PROVE  /\ meta'[d] = Loaded(volume)'
                 /\ \A r \in acked' : Readable(r)'
      <3>1. /\ volume.lines # <<>>
            /\ volume.lines[Size(volume)] = record[d]
            /\ meta[d].record_count + 1 = Size(volume)
        BY <2>1, <2>5 DEF IInv, InFlightCurrent
      <3>2. /\ volume \in Volumes /\ Parses(volume) /\ VerifyIntegrity(volume.lines)
            /\ \A r \in acked : Readable(r)
            /\ Size(volume) \in Nat
        BY <2>5, Undisturbed
      <3>3. LastHash(volume.lines) = record[d].record_hash
        BY <3>1 DEF LastHash, Size
      <3>4. Loaded(volume) = [root_slot |-> LastHash(volume.lines),
                              record_count |-> Size(volume), tail |-> Bytes(volume)]
        BY <3>2, LoadedCurrent
      <3>5. meta'[d] = Loaded(volume)'
        BY <2>1, <2>2, <3>1, <3>3, <3>4
      <3>6. Readable(record[d])
        <4>1. volume.lines \in Seq(RecordsOver(Payloads)) /\ Size(volume) \in 1..Size(volume)
          BY <3>1, <3>2, ParsedLines DEF Records, Size
        <4>2. ReadMany(volume, Size(volume)) = 0
          BY <3>2, <4>1, IntactReadable
        <4>3. QED
          BY <3>1, <4>1, <4>2 DEF Readable
      <3>7. \A r \in acked \cup {record[d]} : Readable(r)'
        BY <2>1, <3>2, <3>6 DEF Readable
      <3>8. QED
        BY <2>1, <3>5, <3>7
    <2>6. MetadataCurrent' /\ AckedReadable'
      BY <2>1, <2>2, <2>5 DEF MetadataCurrent, AckedReadable
    <2>7. QED
      BY <1>1, <2>3, <2>4, <2>6 DEF IInv
  <1>9. ASSUME NEW d \in Drivers, Halt(d) PROVE IInv'
    <2>1. /\ UNCHANGED <<volume, acked, faults>>
          /\ pc[d] # "down" /\ pc' = [pc EXCEPT ![d] = "down"]
      BY <1>9 DEF Halt
    <2>2. \A e \in Drivers : pc'[e] = "down"
      BY <1>2, <1>3, <2>1
    <2>3. MetadataCurrent' /\ InFlightCurrent'
      BY <2>2 DEF MetadataCurrent, InFlightCurrent
    <2>4. QED
      BY <1>1, <2>1, <2>3, FileUntouched DEF IInv
  <1>10. ASSUME NEW e \in Engines, EngineReplace(e) PROVE IInv'
    <2> DEFINE r == append[e].record
    <2>0. /\ append[e].at = "copied"
          /\ volume' = AppendText(append[e].existing, r, TRUE) /\ acked' = acked \cup {r}
          /\ UNCHANGED <<meta, pc, record, faults>>
      BY <1>10 DEF EngineReplace
    <2>1. /\ volume' = AppendText(volume, r, TRUE)
          /\ r = MakeRecord(LastHash(volume.lines), r.payload)
          /\ Bytes(volume) + LineSize <= EngineLimit
          /\ \A d \in Drivers : pc[d] = "down"
      BY <1>1, <2>0, EngineAlone DEF CopiesCurrent
    <2>2. MetadataCurrent' /\ InFlightCurrent'
      BY <2>0, <2>1 DEF MetadataCurrent, InFlightCurrent
    <2>3. CASE faults # 0
      BY <1>1, <2>0, <2>2, <2>3
         DEF IInv, ChainSharedByWriters, AckedReadable, WithinLimits
    <2>4. CASE faults = 0
      <3>1. r.payload \in Payloads
        BY <1>1 DEF TypeOK, Records, RecordsOver
      <3> HIDE DEF r
      <3>2. /\ volume'.ended /\ Parses(volume') /\ VerifyIntegrity(volume'.lines)
            /\ Size(volume') = Size(volume) + 1
            /\ \A q \in acked \cup {r} : Readable(q)'
        BY <2>1, <2>4, <3>1, StaysReadable
      <3>3. Size(volume) \in Nat
        BY <2>4, Undisturbed
      <3>4. ChainSharedByWriters' /\ AckedReadable'
        BY <2>0, <3>2 DEF ChainSharedByWriters, AckedReadable
      <3>5. WithinLimits'
        <4>1. Bytes(volume') = Bytes(volume) + LineSize /\ Bytes(volume) \in Nat
          BY <3>2, <3>3, OneLineMore DEF Bytes
        <4>2. Bytes(volume) + LineSize <= EngineLimit
          BY <2>1
        <4>3. QED
          BY <4>1, <4>2, VolumeAssumption DEF WithinLimits, LargestVolume
      <3>6. QED
        BY <1>1, <2>2, <3>4, <3>5 DEF IInv
    <2>5. QED
      BY <2>3, <2>4
  <1>11. ASSUME \E e \in Engines :
                   (\E p \in Payloads : EngineLink(e, p)) \/ EngineCopy(e) \/ EngineGivesUp(e)
         PROVE  IInv'
    <2>1. UNCHANGED <<volume, meta, pc, record, acked, faults>>
      BY <1>11 DEF EngineLink, EngineCopy, EngineGivesUp
    <2>2. MetadataCurrent' /\ InFlightCurrent'
      BY <2>1 DEF IInv, MetadataCurrent, InFlightCurrent
    <2>3. QED
      BY <1>1, <2>1, <2>2, FileUntouched DEF IInv
  <1>12. ASSUME InitializeBridge \/ SyncFromWorm \/ UNCHANGED vars PROVE IInv'
    <2>1. UNCHANGED <<volume, meta, pc, record, acked, faults>>
      BY <1>12 DEF InitializeBridge, SyncFromWorm, vars
    <2>2. MetadataCurrent' /\ InFlightCurrent'
      BY <2>1 DEF IInv, MetadataCurrent, InFlightCurrent
    <2>3. QED
      BY <1>1, <2>1, <2>2, FileUntouched DEF IInv
  <1>13. QED
    BY <1>4, <1>5, <1>6, <1>7, <1>8, <1>9, <1>10, <1>11, <1>12 DEF Next

\* As long as writers take turns, IInv always holds.
THEOREM Invariant == ASSUME OneWriter PROVE Spec => []IInv
  <1>1. IInv /\ [Next]_vars => IInv'
    BY NextInvariant
  <1>2. QED
    BY InitInvariant, <1>1, PTL DEF Spec

\* As long as writers take turns and no write is cut short, what the driver
\* appends in place and what the engine appends by renaming is one chain.
THEOREM SharedChain == ASSUME OneWriter PROVE Spec => []ChainSharedByWriters
  <1>1. IInv => ChainSharedByWriters
    BY DEF IInv
  <1>2. QED
    BY Invariant, <1>1, PTL

\* As long as writers take turns and no write is cut short, an idle driver's
\* root, count and tail are those a reboot would load.
THEOREM DriverCurrent == ASSUME OneWriter PROVE Spec => []MetadataCurrent
  <1>1. IInv => MetadataCurrent
    BY DEF IInv
  <1>2. QED
    BY Invariant, <1>1, PTL

\* As long as writers take turns and no write is cut short, READ_MANY finds
\* and verifies every record that WRITE_ONCE or append() reported.
THEOREM ReportedReadable == ASSUME OneWriter PROVE Spec => []AckedReadable
  <1>1. IInv => AckedReadable
    BY DEF IInv
  <1>2. QED
    BY Invariant, <1>1, PTL

\* As long as writers take turns and no write is cut short, the file is never
\* over the larger of the two caps by more than one line's unmeasured part.
THEOREM VolumeWithinLimits == ASSUME OneWriter PROVE Spec => []WithinLimits
  <1>1. IInv => WithinLimits
    BY DEF IInv
  <1>2. QED
    BY Invariant, <1>1, PTL

-----------------------------------------------------------------------------
(* What holds whatever is cut short, as long as writers take turns or none of
   them is an engine, which puts a copy of the file in its place. *)

\* A later file that parses has the lines of the earlier one, which parsed.
KeepsLines(v, w) ==
    Parses(w) => /\ Parses(v)
                 /\ \A i \in 1..Size(v) : i \in 1..Size(w) /\ w.lines[i] = v.lines[i]

\* Text at the end of a file keeps its lines: it is a line of its own, or it
\* tears the last line, and then the file does not parse.
LEMMA TextKeepsLines ==
    ASSUME NEW v \in Volumes, v.lines = <<>> => v.ended,
           NEW line \in LinesOver(Payloads), NEW ended \in BOOLEAN
    PROVE  KeepsLines(v, AppendText(v, line, ended))
  <1> DEFINE w == AppendText(v, line, ended)
  <1>1. v.lines \in Seq(LinesOver(Payloads)) /\ Size(v) = Len(v.lines)
    BY DEF Volumes, Size
  <1>2. CASE v.ended
    <2>1. w.lines = Append(v.lines, line)
      BY <1>2 DEF AppendText
    <2>2. \A i \in 1..Len(v.lines) : Append(v.lines, line)[i] = v.lines[i]
      BY <1>1, AppendedLine
    <2> HIDE DEF w
    <2>3. \A i \in 1..Size(v) : w.lines[i] = v.lines[i]
      BY <1>1, <2>1, <2>2
    <2>4. Size(v) \in Nat /\ Size(w) = Size(v) + 1
      BY <1>1, <2>1 DEF Size
    <2>5. \A i \in 1..Size(v) : i \in 1..Size(w)
      BY <2>4, OneMore
    <2>6. Parses(w) => Parses(v)
      BY <2>3, <2>5 DEF Parses
    <2>7. KeepsLines(v, w)
      BY <2>3, <2>5, <2>6 DEF KeepsLines
    <2>8. QED
      BY <2>7 DEF w
  <1>3. CASE ~v.ended
    <2>1. w.lines = [v.lines EXCEPT ![Size(v)] = TornLine]
      BY <1>3 DEF AppendText
    <2>2. Size(v) \in 1..Len(v.lines)
      BY <1>1, <1>3
    <2>3. TornLine \in LinesOver(Payloads)
      BY DEF LinesOver
    <2>4. Len([v.lines EXCEPT ![Size(v)] = TornLine]) = Len(v.lines)
      BY <1>1, <2>2, <2>3, ReplaceLine
    <2>5. [v.lines EXCEPT ![Size(v)] = TornLine][Size(v)] = TornLine
      BY <1>1, <2>2
    <2> HIDE DEF w
    <2>6. w.lines[Size(v)] = TornLine /\ Size(v) \in 1..Size(w)
      BY <2>1, <2>2, <2>4, <2>5 DEF Size
    <2>7. ~Parses(w)
      BY <2>6 DEF Parses
    <2>8. KeepsLines(v, w)
      BY <2>7 DEF KeepsLines
    <2>9. QED
      BY <2>8 DEF w
  <1>4. QED
    BY <1>2, <1>3

\* So every step keeps the lines; an engine's copy is the file it replaces.
LEMMA StepKeepsLines ==
    ASSUME OneWriter \/ Engines = {}
    PROVE  TypeOK /\ Turns /\ [Next]_vars => KeepsLines(volume, volume')
  <1> SUFFICES ASSUME TypeOK, Turns, [Next]_vars PROVE KeepsLines(volume, volume')
    OBVIOUS
  <1>1. volume \in Volumes /\ (volume.lines = <<>> => volume.ended)
    BY DEF TypeOK, Volumes
  <1>2. TornLine \in LinesOver(Payloads) /\ \A r \in Records : r \in LinesOver(Payloads)
    BY DEF LinesOver, Records
  <1>3. \A d \in Drivers : record[d] \in Records
    BY DEF TypeOK
  <1>4. CASE volume' = volume
    BY <1>4 DEF KeepsLines
  <1>5. CASE \E line \in LinesOver(Payloads), ended \in BOOLEAN :
                volume' = AppendText(volume, line, ended)
    BY <1>1, <1>5, TextKeepsLines
  <1>6. ASSUME NEW d \in Drivers, Write(d) PROVE KeepsLines(volume, volume')
    BY <1>2, <1>3, <1>5, <1>6 DEF Write
  <1>7. ASSUME NEW d \in Drivers, WriteFails(d) \/ CrashWriting(d)
        PROVE  KeepsLines(volume, volume')
    <2>1. volume' \in {volume, AppendText(volume, TornLine, FALSE),
                      AppendText(volume, record[d], FALSE), AppendText(volume, record[d], TRUE)}
      BY <1>7 DEF WriteFails, CrashWriting, CutShort
    <2>2. QED
      BY <1>2, <1>3, <1>4, <1>5, <2>1
  <1>8. ASSUME NEW e \in Engines, EngineReplace(e) PROVE KeepsLines(volume, volume')
    <2>1. append[e].at = "copied" /\ volume' = AppendText(append[e].existing, append[e].record, TRUE)
      BY <1>8 DEF EngineReplace
    <2>2. append[e].existing = volume
      BY <2>1 DEF Turns, CopiesCurrent
    <2>3. append[e].record \in Records
      BY DEF TypeOK
    <2>4. QED
      BY <1>2, <1>5, <2>1, <2>2, <2>3
  <1>9. ASSUME NEW d \in Drivers,
               \/ Boot(d) \/ BootUnread(d) \/ (\E p \in Payloads : WriteOnce(d, p))
               \/ Complete(d) \/ CompleteFails(d) \/ Halt(d)
        PROVE  KeepsLines(volume, volume')
    BY <1>4, <1>9 DEF Boot, BootUnread, WriteOnce, Complete, CompleteFails, Halt
  <1>10. ASSUME NEW e \in Engines,
               (\E p \in Payloads : EngineLink(e, p)) \/ EngineCopy(e) \/ EngineGivesUp(e)
         PROVE  KeepsLines(volume, volume')
    BY <1>4, <1>10 DEF EngineLink, EngineCopy, EngineGivesUp
  <1>11. ASSUME InitializeBridge \/ SyncFromWorm \/ UNCHANGED vars
         PROVE  KeepsLines(volume, volume')
    BY <1>4, <1>11 DEF InitializeBridge, SyncFromWorm, vars
  <1>12. QED
    BY <1>6, <1>7, <1>8, <1>9, <1>10, <1>11 DEF Next

\* Types and turns, whatever becomes of the writes.
LEMMA TypesAndTurns == Spec => [](TypeOK /\ Turns)
  <1>1. TypeOK /\ Turns /\ [Next]_vars => (TypeOK /\ Turns)'
    BY NextTypeOK, NextTurns
  <1>2. QED
    BY InitTypeOK, InitTurns, <1>1, PTL DEF Spec

\* READ_MANY never answers one index with two records, through any number of
\* reboots, faults and writes cut short: with drivers and engines that take
\* turns, and with any number of drivers at once when no engine writes. (An
\* engine next to a driver overwrites what the driver appended since its copy.)
THEOREM AnswersStable == ASSUME OneWriter \/ Engines = {} PROVE Spec => ReadStable
  <1>1. ASSUME TypeOK, Turns, [Next]_vars
        PROVE  \A i \in 1..Size(volume) :
                  ReadMany(volume, i) = 0 /\ ReadMany(volume', i) = 0
                     => volume'.lines[i] = volume.lines[i]
    <2>1. KeepsLines(volume, volume')
      BY <1>1, StepKeepsLines
    <2>2. \A i : ReadMany(volume', i) = 0 => Parses(volume')
      BY DEF ReadMany
    <2>3. QED
      BY <2>1, <2>2 DEF KeepsLines
  <1>2. TypeOK /\ Turns /\ [Next]_vars =>
          [\A i \in 1..Size(volume) :
              ReadMany(volume, i) = 0 /\ ReadMany(volume', i) = 0
                 => volume'.lines[i] = volume.lines[i]]_vars
    BY <1>1
  <1>3. QED
    BY TypesAndTurns, <1>2, PTL DEF Spec, ReadStable

\* An anchor that tells the truth about a file.
Attests(anchor, v) ==
    anchor.record_count > 0 =>
        /\ anchor.record_count <= Size(v)
        /\ v.lines[anchor.record_count].record_hash = anchor.worm_root_hash

\* An anchor that told it goes on to, as long as the file parses.
LEMMA StillAttests ==
    ASSUME NEW v, NEW w, Size(v) \in Nat, Size(w) \in Nat, KeepsLines(v, w), Parses(w),
           NEW anchor \in Anchors, Attests(anchor, v)
    PROVE  Attests(anchor, w)
  <1>1. anchor.record_count \in Nat
    BY DEF Anchors
  <1>2. CASE anchor.record_count > 0
    <2>1. /\ anchor.record_count <= Size(v)
          /\ v.lines[anchor.record_count].record_hash = anchor.worm_root_hash
      BY <1>2 DEF Attests
    <2>2. anchor.record_count \in 1..Size(v)
      BY <1>1, <1>2, <2>1
    <2>3. /\ anchor.record_count \in 1..Size(w)
          /\ w.lines[anchor.record_count] = v.lines[anchor.record_count]
      BY <2>2 DEF KeepsLines
    <2>4. QED
      BY <2>1, <2>3 DEF Attests
  <1>3. QED
    BY <1>2 DEF Attests

\* The anchor sync_from_worm() makes tells it.
LEMMA SyncAttests ==
    ASSUME NEW v \in Volumes, v.lines # <<>>
    PROVE  Attests(Anchor(LastHash(v.lines), Size(v)), v)
  <1>1. LastHash(v.lines) = v.lines[Size(v)].record_hash
    BY DEF LastHash, Size
  <1>2. Size(v) \in Nat
    BY DEF Size, Volumes
  <1>3. QED
    BY <1>1, <1>2 DEF Attests, Anchor

\* AnchorsAttest, by the name above.
LEMMA AttestsEach ==
    AnchorsAttest <=> (Parses(volume) => \A k \in 2..Len(anchors) : Attests(anchors[k], volume))
  BY DEF AnchorsAttest, Attests

\* A chain that grows by an anchor that tells the truth.
LEMMA AnchorStateAttests ==
    ASSUME TypeOK, AnchorsAttest, UNCHANGED volume,
           NEW root \in Seq(Payloads) \cup {EmptyWormRoot}, NEW count \in Nat,
           AnchorState(root, count), Attests(Anchor(root, count), volume)
    PROVE  AnchorsAttest'
  <1> DEFINE chain == IF anchors = <<>> THEN <<Genesis>> ELSE anchors
             new == Anchor(root, count)
  <1>1. Genesis \in Anchors /\ new \in Anchors
    BY DEF Genesis, Anchor, Anchors, ZeroHash
  <1>2. chain \in Seq(Anchors) /\ (\A k \in 2..Len(chain) : chain[k] = anchors[k] /\ k \in 2..Len(anchors))
    BY <1>1 DEF TypeOK
  <1>3. anchors' = Append(chain, new) /\ Attests(new, volume)
    BY DEF AnchorState
  <1> HIDE DEF chain, new
  <1>4. \A k \in 2..Len(anchors') : (k \in 2..Len(chain) /\ anchors'[k] = chain[k]) \/ anchors'[k] = new
    BY <1>1, <1>2, <1>3
  <1>5. ASSUME Parses(volume), NEW k \in 2..Len(anchors') PROVE Attests(anchors'[k], volume)
    <2>1. CASE anchors'[k] = new
      BY <1>3, <2>1
    <2>2. CASE k \in 2..Len(chain) /\ anchors'[k] = chain[k]
      BY <1>2, <1>5, <2>2, AttestsEach
    <2>3. QED
      BY <1>4, <2>1, <2>2
  <1>6. QED
    BY <1>5, AttestsEach DEF AnchorsAttest, Attests

\* Every anchor sync_from_worm() took names the hash of the record that is at
\* its count now, whatever was cut short since, as long as the file can be read:
\* with drivers and engines that take turns, and with any number of drivers at
\* once when no engine writes.
THEOREM AnchorsTrue == ASSUME OneWriter \/ Engines = {} PROVE Spec => []AnchorsAttest
  <1>1. Init => AnchorsAttest
    BY DEF Init, AnchorsAttest
  <1>2. ASSUME TypeOK, TypeOK', Turns, AnchorsAttest, [Next]_vars PROVE AnchorsAttest'
    <2>1. volume \in Volumes /\ volume' \in Volumes /\ anchors \in Seq(Anchors)
      BY <1>2 DEF TypeOK, Volumes
    <2>2. Size(volume) \in Nat /\ Size(volume') \in Nat
      BY <2>1 DEF Size, Volumes
    <2>3. KeepsLines(volume, volume')
      BY <1>2, StepKeepsLines
    <2>4. CASE UNCHANGED anchors
      <3>1. ASSUME Parses(volume'), NEW k \in 2..Len(anchors)
            PROVE  Attests(anchors[k], volume')
        <4>1. Parses(volume)
          BY <2>3, <3>1 DEF KeepsLines
        <4>2. Attests(anchors[k], volume) /\ anchors[k] \in Anchors
          BY <1>2, <2>1, <4>1, AttestsEach
        <4>3. QED
          BY <2>2, <2>3, <3>1, <4>2, StillAttests
      <3>2. QED
        BY <2>4, <3>1 DEF AnchorsAttest, Attests
    <2>5. CASE InitializeBridge
      <3>1. Len(anchors') = 1
        BY <2>5 DEF InitializeBridge
      <3>2. QED
        BY <3>1 DEF AnchorsAttest
    <2>6. CASE SyncFromWorm
      <3>1. UNCHANGED volume /\ Parses(volume)
        BY <2>6 DEF SyncFromWorm
      <3>2. CASE volume.lines = <<>>
        <4>1. AnchorState(EmptyWormRoot, 0)
          BY <2>6, <3>2 DEF SyncFromWorm
        <4>2. Attests(Anchor(EmptyWormRoot, 0), volume)
          BY DEF Attests, Anchor
        <4>3. QED
          BY <1>2, <3>1, <4>1, <4>2, AnchorStateAttests
      <3>3. CASE volume.lines # <<>>
        <4>1. AnchorState(LastHash(volume.lines), Size(volume))
          BY <2>6, <3>3 DEF SyncFromWorm
        <4>2. LastHash(volume.lines) \in Seq(Payloads)
          BY <2>1, <3>1, ParsedEnd
        <4>3. QED
          BY <1>2, <2>1, <2>2, <3>1, <3>3, <4>1, <4>2, SyncAttests, AnchorStateAttests
      <3>4. QED
        BY <3>2, <3>3
    <2>7. QED
      BY <1>2, <2>4, <2>5, <2>6
         DEF Next, Boot, BootUnread, WriteOnce, Write, WriteFails, Complete, CompleteFails,
             Halt, CrashWriting, EngineLink, EngineCopy, EngineReplace, EngineGivesUp, vars
  <1>3. TypeOK /\ TypeOK' /\ Turns /\ AnchorsAttest /\ [Next]_vars => AnchorsAttest'
    BY <1>2
  <1>4. QED
    BY TypesAndTurns, <1>1, <1>3, PTL DEF Spec
=============================================================================
