------------------------- MODULE FinanceTwinProofs -------------------------
(***************************************************************************)
(* Proofs about engines that nothing overlaps: for any threads, processes, *)
(* commands and limits, with verifications and processes one at a time.    *)
(* At most one thread is past the command lock or inside a verification,   *)
(* so what it read when it began still holds when it acts on it.           *)
(***************************************************************************)
EXTENDS FinanceTwin, DataLemmas

OneAtATime == ~VerifyOverlaps /\ ~ProcessesOverlap

\* The fields of an engine that execute_command() and rebuild_state() write.
IsState(s) ==
    s = [books |-> s.books, event_count |-> s.event_count, seal |-> s.seal]

IsReplay(r) ==
    /\ r = [failed |-> r.failed, state |-> r.state, opened |-> r.opened]
    /\ IsState(r.state)

Stages == {"idle"} \cup CommandStages \cup VerifyStages
Requests == Commands \cup {Malformed}

\* What the variables are, as far as the proofs need it.
Shapes ==
    /\ log \in Seq(Requests)
    /\ DOMAIN mem = Processes /\ DOMAIN candidate = Threads /\ DOMAIN before = Threads
    /\ up \in [Processes -> BOOLEAN]
    /\ lock \in [Processes -> Threads \cup {NoThread}]
    /\ \A p \in Processes : lock[p] # NoThread => ProcessOf[lock[p]] = p
    /\ pc \in [Threads -> Stages]
    /\ command \in [Threads -> Requests]
    /\ pending \in [Threads -> Seq(Requests)]
    /\ \A p \in Processes : IsState(mem[p])
    /\ \A n \in 0..Len(log) : IsReplay(replays[n])

\* Past the lock, or verifying.
Active(t) == pc[t] \in Stages \ {"idle", "waiting"}

\* Whatever the live state of an engine nobody is changing.
Settled ==
    \A p \in Processes :
        up[p] /\ (\A t \in Threads : ProcessOf[t] = p => pc[t] \notin Changing)
          => mem[p] = replayed.state

CurrentOf(t) ==
    /\ pc[t] = "validated" =>
          candidate[t] = Counted(Apply(replayed.state, command[t]))
    /\ pc[t] \in {"appended", "publishing"} => candidate[t] = replayed.state

IInv == Shapes /\ TwinInv

-----------------------------------------------------------------------------
\* One event applied to a state, and to the replay of a log.
LEMMA FreshIsState == IsState(Fresh)
BY DEF IsState, Fresh

LEMMA AppliedIsState ==
    ASSUME NEW s, IsState(s), NEW e
    PROVE  IsState(Counted(Apply(s, e)))
<1>1. PICK b, n, c : s = [books |-> b, event_count |-> n, seal |-> c]
    BY DEF IsState
<1>. DEFINE u == [s EXCEPT !.books = Effect(@, e)]
            item == [event |-> e, resulting |-> StateHash(u)]
<1>2. u = [books |-> Effect(b, e), event_count |-> n, seal |-> c]
    BY <1>1
<1>3. Apply(s, e) = [u EXCEPT !.seal = Append(@, item)]
    BY DEF Apply
<1>. HIDE DEF u, item
<1>4. Apply(s, e) = [books |-> Effect(b, e), event_count |-> n, seal |-> Append(c, item)]
    BY <1>2, <1>3
<1>5. Counted(Apply(s, e)) =
        [books |-> Effect(b, e), event_count |-> n + 1, seal |-> Append(c, item)]
    BY <1>4 DEF Counted
<1>. QED
    BY <1>5 DEF IsState

LEMMA ReplayStep ==
    ASSUME NEW r, NEW e, ~r.failed, Accepts(r.state.books, e)
    PROVE  /\ ReplayNext(r, e).failed = FALSE
           /\ ReplayNext(r, e).state = Counted(Apply(r.state, e))
BY DEF ReplayNext

LEMMA ReplayKept ==
    ASSUME NEW r, NEW e, IsReplay(r), ~ReplayNext(r, e).failed
    PROVE  ~r.failed /\ Accepts(r.state.books, e)
BY DEF ReplayNext, IsReplay

LEMMA ReplayIsReplay ==
    ASSUME NEW r, NEW e, IsReplay(r)
    PROVE  IsReplay(ReplayNext(r, e))
<1>1. IsState(Counted(Apply(r.state, e)))
    BY AppliedIsState DEF IsReplay
<1>2. CASE r.failed \/ ~Accepts(r.state.books, e)
    BY <1>2 DEF ReplayNext, IsReplay
<1>3. CASE ~(r.failed \/ ~Accepts(r.state.books, e))
    BY <1>1, <1>3 DEF ReplayNext, IsReplay
<1>. QED
    BY <1>2, <1>3

LEMMA ActiveAlone ==
    ASSUME TwinAssumption, OneAtATime, Shapes, Exclusive,
           NEW t \in Threads, Active(t), NEW u \in Threads \ {t}
    PROVE  /\ pc[u] \in {"idle", "waiting"}
           /\ pc[t] \in VerifyStages => pc[u] = "idle"
<1>1. up[ProcessOf[t]] /\ pc[t] # "idle"
    BY DEF Exclusive, Active
<1>2. CASE pc[u] = "idle"
    BY <1>2
<1>3. CASE pc[u] # "idle"
    <2>1. ProcessOf[u] = ProcessOf[t]
        BY <1>1, <1>3 DEF Exclusive, TwinAssumption
    <2>2. pc[t] \notin VerifyStages /\ pc[u] \notin VerifyStages
        BY <1>1, <1>3, <2>1 DEF Exclusive, Peers
    <2>3. pc[t] \in CommandStages \ {"waiting"}
        BY <2>2 DEF Active, Stages
    <2>4. pc[u] \notin CommandStages \ {"waiting"}
        BY <2>1, <2>3 DEF Exclusive
    <2>5. pc[u] = "waiting"
        BY <1>3, <2>2, <2>4 DEF Shapes, Stages
    <2>. QED
        BY <2>2, <2>5
<1>. QED
    BY <1>2, <1>3

\* Only an active thread has anything to keep.
LEMMA OnlyActive ==
    ASSUME Shapes', Exclusive', PrefixesReplay', Settled',
           \A t \in Threads : Active(t)' => CurrentOf(t)' /\ Staged(t)'
    PROVE  TwinInv'
<1>1. ASSUME NEW t \in Threads, ~Active(t)' PROVE CurrentOf(t)' /\ Staged(t)'
    <2>1. pc'[t] \in {"idle", "waiting"}
        BY <1>1 DEF Active, Shapes
    <2>. QED
        BY <2>1 DEF CurrentOf, Staged
<1>2. CandidateCurrent' /\ \A t \in Threads : Staged(t)'
    BY <1>1 DEF CandidateCurrent, CurrentOf
<1>. QED
    BY <1>2 DEF TwinInv, Settled

LEMMA Parts ==
    ASSUME TwinInv
    PROVE  /\ Exclusive /\ PrefixesReplay /\ Settled
           /\ \A t \in Threads : CurrentOf(t) /\ Staged(t)
BY DEF TwinInv, CandidateCurrent, CurrentOf, Settled

LEMMA ReplayedIsState ==
    ASSUME Shapes
    PROVE  /\ Len(log) \in Nat /\ Len(log) \in 0..Len(log)
           /\ IsReplay(replayed) /\ IsState(replayed.state)
<1>1. Len(log) \in Nat
    BY DEF Shapes
<1>2. Len(log) \in 0..Len(log)
    BY <1>1
<1>. QED
    BY <1>1, <1>2 DEF Shapes, replayed, IsReplay

LEMMA InitInvariant == ASSUME TwinAssumption, Init PROVE IInv
<1>0. IsReplay(NothingReplayed)
    BY FreshIsState DEF NothingReplayed, IsReplay
<1>1. Shapes
    BY <1>0, FreshIsState DEF Init, Shapes, Stages, Requests
<1>2. Exclusive
    BY DEF Init, Exclusive, TwinAssumption, CommandStages, VerifyStages
<1>3. PrefixesReplay
    BY DEF Init, PrefixesReplay, NothingReplayed
<1>4. TwinInv
    BY <1>2, <1>3 DEF Init, TwinInv, CandidateCurrent, Staged
<1>. QED
    BY <1>1, <1>4 DEF IInv

-----------------------------------------------------------------------------
\* Processes start and stop, and threads call.
LEMMA StartStep ==
    ASSUME TwinAssumption, OneAtATime, IInv, NEW p \in Processes, Start(p)
    PROVE  IInv'
<1>1. Exclusive /\ PrefixesReplay /\ Settled /\ \A t \in Threads : CurrentOf(t) /\ Staged(t)
    BY Parts DEF IInv
<1>2. /\ Shapes /\ \A q \in Processes : ~up[q]
      /\ \A q \in Processes : up'[q] = (q = p)
    BY DEF IInv, Start, OneAtATime, Shapes
<1>3. \A t \in Threads : pc[t] = "idle"
    BY <1>1, <1>2 DEF Exclusive, TwinAssumption
<1>4. IsState(replayed.state)
    BY <1>2, ReplayedIsState
<1>5. Shapes'
    BY <1>2, <1>4 DEF Shapes, Start, history, locals
<1>6. Exclusive'
    BY <1>1, <1>2, <1>3 DEF Exclusive, Start, locals, Peers, VerifyStages, CommandStages
<1>7. PrefixesReplay'
    BY <1>1 DEF PrefixesReplay, Start, history
<1>8. Settled'
    BY <1>2 DEF Settled, Start, history, replayed, Shapes
<1>9. \A t \in Threads : ~Active(t)'
    BY <1>3 DEF Active, Start, Stages
<1>. QED
    BY <1>5, <1>6, <1>7, <1>8, <1>9, OnlyActive DEF IInv

LEMMA StopStep ==
    ASSUME TwinAssumption, OneAtATime, IInv, NEW p \in Processes, Stop(p)
    PROVE  IInv'
<1>1. Exclusive /\ PrefixesReplay /\ Settled /\ Shapes
    BY Parts DEF IInv
<1>2. /\ up[p] /\ \A q \in Processes : ~up'[q]
    BY <1>1 DEF Stop, Exclusive, Shapes
<1>3. \A t \in Threads : pc'[t] = "idle"
    BY <1>1, <1>2 DEF Exclusive, TwinAssumption, Stop
<1>4. Shapes'
    BY <1>1, FreshIsState DEF Shapes, Stop, history, Stages, Requests
<1>5. \A q \in Processes : lock'[q] = NoThread
    <2>1. ASSUME NEW q \in Processes \ {p}, lock[q] # NoThread PROVE FALSE
        <3>1. lock[q] \in Threads /\ ProcessOf[lock[q]] = q
            BY <1>1, <2>1 DEF Shapes
        <3>2. pc[lock[q]] # "idle" /\ up[q]
            BY <1>1, <2>1, <3>1 DEF Exclusive, CommandStages
        <3>. QED
            BY <1>1, <1>2, <2>1, <3>2 DEF Exclusive, Stop
    <2>. QED
        BY <1>1, <2>1 DEF Stop, Shapes
<1>6. Exclusive'
    BY <1>2, <1>3, <1>5 DEF Exclusive, TwinAssumption, CommandStages, VerifyStages
<1>7. PrefixesReplay'
    BY <1>1 DEF PrefixesReplay, Stop, history
<1>8. Settled'
    BY <1>2 DEF Settled
<1>9. \A t \in Threads : ~Active(t)'
    BY <1>3 DEF Active
<1>. QED
    BY <1>4, <1>6, <1>7, <1>8, <1>9, OnlyActive DEF IInv

-----------------------------------------------------------------------------
\* A command, from the call to the lock.
LEMMA CallStep ==
    ASSUME TwinAssumption, OneAtATime, IInv, NEW t \in Threads, NEW e \in Commands,
           Call(t, e)
    PROVE  IInv'
<1>1. /\ Exclusive /\ PrefixesReplay /\ Settled /\ Shapes
      /\ \A u \in Threads : CurrentOf(u) /\ Staged(u)
    BY Parts DEF IInv
<1>2. \A u \in Threads : /\ pc'[u] = IF u = t THEN "waiting" ELSE pc[u]
                         /\ command'[u] = IF u = t THEN e ELSE command[u]
    BY <1>1 DEF Call, Goto, Shapes
<1>3. \A u \in Peers(t) : pc[u] \notin VerifyStages
    BY DEF Call, OneAtATime
<1>4. Shapes'
    BY <1>1, <1>2 DEF Shapes, Call, Goto, history, Stages, CommandStages, Requests
<1>5. Exclusive'
    <2>1. \A p, q \in Processes : up'[p] /\ up'[q] => p = q
        BY <1>1 DEF Exclusive, Call
    <2>2. ASSUME NEW u \in Threads
          PROVE  /\ pc'[u] # "idle" => up'[ProcessOf[u]]
                 /\ pc'[u] \in CommandStages \ {"waiting"} <=> lock'[ProcessOf[u]] = u
        <3>1. CASE u = t
            BY <1>1, <1>2, <3>1 DEF Exclusive, Call, CommandStages
        <3>2. CASE u # t
            BY <1>1, <1>2, <3>2 DEF Exclusive, Call
        <3>. QED
            BY <3>1, <3>2
    <2>3. ASSUME NEW u \in Threads, pc'[u] \in VerifyStages, NEW w \in Peers(u) \ {u}
          PROVE  pc'[w] = "idle"
        <3>1. u # t /\ pc[u] \in VerifyStages
            BY <1>2, <2>3 DEF VerifyStages
        <3>2. w # t
            BY <1>3, <2>3, <3>1 DEF Peers
        <3>. QED
            BY <1>1, <1>2, <2>3, <3>1, <3>2 DEF Exclusive, Peers
    <2>. QED
        BY <2>1, <2>2, <2>3 DEF Exclusive, Peers
<1>6. PrefixesReplay'
    BY <1>1 DEF PrefixesReplay, Call, history
<1>7. Settled'
    BY <1>1, <1>2 DEF Settled, Call, history, replayed, Changing
<1>8. ASSUME NEW u \in Threads, Active(u)' PROVE CurrentOf(u)' /\ Staged(u)'
    <2>1. u # t
        BY <1>2, <1>8 DEF Active
    <2>. QED
        BY <1>1, <1>2, <2>1 DEF CurrentOf, Staged, Rebuilding, Live, Call, history, replayed
<1>. QED
    BY <1>4, <1>5, <1>6, <1>7, <1>8, OnlyActive DEF IInv

LEMMA AcquireStep ==
    ASSUME TwinAssumption, OneAtATime, IInv, NEW t \in Threads, Acquire(t)
    PROVE  IInv'
<1>1. /\ Exclusive /\ PrefixesReplay /\ Settled /\ Shapes
      /\ \A u \in Threads : CurrentOf(u) /\ Staged(u)
    BY Parts DEF IInv
<1>2. \A u \in Threads : pc'[u] = IF u = t THEN "locked" ELSE pc[u]
    BY <1>1 DEF Acquire, Goto, Shapes
<1>3. /\ ProcessOf[t] \in Processes /\ pc[t] = "waiting"
      /\ \A p \in Processes : lock'[p] = IF p = ProcessOf[t] THEN t ELSE lock[p]
    BY <1>1 DEF Acquire, Shapes, TwinAssumption
<1>4. Shapes'
    BY <1>1, <1>2, <1>3 DEF Shapes, Acquire, Goto, history, locals, Stages, CommandStages
<1>5. Exclusive'
    <2>1. \A p, q \in Processes : up'[p] /\ up'[q] => p = q
        BY <1>1 DEF Exclusive, Acquire
    <2>2. ASSUME NEW u \in Threads
          PROVE  /\ pc'[u] # "idle" => up'[ProcessOf[u]]
                 /\ pc'[u] \in CommandStages \ {"waiting"} <=> lock'[ProcessOf[u]] = u
        <3>1. CASE u = t
            BY <1>1, <1>2, <1>3, <3>1 DEF Exclusive, Acquire, CommandStages
        <3>2. CASE u # t
            <4>1. lock[ProcessOf[t]] # u /\ ProcessOf[u] \in Processes
                BY DEF Acquire, TwinAssumption
            <4>. QED
                BY <1>1, <1>2, <1>3, <3>2, <4>1 DEF Exclusive, Acquire
        <3>. QED
            BY <3>1, <3>2
    <2>3. \A u \in Threads : pc'[u] \in VerifyStages => \A w \in Peers(u) \ {u} : pc'[w] = "idle"
        BY <1>1, <1>2, <1>3 DEF Exclusive, Peers, VerifyStages
    <2>. QED
        BY <2>1, <2>2, <2>3 DEF Exclusive, Peers
<1>6. PrefixesReplay'
    BY <1>1 DEF PrefixesReplay, Acquire, history
<1>7. Settled'
    BY <1>1, <1>2 DEF Settled, Acquire, history, replayed, Changing
<1>8. ASSUME NEW u \in Threads, Active(u)' PROVE CurrentOf(u)' /\ Staged(u)'
    BY <1>1, <1>2 DEF CurrentOf, Staged, Rebuilding, Live, Acquire, history, locals, replayed
<1>. QED
    BY <1>4, <1>5, <1>6, <1>7, <1>8, OnlyActive DEF IInv

-----------------------------------------------------------------------------
\* A step of the active thread leaves it the only one that can be active.
LEMMA ActiveMoves ==
    ASSUME TwinAssumption, OneAtATime, Shapes, Exclusive, NEW t \in Threads,
           Active(t), NEW stage \in Stages, Goto(t, stage), UNCHANGED up,
           \/ /\ UNCHANGED lock
              /\ {pc[t], stage} \subseteq CommandStages \ {"waiting"}
           \/ /\ UNCHANGED lock
              /\ pc[t] \in VerifyStages /\ stage \in VerifyStages \cup {"idle"}
           \/ /\ lock' = [lock EXCEPT ![ProcessOf[t]] = NoThread]
              /\ pc[t] \in CommandStages \ {"waiting"} /\ stage = "idle"
    PROVE  /\ Exclusive'
           /\ \A u \in Threads \ {t} : ~Active(u)'
           /\ pc'[t] = stage
<1>1. \A u \in Threads : pc'[u] = IF u = t THEN stage ELSE pc[u]
    BY DEF Goto, Shapes
<1>2. ASSUME NEW u \in Threads \ {t}
      PROVE  /\ pc[u] \in {"idle", "waiting"}
             /\ pc[t] \in VerifyStages => pc[u] = "idle"
    BY ActiveAlone
<1>3. \A u \in Threads \ {t} : ~Active(u)'
    BY <1>1, <1>2 DEF Active
<1>4. \A p, q \in Processes : up'[p] /\ up'[q] => p = q
    BY DEF Exclusive
<1>5. ASSUME NEW u \in Threads
      PROVE  pc'[u] # "idle" => up'[ProcessOf[u]]
    BY <1>1 DEF Exclusive, Active
<1>6. ASSUME NEW u \in Threads
      PROVE  pc'[u] \in CommandStages \ {"waiting"} <=> lock'[ProcessOf[u]] = u
    <2>1. pc[u] \in CommandStages \ {"waiting"} <=> lock[ProcessOf[u]] = u
        BY DEF Exclusive
    <2>2. CASE UNCHANGED lock
        BY <1>1, <2>1, <2>2, TwinAssumption DEF CommandStages, VerifyStages, TwinAssumption, Shapes
    <2>3. CASE lock # lock'
        <3>1. /\ lock' = [lock EXCEPT ![ProcessOf[t]] = NoThread]
              /\ pc[t] \in CommandStages \ {"waiting"} /\ stage = "idle"
            BY <2>3
        <3>2. lock[ProcessOf[t]] = t /\ NoThread # u /\ ProcessOf[u] \in Processes
            BY <3>1 DEF Exclusive, TwinAssumption
        <3>. QED
            BY <1>1, <2>1, <3>1, <3>2 DEF Shapes, CommandStages
    <2>. QED
        BY <2>2, <2>3
<1>7. ASSUME NEW u \in Threads, pc'[u] \in VerifyStages, NEW w \in Peers(u) \ {u}
      PROVE  pc'[w] = "idle"
    <2>1. u = t /\ w \in Threads \ {t}
        BY <1>1, <1>2, <1>7 DEF VerifyStages, Peers
    <2>2. pc[t] \in VerifyStages
        BY <1>1, <1>7, <2>1 DEF VerifyStages, CommandStages
    <2>. QED
        BY <1>1, <1>2, <2>1, <2>2
<1>8. Exclusive'
    BY <1>4, <1>5, <1>6, <1>7 DEF Exclusive, Peers
<1>. QED
    BY <1>1, <1>3, <1>8

\* The live state of the one process that is up.
LEMMA SettledBy ==
    ASSUME TwinAssumption, Exclusive', NEW t \in Threads, up'[ProcessOf[t]],
           pc'[t] \in Changing \/ mem'[ProcessOf[t]] = replayed'.state
    PROVE  Settled'
BY DEF Settled, Exclusive, TwinAssumption

LEMMA LiveCurrent ==
    ASSUME TwinAssumption, OneAtATime, IInv, NEW t \in Threads, Active(t)
    PROVE  /\ up[ProcessOf[t]] /\ ProcessOf[t] \in Processes
           /\ pc[t] \notin Changing => mem[ProcessOf[t]] = replayed.state
<1>1. Exclusive /\ Settled /\ Shapes
    BY Parts DEF IInv
<1>2. up[ProcessOf[t]] /\ ProcessOf[t] \in Processes
    BY <1>1 DEF Exclusive, Active, TwinAssumption
<1>3. \A u \in Threads \ {t} : pc[u] \notin Changing
    BY <1>1, ActiveAlone DEF Changing
<1>. QED
    BY <1>1, <1>2, <1>3 DEF Settled

\* A command, from the lock to its end.
LEMMA LeaveStep ==
    ASSUME TwinAssumption, OneAtATime, IInv, NEW t \in Threads,
           pc[t] \in CommandStages \ {"waiting"}, Leave(t),
           UNCHANGED <<log, replays, up, pending, before>>,
           Shapes', mem'[ProcessOf[t]] = replayed.state
    PROVE  TwinInv'
<1>1. Exclusive /\ PrefixesReplay /\ Shapes
    BY Parts DEF IInv
<1>2. Active(t) /\ "idle" \in Stages
    BY <1>1 DEF Active, Shapes, CommandStages, Stages
<1>3. /\ Exclusive'
      /\ \A u \in Threads \ {t} : ~Active(u)'
      /\ pc'[t] = "idle"
    BY <1>1, <1>2, ActiveMoves DEF Leave
<1>4. PrefixesReplay'
    BY <1>1 DEF PrefixesReplay
<1>5. replayed' = replayed /\ up'[ProcessOf[t]]
    BY <1>2, LiveCurrent DEF replayed
<1>6. Settled'
    BY <1>3, <1>5, SettledBy
<1>7. \A u \in Threads : ~Active(u)'
    BY <1>3 DEF Active
<1>. QED
    BY <1>3, <1>4, <1>6, <1>7, OnlyActive

LEMMA ValidateStep ==
    ASSUME TwinAssumption, OneAtATime, IInv, NEW t \in Threads, Validate(t)
    PROVE  IInv'
<1>1. Exclusive /\ PrefixesReplay /\ Shapes
    BY Parts DEF IInv
<1>2. /\ pc[t] = "locked" /\ Active(t)
      /\ UNCHANGED <<log, replays, up, mem, pending, before>>
    BY DEF Validate, Active, history, Stages, CommandStages
<1>3. mem[ProcessOf[t]] = replayed.state /\ up[ProcessOf[t]]
    BY <1>2, LiveCurrent DEF Changing
<1>4. CASE Leave(t)
    <2>1. Shapes'
        BY <1>1, <1>2, <1>4 DEF Shapes, Leave, Goto, Stages, Requests
    <2>. QED
        BY <1>2, <1>3, <1>4, <2>1, LeaveStep DEF IInv, CommandStages
<1>5. CASE /\ Accepts(mem[ProcessOf[t]].books, command[t])
           /\ candidate' = [candidate EXCEPT ![t] =
                  Counted(Apply(mem[ProcessOf[t]], command[t]))]
           /\ Goto(t, "validated")
           /\ UNCHANGED <<lock, command>>
    <2>1. /\ Exclusive'
          /\ \A u \in Threads \ {t} : ~Active(u)'
          /\ pc'[t] = "validated"
        BY <1>1, <1>2, <1>5, ActiveMoves DEF CommandStages, Stages
    <2>2. Shapes'
        BY <1>1, <1>2, <1>5 DEF Shapes, Goto, Stages, CommandStages
    <2>3. PrefixesReplay' /\ replayed' = replayed
        BY <1>1, <1>2 DEF PrefixesReplay, replayed
    <2>4. Settled'
        BY <1>2, <1>3, <2>1, <2>3, SettledBy
    <2>5. CurrentOf(t)' /\ Staged(t)'
        BY <1>1, <1>3, <1>5, <2>1, <2>3 DEF CurrentOf, Staged, Shapes
    <2>. QED
        BY <2>1, <2>2, <2>3, <2>4, <2>5, OnlyActive DEF IInv
<1>. QED
    BY <1>4, <1>5 DEF Validate

\* The record is in the log: the candidate is what the log now stands for.
LEMMA AppendStep ==
    ASSUME TwinAssumption, OneAtATime, IInv, NEW t \in Threads, AppendEvent(t)
    PROVE  /\ IInv'
           /\ Accepts(replayed.state.books, command[t])
           /\ replayed' = ReplayNext(replayed, command[t])
<1>1. Exclusive /\ PrefixesReplay /\ Shapes /\ CurrentOf(t) /\ Staged(t)
    BY Parts DEF IInv
<1>2. /\ pc[t] = "validated" /\ Active(t)
      /\ log' = Append(log, command[t]) /\ replays' = Replaying(command[t])
      /\ UNCHANGED <<up, mem, lock, command, candidate, pending, before>>
    BY DEF AppendEvent, Active, locals, Stages, CommandStages
<1>3. /\ Exclusive'
      /\ \A u \in Threads \ {t} : ~Active(u)'
      /\ pc'[t] = "appended"
    BY <1>1, <1>2, ActiveMoves DEF AppendEvent, CommandStages, Stages
<1>4. Len(log) \in Nat /\ Len(log) \in 0..Len(log) /\ IsReplay(replayed)
    BY <1>1, ReplayedIsState
<1>5. command[t] \in Requests
    BY <1>1 DEF Shapes
<1>6. /\ log' \in Seq(Requests) /\ Len(log') = Len(log) + 1
      /\ log'[Len(log) + 1] = command[t]
      /\ \A n \in 1..Len(log) : log'[n] = log[n]
    BY <1>1, <1>2, <1>5 DEF Shapes
<1>7. /\ DOMAIN replays' = 0..(Len(log) + 1)
      /\ \A n \in 0..Len(log) : replays'[n] = replays[n]
      /\ replays'[Len(log) + 1] = ReplayNext(replayed, command[t])
    BY <1>2, <1>4 DEF Replaying
<1>8. replayed' = ReplayNext(replayed, command[t])
    BY <1>6, <1>7 DEF replayed
<1>9. ~replayed.failed
    BY <1>1, <1>4 DEF PrefixesReplay, replayed
<1>10. Accepts(replayed.state.books, command[t])
    BY <1>1, <1>2 DEF Staged
<1>11. /\ replayed'.failed = FALSE
       /\ replayed'.state = Counted(Apply(replayed.state, command[t]))
    BY <1>8, <1>9, <1>10, ReplayStep
<1>12. \A n \in 0..Len(log') : n \in 0..Len(log) \/ n = Len(log) + 1
    BY <1>4, <1>6
<1>13. Shapes'
    <2>1. \A n \in 0..Len(log') : IsReplay(replays'[n])
        BY <1>1, <1>4, <1>7, <1>12, ReplayIsReplay DEF Shapes
    <2>2. pc' \in [Threads -> Stages]
        BY <1>1 DEF AppendEvent, Goto, Shapes, Stages, CommandStages
    <2>. QED
        BY <1>1, <1>2, <1>6, <2>1, <2>2 DEF Shapes, AppendEvent
<1>14. PrefixesReplay'
    <2>1. replays'[0] = NothingReplayed
        BY <1>1, <1>4, <1>7 DEF PrefixesReplay
    <2>2. \A n \in 0..Len(log') : ~replays'[n].failed
        BY <1>1, <1>7, <1>8, <1>11, <1>12 DEF PrefixesReplay
    <2>3. ASSUME NEW n \in 1..Len(log')
          PROVE  replays'[n] = ReplayNext(replays'[n - 1], log'[n])
        <3>1. CASE n \in 1..Len(log)
            <4>1. n \in 0..Len(log) /\ n - 1 \in 0..Len(log)
                BY <1>4, <3>1
            <4>. QED
                BY <1>1, <1>6, <1>7, <3>1, <4>1 DEF PrefixesReplay
        <3>2. CASE n = Len(log) + 1
            <4>1. n - 1 = Len(log)
                BY <1>4, <3>2
            <4>. QED
                BY <1>4, <1>6, <1>7, <3>2, <4>1 DEF replayed
        <3>. QED
            BY <1>4, <1>6, <3>1, <3>2
    <2>. QED
        BY <1>6, <1>7, <2>1, <2>2, <2>3 DEF PrefixesReplay
<1>15. Settled'
    BY <1>2, <1>3, LiveCurrent, SettledBy DEF Changing
<1>16. CurrentOf(t)' /\ Staged(t)'
    BY <1>1, <1>2, <1>3, <1>11 DEF CurrentOf, Staged
<1>. QED
    BY <1>3, <1>8, <1>10, <1>13, <1>14, <1>15, <1>16, OnlyActive DEF IInv

LEMMA AppendFailsStep ==
    ASSUME TwinAssumption, OneAtATime, IInv, NEW t \in Threads, AppendFails(t)
    PROVE  IInv'
<1>1. Shapes
    BY DEF IInv
<1>2. /\ pc[t] = "validated" /\ Active(t) /\ Leave(t)
      /\ UNCHANGED <<log, replays, up, mem, pending, before>>
    BY DEF AppendFails, Active, history, Stages, CommandStages
<1>3. mem[ProcessOf[t]] = replayed.state
    BY <1>2, LiveCurrent DEF Changing
<1>4. Shapes'
    BY <1>1, <1>2 DEF Shapes, Leave, Goto, Stages, Requests
<1>. QED
    BY <1>2, <1>3, <1>4, LeaveStep DEF IInv, CommandStages

LEMMA PublishBooksStep ==
    ASSUME TwinAssumption, OneAtATime, IInv, NEW t \in Threads, PublishBooks(t)
    PROVE  IInv'
<1>1. Exclusive /\ PrefixesReplay /\ Shapes /\ CurrentOf(t)
    BY Parts DEF IInv
<1>2. /\ pc[t] = "appended" /\ Active(t)
      /\ UNCHANGED <<log, replays, up, lock, command, candidate, pending, before>>
    BY DEF PublishBooks, Active, locals, history, Stages, CommandStages
<1>3. /\ Exclusive'
      /\ \A u \in Threads \ {t} : ~Active(u)'
      /\ pc'[t] = "publishing"
    BY <1>1, <1>2, ActiveMoves DEF PublishBooks, CommandStages, Stages
<1>4. up'[ProcessOf[t]] /\ ProcessOf[t] \in Processes
    BY <1>2, LiveCurrent
<1>5. PrefixesReplay' /\ replayed' = replayed
    BY <1>1, <1>2 DEF PrefixesReplay, replayed
<1>6. Settled'
    BY <1>3, <1>4, SettledBy DEF Changing
<1>7. /\ IsState(mem'[ProcessOf[t]]) /\ DOMAIN mem' = Processes
      /\ mem'[ProcessOf[t]].books = candidate[t].books
      /\ \A p \in Processes \ {ProcessOf[t]} : mem'[p] = mem[p]
    BY <1>1, <1>4 DEF PublishBooks, Shapes, IsState
<1>8. Shapes'
    BY <1>1, <1>2, <1>7 DEF Shapes, PublishBooks, Goto, Stages, CommandStages
<1>9. CurrentOf(t)' /\ Staged(t)'
    BY <1>1, <1>2, <1>3, <1>5, <1>7 DEF CurrentOf, Staged, Live
<1>. QED
    BY <1>3, <1>5, <1>6, <1>8, <1>9, OnlyActive DEF IInv

LEMMA PublishRestStep ==
    ASSUME TwinAssumption, OneAtATime, IInv, NEW t \in Threads, PublishRest(t)
    PROVE  IInv'
<1>1. Shapes /\ CurrentOf(t) /\ Staged(t)
    BY Parts DEF IInv
<1>2. /\ pc[t] = "publishing" /\ Active(t) /\ Leave(t)
      /\ UNCHANGED <<log, replays, up, pending, before>>
    BY DEF PublishRest, Active, history, Stages, CommandStages
<1>3. ProcessOf[t] \in Processes
    BY <1>2, LiveCurrent
<1>4. IsState(mem[ProcessOf[t]]) /\ IsState(replayed.state) /\ candidate[t] = replayed.state
    BY <1>1, <1>2, <1>3, ReplayedIsState DEF Shapes, CurrentOf
<1>5. mem[ProcessOf[t]].books = candidate[t].books
    BY <1>1, <1>2 DEF Staged, Live
<1>6. /\ DOMAIN mem' = Processes
      /\ mem'[ProcessOf[t]] = [mem[ProcessOf[t]] EXCEPT
              !.seal = candidate[t].seal, !.event_count = candidate[t].event_count]
      /\ \A p \in Processes \ {ProcessOf[t]} : mem'[p] = mem[p]
    BY <1>1, <1>3 DEF PublishRest, Shapes
<1>7. mem'[ProcessOf[t]] = replayed.state
    BY <1>4, <1>5, <1>6 DEF IsState
<1>8. Shapes'
    BY <1>1, <1>2, <1>4, <1>6, <1>7 DEF Shapes, Leave, Goto, Stages, Requests
<1>. QED
    BY <1>2, <1>7, <1>8, LeaveStep DEF IInv, CommandStages

-----------------------------------------------------------------------------
\* A verification: it finds the engine settled and leaves it settled.
LEMMA StartVerifyStep ==
    ASSUME TwinAssumption, OneAtATime, IInv, NEW t \in Threads, StartVerify(t)
    PROVE  IInv'
<1>1. Exclusive /\ PrefixesReplay /\ Settled /\ Shapes
    BY Parts DEF IInv
<1>2. /\ up[ProcessOf[t]] /\ ProcessOf[t] \in Processes
      /\ \A u \in Peers(t) : pc[u] = "idle"
      /\ UNCHANGED <<log, replays, up, mem, lock, command, candidate, pending, before>>
    BY DEF StartVerify, OneAtATime, TwinAssumption, locals, history
<1>3. \A u \in Threads : pc[u] = "idle"
    BY <1>1, <1>2 DEF Exclusive, Peers, TwinAssumption
<1>4. \A u \in Threads : pc'[u] = IF u = t THEN "verifying" ELSE "idle"
    BY <1>1, <1>3 DEF StartVerify, Goto, Shapes
<1>5. Shapes'
    BY <1>1, <1>2 DEF Shapes, StartVerify, Goto, Stages, VerifyStages
<1>6. Exclusive'
    BY <1>1, <1>2, <1>3, <1>4 DEF Exclusive, Peers, CommandStages, VerifyStages
<1>7. PrefixesReplay' /\ replayed' = replayed
    BY <1>1, <1>2 DEF PrefixesReplay, replayed
<1>8. Settled'
    BY <1>1, <1>2, <1>3, <1>7 DEF Settled, Changing
<1>9. ASSUME NEW u \in Threads, Active(u)' PROVE CurrentOf(u)' /\ Staged(u)'
    <2>1. pc'[u] = "verifying"
        BY <1>4, <1>9 DEF Active
    <2>. QED
        BY <2>1 DEF CurrentOf, Staged
<1>. QED
    BY <1>5, <1>6, <1>7, <1>8, <1>9, OnlyActive DEF IInv

\* The steps of a verification write neither the log nor the lock.
LEMMA VerifyingStep ==
    ASSUME TwinAssumption, OneAtATime, IInv, NEW t \in Threads, pc[t] \in VerifyStages,
           NEW stage \in VerifyStages \cup {"idle"}, Goto(t, stage),
           UNCHANGED <<log, replays, up, lock>>, Shapes',
           stage \in Changing \/ mem'[ProcessOf[t]] = replayed.state,
           (pc'[t] = stage /\ replayed' = replayed) => Staged(t)'
    PROVE  TwinInv'
<1>1. Exclusive /\ PrefixesReplay /\ Shapes
    BY Parts DEF IInv
<1>2. Active(t) /\ stage \in Stages
    BY DEF Active, Stages, VerifyStages
<1>3. /\ Exclusive'
      /\ \A u \in Threads \ {t} : ~Active(u)'
      /\ pc'[t] = stage
    BY <1>1, <1>2, ActiveMoves
<1>4. PrefixesReplay' /\ replayed' = replayed
    BY <1>1 DEF PrefixesReplay, replayed
<1>5. Settled'
    BY <1>2, <1>3, <1>4, LiveCurrent, SettledBy
<1>6. CurrentOf(t)' /\ Staged(t)'
    BY <1>3, <1>4 DEF CurrentOf, VerifyStages
<1>. QED
    BY <1>3, <1>4, <1>5, <1>6, OnlyActive

LEMMA HashLiveStep ==
    ASSUME TwinAssumption, OneAtATime, IInv, NEW t \in Threads, HashLive(t)
    PROVE  IInv'
<1>1. Shapes
    BY DEF IInv
<1>2. /\ pc[t] = "verifying" /\ Active(t)
      /\ UNCHANGED <<log, replays, up, mem, lock, command, candidate, pending>>
    BY DEF HashLive, Active, history, Stages, VerifyStages
<1>3. mem[ProcessOf[t]] = replayed.state
    BY <1>2, LiveCurrent DEF Changing
<1>4. Shapes'
    BY <1>1, <1>2 DEF Shapes, HashLive, Goto, Stages, VerifyStages
<1>5. before'[t] = StateHash(replayed.state)
    BY <1>1, <1>3 DEF HashLive, Live, Shapes
<1>6. (pc'[t] = "hashed" /\ replayed' = replayed) => Staged(t)'
    BY <1>5 DEF Staged
<1>7. Goto(t, "hashed") /\ mem'[ProcessOf[t]] = replayed.state
    BY <1>2, <1>3 DEF HashLive
<1>. QED
    BY <1>2, <1>4, <1>6, <1>7, VerifyingStep DEF IInv, VerifyStages

LEMMA ResetStep ==
    ASSUME TwinAssumption, OneAtATime, IInv, NEW t \in Threads, Reset(t)
    PROVE  IInv'
<1>1. Shapes /\ Staged(t)
    BY Parts DEF IInv
<1>2. /\ pc[t] = "hashed" /\ Active(t)
      /\ UNCHANGED <<log, replays, up, lock, command, candidate, pending, before>>
    BY DEF Reset, Active, history, locals, Stages, VerifyStages
<1>3. ProcessOf[t] \in Processes
    BY <1>2, LiveCurrent
<1>4. Shapes'
    BY <1>1, <1>2, FreshIsState DEF Shapes, Reset, Goto, Stages, VerifyStages
<1>5. mem'[ProcessOf[t]] = Fresh
    BY <1>1, <1>3 DEF Reset, Shapes
<1>6. (pc'[t] = "reset" /\ replayed' = replayed) => Staged(t)'
    BY <1>1, <1>2, <1>5 DEF Staged, Live
<1>7. Goto(t, "reset")
    BY DEF Reset
<1>. QED
    BY <1>2, <1>4, <1>6, <1>7, VerifyingStep DEF IInv, VerifyStages, Changing

LEMMA ReadAllStep ==
    ASSUME TwinAssumption, OneAtATime, IInv, NEW t \in Threads, ReadAll(t)
    PROVE  IInv'
<1>1. Shapes /\ Staged(t) /\ PrefixesReplay /\ Len(log) \in Nat
    BY Parts, ReplayedIsState DEF IInv
<1>2. /\ pc[t] = "reset" /\ Active(t)
      /\ UNCHANGED <<log, replays, up, mem, lock, command, candidate, before>>
    BY DEF ReadAll, Active, history, Stages, VerifyStages
<1>3. pending'[t] = log
    BY <1>1 DEF ReadAll, Shapes
<1>4. Shapes'
    BY <1>1, <1>2 DEF Shapes, ReadAll, Goto, Stages, VerifyStages
<1>5. Live(t)' = replays'[0].state
    BY <1>1, <1>2 DEF Staged, Live, PrefixesReplay, NothingReplayed
<1>6. Rebuilding(t)'
    <2>1. Len(log') - Len(pending'[t]) = 0
        BY <1>1, <1>2, <1>3
    <2>2. \A i \in DOMAIN pending'[t] : pending'[t][i] = log'[0 + i]
        BY <1>1, <1>2, <1>3 DEF Shapes
    <2>. QED
        BY <1>1, <1>2, <1>5, <2>1, <2>2 DEF Rebuilding
<1>7. (pc'[t] = "replaying" /\ replayed' = replayed) => Staged(t)'
    BY <1>1, <1>2, <1>6 DEF Staged
<1>8. Goto(t, "replaying")
    BY DEF ReadAll
<1>. QED
    BY <1>2, <1>4, <1>7, <1>8, VerifyingStep DEF IInv, VerifyStages, Changing

\* The event that comes next was accepted when the log got it, so it is again.
LEMMA ReplayOneStep ==
    ASSUME TwinAssumption, OneAtATime, IInv, NEW t \in Threads, ReplayOne(t)
    PROVE  IInv' /\ verdicts' = verdicts
<1>1. Shapes /\ Staged(t) /\ PrefixesReplay /\ Len(log) \in Nat
    BY Parts, ReplayedIsState DEF IInv
<1>2. /\ pc[t] = "replaying" /\ Active(t) /\ pending[t] # <<>>
      /\ UNCHANGED <<log, replays, up, lock, command, candidate>>
    BY DEF ReplayOne, Active, history, Stages, VerifyStages
<1>3. ProcessOf[t] \in Processes
    BY <1>2, LiveCurrent
<1>. DEFINE k == Len(log) - Len(pending[t])
            e == Head(pending[t])
<1>4. Rebuilding(t)
    BY <1>1, <1>2 DEF Staged
<1>5. pending[t] \in Seq(Requests) /\ Len(pending[t]) \in Nat \ {0}
    BY <1>1, <1>2 DEF Shapes
<1>6. /\ k \in 0..Len(log) /\ k + 1 \in 1..Len(log) /\ k + 1 \in 0..Len(log)
      /\ mem[ProcessOf[t]] = replays[k].state
      /\ e = log[k + 1] /\ (k + 1) - 1 = k
    <2>1. k \in 0..Len(log) /\ mem[ProcessOf[t]] = replays[k].state
        BY <1>4 DEF Rebuilding, Live
    <2>2. PICK n \in Nat, m \in Nat \ {0} : n = Len(log) /\ m = Len(pending[t]) /\ k = n - m
        BY <1>1, <1>5
    <2>3. /\ n - m + 1 \in 1..n /\ n - m + 1 \in 0..n
          /\ (n - m + 1) - 1 = n - m
        BY <2>1, <2>2
    <2>4. 1 \in DOMAIN pending[t] /\ e = pending[t][1]
        BY <1>5
    <2>5. e = log[k + 1]
        BY <1>4, <2>4 DEF Rebuilding
    <2>. QED
        BY <2>1, <2>2, <2>3, <2>5
<1>7. /\ Tail(pending[t]) \in Seq(Requests)
      /\ Len(log) - Len(Tail(pending[t])) = k + 1
      /\ \A i \in DOMAIN Tail(pending[t]) : Tail(pending[t])[i] = log[(k + 1) + i]
    <2>1. /\ Tail(pending[t]) \in Seq(Requests)
          /\ Len(Tail(pending[t])) = Len(pending[t]) - 1
        BY <1>5
    <2>2. ASSUME NEW i \in DOMAIN Tail(pending[t])
          PROVE  Tail(pending[t])[i] = log[(k + 1) + i]
        <3>1. i \in Nat /\ i + 1 \in DOMAIN pending[t] /\ Tail(pending[t])[i] = pending[t][i + 1]
            BY <1>5, <2>1
        <3>2. k + (i + 1) = (k + 1) + i
            BY <1>1, <1>5, <3>1
        <3>. QED
            BY <1>4, <3>1, <3>2 DEF Rebuilding
    <2>3. PICK n \in Nat, m \in Nat \ {0} : n = Len(log) /\ m = Len(pending[t]) /\ k = n - m
        BY <1>1, <1>5
    <2>4. n - (m - 1) = (n - m) + 1
        OBVIOUS
    <2>5. Len(log) - Len(Tail(pending[t])) = k + 1
        BY <2>1, <2>3, <2>4
    <2>. QED
        BY <2>1, <2>2, <2>5
<1>. HIDE DEF k, e
<1>8. /\ IsReplay(replays[k]) /\ replays[k + 1] = ReplayNext(replays[k], e)
      /\ ~replays[k + 1].failed
    BY <1>1, <1>6 DEF Shapes, PrefixesReplay
<1>9. /\ ~replays[k].failed /\ Accepts(replays[k].state.books, e)
      /\ Accepts(mem[ProcessOf[t]].books, e)
    BY <1>6, <1>8, ReplayKept
<1>10. Counted(Apply(mem[ProcessOf[t]], e)) = replays[k + 1].state
    <2>1. ReplayNext(replays[k], e).state = Counted(Apply(replays[k].state, e))
        BY <1>9, ReplayStep
    <2>. QED
        BY <1>6, <1>8, <2>1
<1>11. /\ mem' = [mem EXCEPT ![ProcessOf[t]] = Counted(Apply(@, e))]
       /\ pending' = [pending EXCEPT ![t] = Tail(@)]
       /\ UNCHANGED <<pc, before, verdicts>>
    BY <1>9 DEF ReplayOne, e
<1>12. mem' = [mem EXCEPT ![ProcessOf[t]] = replays[k + 1].state]
    BY <1>10, <1>11
<1>13. Shapes'
    <2>1. IsState(replays[k + 1].state)
        BY <1>1, <1>6 DEF Shapes, IsReplay
    <2>. QED
        BY <1>1, <1>2, <1>7, <1>11, <1>12, <2>1 DEF Shapes
<1>14. pending'[t] = Tail(pending[t]) /\ Live(t)' = replays[k + 1].state
    BY <1>1, <1>3, <1>11, <1>12 DEF Shapes, Live
<1>15. Rebuilding(t)'
    BY <1>2, <1>6, <1>7, <1>14 DEF Rebuilding
<1>16. (pc'[t] = "replaying" /\ replayed' = replayed) => Staged(t)'
    BY <1>1, <1>2, <1>11, <1>15 DEF Staged
<1>17. Goto(t, "replaying")
    BY <1>1, <1>2, <1>11 DEF Goto, Shapes
<1>. QED
    BY <1>2, <1>11, <1>13, <1>16, <1>17, VerifyingStep DEF IInv, VerifyStages, Changing

\* Every event has been applied: the hash is the one taken before.
LEMMA CompareStep ==
    ASSUME TwinAssumption, OneAtATime, IInv, NEW t \in Threads, Compare(t)
    PROVE  IInv' /\ verdicts' = verdicts \cup {"consistent"}
<1>1. Shapes /\ Staged(t) /\ Len(log) \in Nat
    BY Parts, ReplayedIsState DEF IInv
<1>2. /\ pc[t] = "replaying" /\ Active(t) /\ pending[t] = <<>>
      /\ UNCHANGED <<log, replays, up, mem, lock, command, candidate>>
    BY DEF Compare, Active, history, Stages, VerifyStages
<1>3. Len(log) - Len(pending[t]) = Len(log)
    BY <1>1, <1>2
<1>4. Live(t) = replayed.state /\ before[t] = StateHash(replayed.state)
    BY <1>1, <1>2, <1>3 DEF Staged, Rebuilding, replayed
<1>5. EndVerify(t, "consistent")
    BY <1>4 DEF Compare
<1>6. Shapes'
    BY <1>1, <1>2, <1>5 DEF Shapes, EndVerify, Goto, Stages
<1>7. (pc'[t] = "idle" /\ replayed' = replayed) => Staged(t)'
    BY DEF Staged
<1>8. mem'[ProcessOf[t]] = replayed.state
    BY <1>2, <1>4 DEF Live
<1>9. verdicts' = verdicts \cup {"consistent"} /\ Goto(t, "idle")
    BY <1>5 DEF EndVerify
<1>. QED
    BY <1>2, <1>6, <1>7, <1>8, <1>9, VerifyingStep DEF IInv, VerifyStages

-----------------------------------------------------------------------------
LEMMA IdleStep ==
    ASSUME IInv, UNCHANGED vars
    PROVE  IInv' /\ replayed' = replayed
<1>1. UNCHANGED <<log, replays, up, mem, lock, pc, command, candidate, pending, before>>
    BY DEF vars, history, locals
<1>2. Shapes' /\ replayed' = replayed
    BY <1>1 DEF IInv, Shapes, replayed
<1>3. Exclusive' /\ PrefixesReplay' /\ CandidateCurrent' /\ Settled'
    BY <1>1, <1>2, Parts DEF IInv, TwinInv, Exclusive, Peers, PrefixesReplay, CandidateCurrent,
       Settled
<1>4. \A t \in Threads : Staged(t)'
    BY <1>1, <1>2 DEF IInv, TwinInv, Staged, Rebuilding, Live
<1>. QED
    BY <1>2, <1>3, <1>4 DEF IInv, TwinInv, Settled

LEMMA EveryStep ==
    ASSUME TwinAssumption, OneAtATime, IInv, [Next]_vars
    PROVE  /\ IInv'
           /\ NoFalseAlarm => NoFalseAlarm'
           /\ \/ replayed' = replayed
              \/ \E e \in Requests : /\ Accepts(replayed.state.books, e)
                                     /\ replayed' = ReplayNext(replayed, e)
<1>1. ASSUME NEW p \in Processes, Start(p) \/ Stop(p)
      PROVE  IInv' /\ replayed' = replayed /\ verdicts' = verdicts
    BY <1>1, StartStep, StopStep DEF Start, Stop, history, replayed
<1>2. ASSUME NEW t \in Threads, NEW e \in Commands, Call(t, e)
      PROVE  IInv' /\ replayed' = replayed /\ verdicts' = verdicts
    BY <1>2, CallStep DEF Call, history, replayed
<1>3. ASSUME NEW t \in Threads,
             \/ Acquire(t) \/ Validate(t) \/ AppendFails(t) \/ PublishBooks(t) \/ PublishRest(t)
      PROVE  IInv' /\ replayed' = replayed /\ verdicts' = verdicts
    BY <1>3, AcquireStep, ValidateStep, AppendFailsStep, PublishBooksStep, PublishRestStep
    DEF Acquire, Validate, AppendFails, PublishBooks, PublishRest, history, replayed
<1>4. ASSUME NEW t \in Threads, StartVerify(t) \/ HashLive(t) \/ Reset(t) \/ ReadAll(t)
      PROVE  IInv' /\ replayed' = replayed /\ verdicts' = verdicts
    BY <1>4, StartVerifyStep, HashLiveStep, ResetStep, ReadAllStep
    DEF StartVerify, HashLive, Reset, ReadAll, history, replayed
<1>5. ASSUME NEW t \in Threads, ReplayOne(t) \/ Compare(t)
      PROVE  /\ IInv' /\ replayed' = replayed
             /\ verdicts' \subseteq verdicts \cup {"consistent"}
    BY <1>5, ReplayOneStep, CompareStep DEF ReplayOne, Compare, history, replayed
<1>6. ASSUME NEW t \in Threads, AppendEvent(t)
      PROVE  /\ IInv' /\ verdicts' = verdicts
             /\ \E e \in Requests : /\ Accepts(replayed.state.books, e)
                                   /\ replayed' = ReplayNext(replayed, e)
    <2>1. command[t] \in Requests
        BY DEF IInv, Shapes
    <2>. QED
        BY <1>6, <2>1, AppendStep DEF AppendEvent
<1>7. ASSUME UNCHANGED vars PROVE IInv' /\ replayed' = replayed /\ verdicts' = verdicts
    BY <1>7, IdleStep DEF vars
<1>. QED
    BY <1>1, <1>2, <1>3, <1>4, <1>5, <1>6, <1>7 DEF Next, Step, NoFalseAlarm

\* Engines that nothing overlaps keep the inductive invariant, whatever the
\* threads, commands, rate limit, failed appends, crashes and restarts.
THEOREM Inductive ==
    ASSUME OneAtATime
    PROVE  Spec => []IInv
<1>1. Init => IInv
    BY TwinAssumption, InitInvariant
<1>2. IInv /\ [Next]_vars => IInv'
    BY TwinAssumption, EveryStep
<1>. QED
    BY <1>1, <1>2, PTL DEF Spec

\* What a command is about to publish never goes stale, and what a
\* verification has rebuilt is the replay of what it has read.
THEOREM TwinInvariant ==
    ASSUME OneAtATime
    PROVE  Spec => []TwinInv
<1>1. IInv => TwinInv
    BY DEF IInv
<1>. QED
    BY <1>1, Inductive, PTL

\* Between commands the live state is the replay of the log: a failed append,
\* a rejected command or a verification leaves nothing behind.
THEOREM LiveIsReplay ==
    ASSUME OneAtATime
    PROVE  Spec => []LiveStateIsReplay
<1>1. ASSUME IInv PROVE LiveStateIsReplay
    <2>1. Exclusive /\ Settled /\ Shapes
        BY <1>1, Parts DEF IInv
    <2>2. ASSUME NEW p \in Processes, Quiet(p) PROVE mem[p] = replayed.state
        <3>1. ASSUME NEW t \in Threads, ProcessOf[t] = p PROVE pc[t] \notin Changing
            BY <2>1, <2>2, <3>1, TwinAssumption
            DEF Quiet, Exclusive, Changing, TwinAssumption, CommandStages, VerifyStages
        <3>. QED
            BY <2>1, <2>2, <3>1 DEF Settled, Quiet
    <2>. QED
        BY <1>1, <2>2 DEF IInv, LiveStateIsReplay
<1>. QED
    BY <1>1, Inductive, PTL

\* A verification that overlaps no command finds the ledger consistent.
THEOREM NoFalseAlarms ==
    ASSUME OneAtATime
    PROVE  Spec => []NoFalseAlarm
<1>1. Init => NoFalseAlarm
    BY DEF Init, NoFalseAlarm
<1>2. IInv /\ NoFalseAlarm /\ [Next]_vars => NoFalseAlarm'
    BY TwinAssumption, EveryStep
<1>. QED
    BY <1>1, <1>2, Inductive, PTL DEF Spec

-----------------------------------------------------------------------------
\* The recursive function by which Rebuild folds some events: over each set s
\* of their places, the last of them last.
Folds(g, events, Places) ==
    g = [s \in SUBSET Places |->
            IF s = {} THEN NothingReplayed ELSE ReplayNext(g[s \ {Max(s)}], events[Max(s)])]

\* The last place of a set of places.
LEMMA LastPlace ==
    ASSUME NEW k \in Nat, NEW s \in SUBSET (1..k), s # {}
    PROVE  Max(s) \in s /\ \A i \in s : i <= Max(s)
<1>1. s \subseteq Int /\ (\A x \in s : x <= k) /\ k \in Int
    OBVIOUS
<1>2. Max(s) \in s /\ \A i \in s : Max(s) >= i
    BY <1>1, MaxIs
<1>. QED
    BY <1>1, <1>2

\* There is such a function for the first k places, for every k.
LEMMA FoldsExist ==
    ASSUME NEW events, NEW n \in Nat
    PROVE  \E g : Folds(g, events, 1..n)
<1>. DEFINE T == {k \in Nat : ~\E g : Folds(g, events, 1..k)}
<1>1. \E g : Folds(g, events, 1..0)
    <2>. DEFINE g == [s \in SUBSET (1..0) |-> NothingReplayed]
    <2>1. 1..0 = {}
        OBVIOUS
    <2>2. Folds(g, events, 1..0)
        BY <2>1 DEF Folds
    <2>. QED
        BY <2>2
<1>2. ASSUME NEW k \in Nat, NEW g, Folds(g, events, 1..k)
      PROVE  \E h : Folds(h, events, 1..(k + 1))
    <2>. DEFINE rec(q, s) == IF s = {} THEN NothingReplayed
                             ELSE ReplayNext(q[s \ {Max(s)}], events[Max(s)])
                h == [s \in SUBSET (1..(k + 1)) |-> rec(g, s)]
    <2>1. \A s \in SUBSET (1..k) : s \in SUBSET (1..(k + 1)) /\ g[s] = h[s]
        <3>. TAKE s \in SUBSET (1..k)
        <3>1. s \in SUBSET (1..(k + 1))
            OBVIOUS
        <3>2. g[s] = rec(g, s)
            BY <1>2 DEF Folds
        <3>. HIDE DEF rec
        <3>. QED
            BY <3>1, <3>2
    <2>2. ASSUME NEW s \in SUBSET (1..(k + 1)), s # {}
          PROVE  s \ {Max(s)} \in SUBSET (1..k)
        <3>1. k + 1 \in Nat
            OBVIOUS
        <3>2. Max(s) \in s /\ \A i \in s : i <= Max(s)
            BY <2>2, <3>1, LastPlace
        <3>3. ASSUME NEW i \in s \ {Max(s)} PROVE i \in 1..k
            <4>1. i \in 1..(k + 1) /\ Max(s) \in 1..(k + 1)
                BY <3>2
            <4>2. i <= Max(s) /\ i # Max(s)
                BY <3>2
            <4>3. \A m \in 1..(k + 1) : i <= m /\ i # m => i \in 1..k
                BY <4>1
            <4>. QED
                BY <4>1, <4>2, <4>3
        <3>. QED
            BY <3>3
    <2>. HIDE DEF h
    <2>3. \A s \in SUBSET (1..(k + 1)) : rec(g, s) = rec(h, s)
        BY <2>1, <2>2
    <2>4. h = [s \in SUBSET (1..(k + 1)) |-> rec(g, s)]
        BY DEF h
    <2>. HIDE DEF rec
    <2>5. h = [s \in SUBSET (1..(k + 1)) |-> rec(h, s)]
        BY <2>3, <2>4
    <2>6. Folds(h, events, 1..(k + 1))
        BY <2>5 DEF Folds, rec
    <2>. QED
        BY <2>6
<1>3. T = {}
    <2>. SUFFICES ASSUME T # {} PROVE FALSE
        OBVIOUS
    <2>1. PICK k \in T : \A j \in T : k <= j
        <3>1. T \subseteq Nat
            OBVIOUS
        <3>. HIDE DEF T
        <3>. QED
            BY <3>1, LeastOf
    <2>2. k # 0
        BY <1>1, <2>1
    <2>3. k - 1 \in Nat /\ ~(k <= k - 1) /\ (k - 1) + 1 = k
        BY <2>2
    <2>4. \E g : Folds(g, events, 1..(k - 1))
        BY <2>1, <2>3
    <2>5. \E g : Folds(g, events, 1..((k - 1) + 1))
        BY <1>2, <2>3, <2>4
    <2>. QED
        BY <2>1, <2>3, <2>5
<1>. QED
    BY <1>3

LEMMA RebuildFolds ==
    ASSUME NEW events \in Seq(Requests)
    PROVE  \E g : Folds(g, events, 1..Len(events)) /\ Rebuild(events) = g[1..Len(events)]
<1>1. DOMAIN events = 1..Len(events) /\ Len(events) \in Nat
    OBVIOUS
<1>. DEFINE iter == CHOOSE g : Folds(g, events, DOMAIN events)
<1>2. Folds(iter, events, DOMAIN events)
    <2>1. \E g : Folds(g, events, DOMAIN events)
        BY <1>1, FoldsExist
    <2>. QED
        BY <2>1, Zenon
<1>3. Rebuild(events) = iter[DOMAIN events]
    BY Zenon DEF Rebuild, FoldLeft, MapThenFoldSet, Folds
<1>. HIDE DEF iter
<1>. QED
    BY <1>1, <1>2, <1>3

\* rebuild_state() gives what applying the events one after the other gives.
LEMMA RebuildIs ==
    ASSUME NEW events \in Seq(Requests), NEW r, r[0] = NothingReplayed,
           \A n \in 1..Len(events) : r[n] = ReplayNext(r[n - 1], events[n])
    PROVE  Rebuild(events) = r[Len(events)]
<1>1. PICK g : Folds(g, events, 1..Len(events)) /\ Rebuild(events) = g[1..Len(events)]
    BY RebuildFolds
<1>2. Len(events) \in Nat
    OBVIOUS
<1>. DEFINE T == {k \in 0..Len(events) : g[1..k] # r[k]}
<1>3. T = {}
    <2>. SUFFICES ASSUME T # {} PROVE FALSE
        OBVIOUS
    <2>1. PICK k \in T : \A j \in T : k <= j
        <3>1. T \subseteq Nat
            OBVIOUS
        <3>. HIDE DEF T
        <3>. QED
            BY <3>1, LeastOf
    <2>2. k \in 0..Len(events) /\ g[1..k] # r[k] /\ 1..k \in SUBSET (1..Len(events))
        BY <1>2
    <2>3. g[1..k] = IF 1..k = {} THEN NothingReplayed
                    ELSE ReplayNext(g[(1..k) \ {Max(1..k)}], events[Max(1..k)])
        BY <1>1, <2>2 DEF Folds
    <2>4. k # 0
        <3>1. 1..0 = {}
            OBVIOUS
        <3>. QED
            BY <2>2, <2>3, <3>1
    <2>5. k \in 1..k /\ 1..k # {} /\ 1..k \in SUBSET (1..k) /\ k \in Nat
        <3>1. k \in Nat /\ 1 <= k
            BY <2>2, <2>4
        <3>2. k \in 1..k
            BY <3>1
        <3>. QED
            BY <3>1, <3>2
    <2>6. Max(1..k) \in 1..k /\ k <= Max(1..k)
        BY <2>5, LastPlace
    <2>7. Max(1..k) = k
        BY <2>5, <2>6
    <2>8. (1..k) \ {k} = 1..(k - 1)
        BY <2>5
    <2>9. k - 1 \in 0..Len(events) /\ ~(k <= k - 1) /\ k \in 1..Len(events)
        BY <2>2, <2>4
    <2>10. g[1..(k - 1)] = r[k - 1]
        BY <2>1, <2>9
    <2>. QED
        BY <2>2, <2>3, <2>5, <2>7, <2>8, <2>9, <2>10
<1>4. Len(events) \in 0..Len(events)
    BY <1>2
<1>. QED
    BY <1>1, <1>3, <1>4

\* Whatever is in the log, a new process can replay all of it, and what it
\* rebuilds then is what the engine that wrote the log had come to.
THEOREM LogIsReplayable ==
    ASSUME OneAtATime
    PROVE  Spec => []LogReplayable
<1>1. ASSUME IInv PROVE LogReplayable
    <2>1. log \in Seq(Requests) /\ ~replayed.failed
        BY <1>1, ReplayedIsState DEF IInv, Shapes, TwinInv, PrefixesReplay, replayed
    <2>2. /\ replays[0] = NothingReplayed
          /\ \A n \in 1..Len(log) : replays[n] = ReplayNext(replays[n - 1], log[n])
        BY <1>1 DEF IInv, TwinInv, PrefixesReplay
    <2>3. Rebuild(log) = replayed
        BY <2>1, <2>2, RebuildIs DEF replayed
    <2>. QED
        BY <2>1, <2>3 DEF LogReplayable
<1>. QED
    BY <1>1, Inductive, PTL

-----------------------------------------------------------------------------
\* The event the log gets is an operation of the ledger.
LEMMA AppliedBooks ==
    ASSUME NEW s, IsState(s), NEW e
    PROVE  Counted(Apply(s, e)).books = Effect(s.books, e)
<1>1. PICK b, n, c : s = [books |-> b, event_count |-> n, seal |-> c]
    BY DEF IsState
<1>. DEFINE u == [s EXCEPT !.books = Effect(@, e)]
            item == [event |-> e, resulting |-> StateHash(u)]
<1>2. u = [books |-> Effect(b, e), event_count |-> n, seal |-> c]
    BY <1>1
<1>3. Apply(s, e) = [u EXCEPT !.seal = Append(@, item)]
    BY DEF Apply
<1>. HIDE DEF u, item
<1>4. Apply(s, e) = [books |-> Effect(b, e), event_count |-> n, seal |-> Append(c, item)]
    BY <1>2, <1>3
<1>. QED
    BY <1>1, <1>4 DEF Counted

LEMMA LedgerStep ==
    ASSUME NEW e \in Events, IsReplay(replayed), ~replayed.failed,
           Accepts(replayed.state.books, e), replayed' = ReplayNext(replayed, e)
    PROVE  Ledger!Next
<1>1. replayed'.state.books = Effect(replayed.state.books, e)
    <2>1. replayed'.state = Counted(Apply(replayed.state, e))
        BY ReplayStep
    <2>2. IsState(replayed.state)
        BY DEF IsReplay
    <2>. QED
        BY <2>1, <2>2, AppliedBooks
<1>2. replayed'.opened = IF e.operation = "CREATE_ACCOUNT"
                           THEN Put(replayed.opened, e.account, Quantize(e.balance))
                           ELSE replayed.opened
    BY DEF ReplayNext
<1>3. CASE e \in CreateAccountEvents
    <2>1. e.operation = "CREATE_ACCOUNT"
        BY <1>3 DEF CreateAccountEvents
    <2>2. CanCreateAccount(replayed.state.books, e)
        BY <2>1 DEF Accepts
    <2>3. replayed'.state.books = CreateAccount(replayed.state.books, e)
        BY <1>1, <2>1 DEF Effect
    <2>4. Ledger!OpenAccount(e)
        BY <1>2, <2>1, <2>2, <2>3
        DEF Ledger!OpenAccount, Ledger!CanCreateAccount, CanCreateAccount, Ledger!CreateAccount,
            CreateAccount, Ledger!Put, Put, Ledger!Quantize, Quantize, Ledger!Quantizable, Quantizable
    <2>. QED
        BY <1>3, <2>4 DEF Ledger!Next, Ledger!CreateAccountEvents, CreateAccountEvents
<1>4. CASE e \in PostEvents
    <2>1. e.operation = "POST_TRANSACTION"
        BY <1>4 DEF PostEvents
    <2>2. CanPost(replayed.state.books, e)
        BY <2>1 DEF Accepts
    <2>3. replayed'.state.books = Post(replayed.state.books, e)
        BY <1>1, <2>1 DEF Effect
    <2>4. Ledger!PostTransaction(e)
        BY <1>2, <2>1, <2>2, <2>3
        DEF Ledger!PostTransaction, Ledger!CanPost, CanPost, Ledger!Post, Post, Ledger!Put, Put, Ledger!Move, Move, Ledger!Quantize, Quantize, Ledger!Quantizable, Quantizable
    <2>. QED
        BY <1>4, <2>4 DEF Ledger!Next, Ledger!PostEvents, PostEvents
<1>5. CASE e \in InvoiceEvents
    <2>1. e.operation = "CREATE_INVOICE"
        BY <1>5 DEF InvoiceEvents
    <2>2. replayed'.state.books = CreateInvoice(replayed.state.books, e)
        BY <1>1, <2>1 DEF Effect
    <2>3. Ledger!IssueInvoice(e)
        BY <1>2, <2>1, <2>2
        DEF Ledger!IssueInvoice, Ledger!CreateInvoice, CreateInvoice, Ledger!Put, Put
    <2>. QED
        BY <1>5, <2>3 DEF Ledger!Next, Ledger!InvoiceEvents, InvoiceEvents
<1>6. CASE e \in PaymentEvents
    <2>1. e.operation = "RECORD_PAYMENT"
        BY <1>6 DEF PaymentEvents
    <2>2. replayed'.state.books = RecordPayment(replayed.state.books, e)
        BY <1>1, <2>1 DEF Effect
    <2>3. Ledger!PayInvoice(e)
        BY <1>2, <2>1, <2>2
        DEF Ledger!PayInvoice, Ledger!RecordPayment, RecordPayment
    <2>. QED
        BY <1>6, <2>3 DEF Ledger!Next, Ledger!PaymentEvents, PaymentEvents
<1>7. CASE e \in ObligationEvents
    <2>1. e.operation = "CREATE_OBLIGATION"
        BY <1>7 DEF ObligationEvents
    <2>2. replayed'.state.books = CreateObligation(replayed.state.books, e)
        BY <1>1, <2>1 DEF Effect
    <2>3. Ledger!Oblige(e)
        BY <1>2, <2>1, <2>2
        DEF Ledger!Oblige, Ledger!CreateObligation, CreateObligation
    <2>. QED
        BY <1>7, <2>3 DEF Ledger!Next, Ledger!ObligationEvents, ObligationEvents
<1>8. CASE e \in ApproveEvents
    <2>1. e.operation = "APPROVE_TRANSACTION"
        BY <1>8 DEF ApproveEvents
    <2>2. replayed'.state.books = Decide(replayed.state.books, e, TRUE)
        BY <1>1, <2>1 DEF Effect
    <2>3. Ledger!ApproveTransaction(e)
        BY <1>2, <2>1, <2>2
        DEF Ledger!ApproveTransaction, Ledger!Decide, Decide, Ledger!Put, Put
    <2>. QED
        BY <1>8, <2>3 DEF Ledger!Next, Ledger!ApproveEvents, ApproveEvents
<1>9. CASE e \in RejectEvents
    <2>1. e.operation = "REJECT_TRANSACTION"
        BY <1>9 DEF RejectEvents
    <2>2. replayed'.state.books = Decide(replayed.state.books, e, FALSE)
        BY <1>1, <2>1 DEF Effect
    <2>3. Ledger!RejectTransaction(e)
        BY <1>2, <2>1, <2>2
        DEF Ledger!RejectTransaction, Ledger!Decide, Decide, Ledger!Put, Put
    <2>. QED
        BY <1>9, <2>3 DEF Ledger!Next, Ledger!RejectEvents, RejectEvents
<1>10. CASE e \in ReverseEvents
    <2>1. e.operation = "REVERSE_TRANSACTION"
        BY <1>10 DEF ReverseEvents
    <2>2. CanReverse(replayed.state.books, e)
        BY <2>1 DEF Accepts
    <2>3. replayed'.state.books = ReversePosting(replayed.state.books, e)
        BY <1>1, <2>1 DEF Effect
    <2>4. Ledger!ReverseTransaction(e)
        BY <1>2, <2>1, <2>2, <2>3
        DEF Ledger!ReverseTransaction, Ledger!CanReverse, CanReverse, Ledger!ReversePosting, ReversePosting, Ledger!BalanceOf, BalanceOf, Ledger!Move, Move, Ledger!Quantize, Quantize, Ledger!Quantizable, Quantizable
    <2>. QED
        BY <1>10, <2>4 DEF Ledger!Next, Ledger!ReverseEvents, ReverseEvents
<1>11. e # Malformed
    BY DEF Accepts, Malformed
<1>. QED
    BY <1>3, <1>4, <1>5, <1>6, <1>7, <1>8, <1>9, <1>10, <1>11 DEF Events

LEMMA LedgerInit == ASSUME Init PROVE Ledger!Init
<1>1. replayed = NothingReplayed
    BY DEF Init, replayed
<1>. QED
    BY <1>1 DEF Ledger!Init, NothingReplayed, Fresh, EmptyBooks, EmptyDict,
                Ledger!EmptyBooks, Ledger!EmptyDict

\* The engine implements the ledger: threads, failed appends, verifications,
\* crashes and restarts only ever make the books follow the rules.
THEOREM Refinement ==
    ASSUME OneAtATime
    PROVE  Spec => ImplementsLedger
<1>1. Init => Ledger!Init
    BY LedgerInit
<1>2. ASSUME IInv, [Next]_vars PROVE [Ledger!Next]_(Ledger!vars)
    <2>1. CASE replayed' = replayed
        BY <2>1 DEF Ledger!vars
    <2>2. ASSUME NEW e \in Requests, Accepts(replayed.state.books, e),
                 replayed' = ReplayNext(replayed, e)
          PROVE  Ledger!Next
        <3>1. e \in Events
            BY TwinAssumption DEF Requests, TwinAssumption, Events
        <3>2. IsReplay(replayed) /\ ~replayed.failed
            BY <1>2, ReplayedIsState DEF IInv, TwinInv, PrefixesReplay, replayed
        <3>. QED
            BY <2>2, <3>1, <3>2, LedgerStep
    <2>. QED
        BY <1>2, <2>1, <2>2, TwinAssumption, EveryStep
<1>. QED
    BY <1>1, <1>2, Inductive, PTL DEF Spec, ImplementsLedger, Ledger!Spec

\* The rules, with what is proved about them, on the books the log stands for.
Rules == INSTANCE TwinLedgerProofs
           WITH books <- replayed.state.books, opened <- replayed.opened

LEMMA ReplayedFollowsRules ==
    ASSUME OneAtATime
    PROVE  Spec => Rules!Spec
<1>1. Ledger!Init => Rules!Init
    BY DEF Ledger!Init, Rules!Init, Ledger!EmptyBooks, Rules!EmptyBooks, Ledger!EmptyDict,
           Rules!EmptyDict
<1>2. [Ledger!Next]_(Ledger!vars) => [Rules!Next]_(Rules!vars)
    BY DEF Ledger!vars, Rules!vars, Rules!Next, Ledger!Next, Rules!CreateAccountEvents,
        Ledger!CreateAccountEvents, Rules!PostEvents,
        Ledger!PostEvents, Rules!InvoiceEvents, Ledger!InvoiceEvents,
        Rules!PaymentEvents, Ledger!PaymentEvents,
        Rules!ObligationEvents, Ledger!ObligationEvents,
        Rules!ApproveEvents, Ledger!ApproveEvents, Rules!RejectEvents,
        Ledger!RejectEvents, Rules!ReverseEvents,
        Ledger!ReverseEvents, Rules!OpenAccount, Ledger!OpenAccount,
        Rules!PostTransaction, Ledger!PostTransaction,
        Rules!IssueInvoice, Ledger!IssueInvoice, Rules!PayInvoice,
        Ledger!PayInvoice, Rules!Oblige, Ledger!Oblige,
        Rules!ApproveTransaction, Ledger!ApproveTransaction,
        Rules!RejectTransaction, Ledger!RejectTransaction,
        Rules!ReverseTransaction, Ledger!ReverseTransaction,
        Rules!CanCreateAccount, Ledger!CanCreateAccount,
        Rules!CreateAccount, Ledger!CreateAccount, Rules!CanPost,
        Ledger!CanPost, Rules!Post, Ledger!Post, Rules!Put,
        Ledger!Put, Rules!Move, Ledger!Move, Rules!CreateInvoice,
        Ledger!CreateInvoice, Rules!RecordPayment,
        Ledger!RecordPayment, Rules!CreateObligation,
        Ledger!CreateObligation, Rules!Decide, Ledger!Decide,
        Rules!CanReverse, Ledger!CanReverse, Rules!ReversePosting,
        Ledger!ReversePosting, Rules!BalanceOf, Ledger!BalanceOf,
        Rules!Quantize, Ledger!Quantize, Rules!Quantizable,
        Ledger!Quantizable
<1>. QED
    BY <1>1, <1>2, Refinement, PTL DEF ImplementsLedger, Ledger!Spec, Rules!Spec

\* What the log stands for is therefore sound in every reachable state: no
\* account is overdrawn, and a reversal finds both of its accounts.
THEOREM ReplayedBooksSound ==
    ASSUME OneAtATime
    PROVE  Spec => []Ledger!IInv
<1>1. Rules!Spec => []Rules!IInv
    BY Rules!BooksSound, AmountsAssumption
<1>2. Rules!IInv => Ledger!IInv
    BY DEF Rules!IInv, Ledger!IInv, Rules!TypeOK, Ledger!TypeOK,
        Rules!TransfersSound, Ledger!TransfersSound, Rules!BooksOK,
        Ledger!BooksOK, Rules!IsDict, Ledger!IsDict, Rules!Transfers,
        Ledger!Transfers, Rules!Quantizable, Ledger!Quantizable,
        Rules!Quantize, Ledger!Quantize
<1>. QED
    BY <1>1, <1>2, ReplayedFollowsRules, PTL

\* And every balance a restart would rebuild is explained by the opening
\* balance and the transactions in force, across crashes and failed appends.
THEOREM ReplayedBooksExplained ==
    ASSUME OneAtATime
    PROVE  Spec => []Rules!BalancesExplained
<1>1. Rules!Spec => []Rules!BalancesExplained
    BY Rules!EveryBalanceIsExplained, AmountsAssumption
<1>. QED
    BY <1>1, ReplayedFollowsRules, PTL

-----------------------------------------------------------------------------
(***************************************************************************)
(* Types. What is rebuilt, published or tried is the outcome of so many    *)
(* accepted events, and there are never more of them than the log holds.   *)
(***************************************************************************)
UpTo(s, n) ==
    /\ BooksOK(s.books)
    /\ s.event_count \in 0..n
    /\ \E R : s.seal \in Seq(R) /\ Len(s.seal) <= n

TypeParts ==
    /\ log \in Seq(Commands) /\ Len(log) <= MaxEvents
    /\ \A n \in 0..Len(log) : UpTo(replays[n].state, n)
    /\ \A p \in Processes : UpTo(mem[p], Len(log))
    /\ recent \in [Processes -> 0..MaxOps]
    /\ \A t \in Threads : BooksOK(candidate[t].books) /\ pending[t] \in Seq(Commands)

LEMMA EmptyBooksOK == BooksOK(EmptyBooks)
<1>1. PICK b : b = EmptyBooks
    OBVIOUS
<1>2. /\ b.accounts = EmptyDict /\ b.transactions = EmptyDict /\ b.invoices = EmptyDict
      /\ b.liabilities = {} /\ b.approvals = EmptyDict
    BY <1>1 DEF EmptyBooks
<1>3. \A Keys, Values : IsDict(EmptyDict, Keys, Values)
    BY DEF IsDict, EmptyDict
<1>4. BooksOK(b)
    BY <1>1, <1>2, <1>3, Zenon DEF BooksOK, EmptyBooks
<1>. QED
    BY <1>1, <1>4

LEMMA FreshUpTo == ASSUME NEW n \in Nat PROVE UpTo(Fresh, n)
<1>1. Fresh.books = EmptyBooks /\ Fresh.event_count = 0 /\ Fresh.seal = <<>>
    BY DEF Fresh
<1>2. <<>> \in Seq({}) /\ Len(<<>>) <= n /\ 0 \in 0..n
    OBVIOUS
<1>. QED
    BY <1>1, <1>2, EmptyBooksOK DEF UpTo

LEMMA UpToMore ==
    ASSUME NEW n \in Nat, NEW m \in Nat, n <= m, NEW s, UpTo(s, n)
    PROVE  UpTo(s, m)
<1>1. PICK R : s.seal \in Seq(R) /\ Len(s.seal) <= n
    BY DEF UpTo
<1>2. Len(s.seal) \in Nat
    BY <1>1
<1>3. Len(s.seal) <= m /\ s.event_count \in 0..m
    BY <1>1, <1>2 DEF UpTo
<1>. QED
    BY <1>1, <1>3 DEF UpTo

\* One accepted event more.
LEMMA AppliedUpTo ==
    ASSUME NEW n \in Nat, NEW s, IsState(s), UpTo(s, n), NEW e, BooksOK(Effect(s.books, e))
    PROVE  UpTo(Counted(Apply(s, e)), n + 1)
<1>1. PICK b, c, d : s = [books |-> b, event_count |-> c, seal |-> d]
    BY DEF IsState
<1>. DEFINE u == [s EXCEPT !.books = Effect(@, e)]
            item == [event |-> e, resulting |-> StateHash(u)]
<1>2. u = [books |-> Effect(b, e), event_count |-> c, seal |-> d]
    BY <1>1
<1>3. Apply(s, e) = [u EXCEPT !.seal = Append(@, item)]
    BY DEF Apply
<1>. HIDE DEF u, item
<1>4. Apply(s, e) = [books |-> Effect(b, e), event_count |-> c, seal |-> Append(d, item)]
    BY <1>2, <1>3
<1>. DEFINE r == Counted(Apply(s, e))
<1>5. r = [books |-> Effect(b, e), event_count |-> c + 1, seal |-> Append(d, item)]
    BY <1>4 DEF Counted
<1>. HIDE DEF r
<1>6. r.books = Effect(s.books, e) /\ r.event_count = s.event_count + 1
      /\ r.seal = Append(s.seal, item)
    BY <1>1, <1>5
<1>7. s.event_count \in 0..n
    BY DEF UpTo
<1>8. r.event_count \in 0..(n + 1)
    BY <1>6, <1>7
<1>9. PICK R : s.seal \in Seq(R) /\ Len(s.seal) <= n
    BY DEF UpTo
<1>10. s.seal \in Seq(R \cup {item})
    BY <1>9
<1>11. Append(s.seal, item) \in Seq(R \cup {item}) /\ Len(Append(s.seal, item)) = Len(s.seal) + 1
    BY <1>10
<1>12. Len(s.seal) \in Nat
    BY <1>9
<1>13. Len(r.seal) <= n + 1
    BY <1>6, <1>9, <1>11, <1>12
<1>14. UpTo(r, n + 1)
    BY <1>6, <1>8, <1>11, <1>13 DEF UpTo
<1>. QED
    BY <1>14 DEF r

\* The books after an event the log's books accept.
LEMMA AcceptedBooks ==
    ASSUME Ledger!IInv, NEW e \in Events, Accepts(replayed.state.books, e)
    PROVE  BooksOK(Effect(replayed.state.books, e))
<1>. DEFINE b == replayed.state.books
<1>1. /\ BooksOK(b)
      /\ \A t \in DOMAIN b.transactions :
            LET tx == b.transactions[t]
            IN  /\ {tx.from, tx.to} \subseteq DOMAIN b.accounts
                /\ tx.from # tx.to
                /\ Quantizable(tx.amount)
    BY DEF Ledger!IInv, Ledger!TypeOK, Ledger!TransfersSound, Ledger!BooksOK, BooksOK,
           Ledger!IsDict, IsDict, Ledger!Transfers, Transfers, Ledger!Quantizable, Quantizable
<1>. HIDE DEF b
<1>2. Rules!BooksOK(b)
    BY <1>1 DEF Rules!BooksOK, BooksOK, Rules!IsDict, IsDict, Rules!Transfers, Transfers
<1>3. e \in Rules!Events
    BY DEF Rules!Events, Events, Rules!CreateAccountEvents, CreateAccountEvents,
           Rules!PostEvents, PostEvents, Rules!InvoiceEvents, InvoiceEvents,
           Rules!PaymentEvents, PaymentEvents, Rules!ObligationEvents, ObligationEvents,
           Rules!ApproveEvents, ApproveEvents, Rules!RejectEvents, RejectEvents,
           Rules!ReverseEvents, ReverseEvents, Rules!Malformed, Malformed
<1>4. Rules!Accepts(b, e)
    BY DEF b, Rules!Accepts, Accepts, Rules!CanCreateAccount, CanCreateAccount,
           Rules!CanPost, CanPost, Rules!CanReverse, CanReverse, Rules!BalanceOf, BalanceOf,
           Rules!Quantizable, Quantizable, Rules!Quantize, Quantize
<1>5. \A t \in DOMAIN b.transactions :
            LET tx == b.transactions[t]
            IN  /\ {tx.from, tx.to} \subseteq DOMAIN b.accounts
                /\ tx.from # tx.to
                /\ Rules!Quantizable(tx.amount)
    BY <1>1 DEF Rules!Quantizable, Quantizable
<1>6. Rules!BooksOK(Rules!Effect(b, e))
    BY <1>2, <1>3, <1>4, <1>5, Rules!EffectOK, AmountsAssumption
<1>7. Rules!Effect(b, e) = Effect(b, e)
    BY DEF Rules!Effect, Effect, Rules!CreateAccount, CreateAccount, Rules!Post, Post,
           Rules!CreateInvoice, CreateInvoice, Rules!RecordPayment, RecordPayment,
           Rules!CreateObligation, CreateObligation, Rules!Decide, Decide,
           Rules!ReversePosting, ReversePosting, Rules!Put, Put, Rules!Move, Move,
           Rules!Quantize, Quantize
<1>8. BooksOK(Effect(b, e))
    BY <1>6, <1>7 DEF Rules!BooksOK, BooksOK, Rules!IsDict, IsDict, Rules!Transfers, Transfers
<1>. QED
    BY <1>8 DEF b


\* Steps that leave the log alone.
LEMMA TypesKept ==
    ASSUME Shapes, TypeParts, UNCHANGED history,
           \A p \in Processes : UpTo(mem'[p], Len(log)),
           recent' \in [Processes -> 0..MaxOps],
           \A t \in Threads : BooksOK(candidate'[t].books) /\ pending'[t] \in Seq(Commands)
    PROVE  TypeParts'
<1>1. log' = log /\ replays' = replays
    BY DEF history
<1>. QED
    BY <1>1 DEF TypeParts

LEMMA InitTypes == ASSUME TwinAssumption, Init PROVE TypeParts
<1>1. UpTo(Fresh, 0) /\ BooksOK(Fresh.books)
    BY FreshUpTo DEF UpTo
<1>2. NothingReplayed.state = Fresh /\ Len(<<>>) = 0
    BY DEF NothingReplayed
<1>3. \A n \in 0..Len(log) : UpTo(replays[n].state, n)
    <2>1. \A n \in 0..0 : n = 0
        OBVIOUS
    <2>. QED
        BY <1>1, <1>2, <2>1 DEF Init
<1>4. log \in Seq(Commands) /\ Len(log) <= MaxEvents /\ Len(log) = 0
    BY <1>2 DEF Init, TwinAssumption
<1>5. recent \in [Processes -> 0..MaxOps]
    BY DEF Init, TwinAssumption
<1>6. \A p \in Processes : UpTo(mem[p], Len(log))
    BY <1>1, <1>4 DEF Init
<1>7. \A t \in Threads : BooksOK(candidate[t].books) /\ pending[t] \in Seq(Commands)
    BY <1>1 DEF Init
<1>. QED
    BY <1>3, <1>4, <1>5, <1>6, <1>7 DEF TypeParts

\* The live states and the candidates that are the replay of the log.
LEMMA ReplayedUpTo ==
    ASSUME Shapes, TypeParts
    PROVE  /\ Len(log) \in Nat /\ UpTo(replayed.state, Len(log))
           /\ BooksOK(replayed.state.books)
           /\ \A n \in 0..Len(log) : UpTo(replays[n].state, Len(log))
<1>1. Len(log) \in Nat
    BY DEF Shapes
<1>2. Len(log) \in 0..Len(log)
    BY <1>1
<1>3. \A n \in 0..Len(log) : UpTo(replays[n].state, n)
    BY DEF TypeParts
<1>4. \A n \in 0..Len(log) : n \in Nat /\ n <= Len(log)
    BY <1>1
<1>5. \A n \in 0..Len(log) : UpTo(replays[n].state, Len(log))
    BY <1>1, <1>3, <1>4, UpToMore
<1>6. UpTo(replayed.state, Len(log))
    BY <1>2, <1>3 DEF replayed
<1>. QED
    BY <1>1, <1>5, <1>6 DEF UpTo

LEMMA ValidateTypes ==
    ASSUME TwinAssumption, IInv, Ledger!IInv, TypeParts,
           NEW t \in Threads, Validate(t), mem[ProcessOf[t]] = replayed.state
    PROVE  TypeParts'
<1>. DEFINE p == ProcessOf[t]
<1>1. Shapes /\ p \in Processes /\ UNCHANGED <<history, mem, pending>>
    BY DEF IInv, Validate, TwinAssumption
<1>2. recent' \in [Processes -> 0..MaxOps]
    <2>1. PICK kept \in 0..recent[p] :
            recent' = [recent EXCEPT ![p] = IF kept < MaxOps THEN kept + 1 ELSE kept]
        BY DEF Validate
    <2>2. recent[p] \in 0..MaxOps /\ MaxOps \in Nat
        BY <1>1 DEF TypeParts, TwinAssumption
    <2>3. kept \in 0..MaxOps
        BY <2>1, <2>2
    <2>4. (IF kept < MaxOps THEN kept + 1 ELSE kept) \in 0..MaxOps
        BY <2>2, <2>3
    <2>. QED
        BY <2>1, <2>4 DEF TypeParts
<1>3. \A u \in Threads : BooksOK(candidate'[u].books)
    <2>1. CASE candidate' = [candidate EXCEPT ![t] = Fresh]
        <3>1. BooksOK(Fresh.books)
            BY EmptyBooksOK DEF Fresh
        <3>. QED
            BY <1>1, <2>1, <3>1 DEF TypeParts, Shapes
    <2>2. CASE /\ Accepts(mem[p].books, command[t])
               /\ candidate' = [candidate EXCEPT ![t] = Counted(Apply(mem[p], command[t]))]
        <3>1. command[t] \in Events
            BY <1>1 DEF Shapes, Requests, TwinAssumption, Events
        <3>2. BooksOK(Effect(replayed.state.books, command[t]))
            BY <2>2, <3>1, AcceptedBooks
        <3>3. UpTo(Counted(Apply(replayed.state, command[t])), Len(log) + 1)
            BY <1>1, <3>2, ReplayedUpTo, ReplayedIsState, AppliedUpTo
        <3>4. BooksOK(Counted(Apply(mem[p], command[t])).books)
            BY <3>3 DEF UpTo
        <3>. QED
            BY <1>1, <2>2, <3>4 DEF TypeParts, Shapes
    <2>. QED
        BY <2>1, <2>2 DEF Validate, Leave
<1>. QED
    BY <1>1, <1>2, <1>3, TypesKept DEF TypeParts

\* The record is in the log: one prefix more, one accepted event longer.
LEMMA AppendTypes ==
    ASSUME TwinAssumption, OneAtATime, IInv, Ledger!IInv, TypeParts,
           NEW t \in Threads, AppendEvent(t)
    PROVE  TypeParts'
<1>1. /\ Shapes /\ Len(log) \in Nat /\ Len(log) < MaxEvents /\ MaxEvents \in Nat
      /\ log' = Append(log, command[t]) /\ replays' = Replaying(command[t])
      /\ UNCHANGED <<mem, recent, candidate, pending>>
    <2>1. Shapes
        BY DEF IInv
    <2>2. Len(log) \in Nat
        BY <2>1 DEF Shapes
    <2>. QED
        BY <2>1, <2>2 DEF AppendEvent, locals, TwinAssumption
<1>2. /\ Accepts(replayed.state.books, command[t])
      /\ ~replayed.failed
    <2>1. Len(log) \in 0..Len(log)
        BY <1>1
    <2>2. ~replayed.failed
        BY <2>1 DEF IInv, TwinInv, PrefixesReplay, replayed
    <2>. QED
        BY <2>2, AppendStep
<1>3. command[t] \in Commands /\ command[t] \in Events
    BY <1>1, <1>2 DEF Shapes, Requests, TwinAssumption, Accepts, Malformed
<1>4. log' \in Seq(Commands) /\ Len(log') = Len(log) + 1 /\ Len(log') <= MaxEvents
    BY <1>1, <1>3 DEF TypeParts
<1>5. ReplayNext(replayed, command[t]).state = Counted(Apply(replayed.state, command[t]))
    BY <1>2, ReplayStep
<1>6. UpTo(ReplayNext(replayed, command[t]).state, Len(log) + 1)
    <2>1. BooksOK(Effect(replayed.state.books, command[t]))
        BY <1>2, <1>3, AcceptedBooks
    <2>. QED
        BY <1>1, <1>5, <2>1, ReplayedUpTo, ReplayedIsState, AppliedUpTo
<1>7. ASSUME NEW n \in 0..Len(log') PROVE UpTo(replays'[n].state, n)
    <2>1. n \in 0..(Len(log) + 1)
        BY <1>4
    <2>2. replays'[n] = IF n <= Len(log) THEN replays[n] ELSE ReplayNext(replayed, command[t])
        BY <1>1, <2>1 DEF Replaying
    <2>3. CASE n <= Len(log)
        <3>1. n \in 0..Len(log)
            BY <1>1, <2>1, <2>3
        <3>. QED
            BY <2>2, <2>3, <3>1 DEF TypeParts
    <2>4. CASE ~(n <= Len(log))
        <3>1. n = Len(log) + 1
            BY <1>1, <2>1, <2>4
        <3>. QED
            BY <1>6, <2>2, <2>4, <3>1
    <2>. QED
        BY <2>3, <2>4
<1>8. \A p \in Processes : UpTo(mem'[p], Len(log'))
    <2>1. Len(log) + 1 \in Nat /\ Len(log) <= Len(log) + 1
        BY <1>1
    <2>. QED
        BY <1>1, <1>4, <2>1, UpToMore DEF TypeParts
<1>. QED
    BY <1>1, <1>4, <1>7, <1>8 DEF TypeParts

LEMMA TypeStep ==
    ASSUME TwinAssumption, OneAtATime, IInv, Ledger!IInv, TypeParts, [Next]_vars
    PROVE  TypeParts'
<1>1. /\ Shapes /\ Len(log) \in Nat /\ UpTo(replayed.state, Len(log))
      /\ \A n \in 0..Len(log) : UpTo(replays[n].state, Len(log))
      /\ UpTo(Fresh, Len(log)) /\ BooksOK(Fresh.books)
    BY ReplayedUpTo, FreshUpTo, EmptyBooksOK DEF IInv, Fresh
<1>2. /\ \A p \in Processes : UpTo(mem[p], Len(log))
      /\ recent \in [Processes -> 0..MaxOps] /\ MaxOps \in Nat
      /\ \A t \in Threads : BooksOK(candidate[t].books) /\ pending[t] \in Seq(Commands)
      /\ log \in Seq(Commands) /\ <<>> \in Seq(Commands)
    BY DEF TypeParts, TwinAssumption
<1>3. /\ DOMAIN mem = Processes /\ DOMAIN candidate = Threads
      /\ pending \in [Threads -> Seq(Requests)]
      /\ \A t \in Threads : ProcessOf[t] \in Processes
    BY <1>1 DEF Shapes, TwinAssumption
<1>4. ASSUME NEW p \in Processes, Start(p) PROVE TypeParts'
    BY <1>1, <1>2, <1>3, <1>4, TypesKept DEF Start, locals
<1>5. ASSUME NEW p \in Processes, Stop(p) PROVE TypeParts'
    BY <1>1, <1>2, <1>3, <1>5, TypesKept DEF Stop
<1>6. ASSUME NEW t \in Threads, \/ \E e \in Commands : Call(t, e)
                               \/ Acquire(t) \/ StartVerify(t) \/ HashLive(t)
      PROVE  TypeParts'
    <2>1. UNCHANGED <<history, mem, recent, candidate, pending>>
        BY <1>6 DEF Call, Acquire, StartVerify, HashLive, locals
    <2>. QED
        BY <1>1, <1>2, <2>1, TypesKept
<1>7. ASSUME NEW t \in Threads, Validate(t) PROVE TypeParts'
    <2>1. pc[t] = "locked" /\ Active(t)
        BY <1>1, <1>7 DEF Validate, Active, Stages, CommandStages
    <2>2. mem[ProcessOf[t]] = replayed.state
        BY <2>1, LiveCurrent DEF Changing
    <2>. QED
        BY <1>7, <2>2, ValidateTypes
<1>8. ASSUME NEW t \in Threads, AppendEvent(t) PROVE TypeParts'
    BY <1>8, AppendTypes
<1>9. ASSUME NEW t \in Threads, AppendFails(t) PROVE TypeParts'
    BY <1>1, <1>2, <1>3, <1>9, TypesKept DEF AppendFails, Leave
<1>10. ASSUME NEW t \in Threads, PublishBooks(t) PROVE TypeParts'
    <2>1. \A p \in Processes : UpTo(mem'[p], Len(log))
        <3>1. [mem[ProcessOf[t]] EXCEPT !.books = candidate[t].books].books = candidate[t].books
            BY <1>1, <1>3 DEF Shapes, IsState
        <3>2. UpTo([mem[ProcessOf[t]] EXCEPT !.books = candidate[t].books], Len(log))
            BY <1>1, <1>2, <1>3, <3>1 DEF UpTo, Shapes, IsState
        <3>. QED
            BY <1>2, <1>3, <1>10, <3>2 DEF PublishBooks
    <2>. QED
        BY <1>1, <1>2, <1>10, <2>1, TypesKept DEF PublishBooks, locals
<1>11. ASSUME NEW t \in Threads, PublishRest(t) PROVE TypeParts'
    <2>1. candidate[t] = replayed.state
        BY <1>11, Parts DEF IInv, PublishRest, CurrentOf
    <2>2. \A p \in Processes : UpTo(mem'[p], Len(log))
        <3>. DEFINE q == ProcessOf[t]
                    new == [mem[q] EXCEPT !.seal = candidate[t].seal,
                                          !.event_count = candidate[t].event_count]
        <3>0. IsState(mem[q])
            BY <1>1, <1>3 DEF Shapes
        <3>1. PICK b, c, d : mem[q] = [books |-> b, event_count |-> c, seal |-> d]
            BY <3>0, Zenon DEF IsState
        <3>2. new = [books |-> b, event_count |-> replayed.state.event_count,
                     seal |-> replayed.state.seal]
            <4>1. PICK half : half = [mem[q] EXCEPT !.seal = candidate[t].seal]
                OBVIOUS
            <4>2. half = [books |-> b, event_count |-> c, seal |-> candidate[t].seal]
                BY <3>1, <4>1
            <4>3. [half EXCEPT !.event_count = candidate[t].event_count]
                    = [books |-> b, event_count |-> candidate[t].event_count,
                       seal |-> candidate[t].seal]
                BY <4>2
            <4>. QED
                BY <2>1, <4>1, <4>3, Zenon
        <3>3. BooksOK(b)
            BY <1>2, <1>3, <3>1 DEF UpTo
        <3>4. mem' = [mem EXCEPT ![q] = new]
            BY <1>11, <1>3 DEF PublishRest
        <3>. HIDE DEF new
        <3>5. UpTo(new, Len(log))
            BY <1>1, <3>2, <3>3 DEF UpTo
        <3>. QED
            BY <1>2, <1>3, <3>4, <3>5
    <2>3. \A u \in Threads : BooksOK(candidate'[u].books)
        BY <1>1, <1>2, <1>3, <1>11 DEF PublishRest, Leave
    <2>. QED
        BY <1>1, <1>2, <1>11, <2>2, <2>3, TypesKept DEF PublishRest
<1>12. ASSUME NEW t \in Threads, Reset(t) PROVE TypeParts'
    BY <1>1, <1>2, <1>3, <1>12, TypesKept DEF Reset, locals
<1>13. ASSUME NEW t \in Threads, ReadAll(t) PROVE TypeParts'
    BY <1>1, <1>2, <1>3, <1>13, TypesKept DEF ReadAll
<1>14. ASSUME NEW t \in Threads, ReplayOne(t) PROVE TypeParts'
    <2>1. \A u \in Threads : pending'[u] \in Seq(Commands)
        <3>1. pending[t] \in Seq(Commands) /\ pending[t] # <<>>
            BY <1>2, <1>14 DEF ReplayOne
        <3>2. Tail(pending[t]) \in Seq(Commands)
            BY <3>1
        <3>3. \/ pending' = [pending EXCEPT ![t] = Tail(pending[t])]
              \/ pending' = [pending EXCEPT ![t] = <<>>]
            BY <1>14, Zenon DEF ReplayOne, EndVerify
        <3>. QED
            BY <1>2, <1>3, <3>2, <3>3
    <2>2. CASE UNCHANGED mem
        BY <1>1, <1>2, <1>14, <2>1, <2>2, TypesKept DEF ReplayOne
    <2>3. CASE /\ mem' = [mem EXCEPT ![ProcessOf[t]] =
                             Counted(Apply(@, Head(pending[t])))]
               /\ UNCHANGED pc
        <3>1. IInv' /\ pc'[t] = "replaying" /\ UNCHANGED history
            BY <1>14, <2>3, ReplayOneStep DEF ReplayOne
        <3>2. Rebuilding(t)'
            BY <3>1 DEF IInv, TwinInv, Staged
        <3>3. PICK n \in 0..Len(log) : mem'[ProcessOf[t]] = replays[n].state
            BY <3>1, <3>2 DEF Rebuilding, Live, history
        <3>4. \A p \in Processes : UpTo(mem'[p], Len(log))
            BY <1>1, <1>2, <1>3, <2>3, <3>3
        <3>. QED
            BY <1>1, <1>2, <1>14, <2>1, <3>4, TypesKept DEF ReplayOne
    <2>. QED
        BY <1>14, <2>2, <2>3 DEF ReplayOne
<1>15. ASSUME NEW t \in Threads, Compare(t) PROVE TypeParts'
    BY <1>1, <1>2, <1>3, <1>15, TypesKept DEF Compare, EndVerify
<1>16. CASE UNCHANGED vars
    BY <1>1, <1>2, <1>16, TypesKept DEF vars, locals
<1>. QED
    BY <1>4, <1>5, <1>6, <1>7, <1>8, <1>9, <1>10, <1>11, <1>12, <1>13, <1>14, <1>15, <1>16 DEF Next, Step

\* Every state an engine has, tries, publishes or replays is well formed, its
\* balances are natural numbers, and neither the count, nor the seals, nor the
\* rate limiter's window grows beyond what the log and RATE_LIMIT_MAX_OPS allow.
\* One process and one command or verification at a time is needed for the count:
\* two verifications that replay the log into one live state count events twice.
THEOREM TypesHold ==
    ASSUME OneAtATime
    PROVE  Spec => []TypeOK
<1>1. Init => TypeParts
    BY TwinAssumption, InitTypes
<1>2. IInv /\ Ledger!IInv /\ TypeParts /\ [Next]_vars => TypeParts'
    BY TwinAssumption, TypeStep
<1>3. ASSUME IInv, TypeParts, NoFalseAlarm PROVE TypeOK
    <2>1. /\ Shapes /\ BooksOK(replayed.state.books)
          /\ Len(log) \in Nat /\ Len(log) <= MaxEvents /\ MaxEvents \in Nat
        BY <1>3, ReplayedUpTo, TwinAssumption DEF IInv, TypeParts, TwinAssumption
    <2>2. ASSUME NEW p \in Processes
          PROVE  /\ BooksOK(mem[p].books)
                 /\ mem[p].event_count \in 0..MaxEvents
                 /\ Len(mem[p].seal) <= MaxEvents
        <3>1. UpTo(mem[p], Len(log))
            BY <1>3 DEF TypeParts
        <3>2. PICK R : mem[p].seal \in Seq(R) /\ Len(mem[p].seal) <= Len(log)
            BY <3>1 DEF UpTo
        <3>3. Len(mem[p].seal) \in Nat
            BY <3>2
        <3>. QED
            BY <2>1, <3>1, <3>2, <3>3 DEF UpTo
    <2>. QED
        BY <1>3, <2>1, <2>2
        DEF TypeOK, TypeParts, Shapes, Stages, Requests, NoFalseAlarm, Verdicts
<1>. QED
    BY <1>1, <1>2, <1>3, Inductive, ReplayedBooksSound, NoFalseAlarms, PTL DEF Spec

=============================================================================
