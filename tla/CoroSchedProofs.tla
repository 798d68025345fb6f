-------------------------- MODULE CoroSchedProofs --------------------------
(* Proofs about the coroutine scheduler, for any number of workers,         *)
(* coroutines, channels and programs.                                       *)
EXTENDS CoroSchedProps, SequenceTheorems, TLAPS

-----------------------------------------------------------------------------
(* Sequences and channels keep their types.                                 *)

LEMMA AppendFacts ==
  ASSUME NEW S, NEW s \in Seq(S), NEW e \in S
  PROVE  Append(s, e) \in Seq(S) /\ Append(s, e) # <<>>
                                 /\ Len(Append(s, e)) = Len(s) + 1
  BY AppendProperties

LEMMA SingletonType ==
  ASSUME NEW S, NEW e \in S
  PROVE  <<e>> \in Seq(S)
  OBVIOUS

LEMMA FirstRest ==
  ASSUME NEW S, NEW s \in Seq(S)
  PROVE  First(s) \in Seq(S) /\ Rest(s) \in Seq(S)
<1>1. CASE s = <<>>
  BY <1>1 DEF First, Rest
<1>2. CASE s # <<>>
  <2>1. Head(s) \in S /\ Tail(s) \in Seq(S)
    BY <1>2
  <2>2. <<Head(s)>> \in Seq(S)
    BY <2>1, SingletonType
  <2>3. First(s) = <<Head(s)>> /\ Rest(s) = Tail(s)
    BY <1>2 DEF First, Rest
  <2> QED
    BY <2>1, <2>2, <2>3
<1> QED
  BY <1>1, <1>2

LEMMA HeadTail ==
  ASSUME NEW S, NEW s \in Seq(S), s # <<>>
  PROVE  /\ Head(s) \in S /\ Tail(s) \in Seq(S)
         /\ Len(s) # 1 => Tail(s) # <<>>
<1>1. PICK h \in S, t \in Seq(S) :
         h = Head(s) /\ t = Tail(s) /\ Len(t) = Len(s) - 1
  BY HeadTailProperties
<1>2. Len(s) \in Nat /\ (t = <<>> => Len(t) = 0)
  BY EmptySeq
<1>3. t = <<>> => Len(s) = 1
  BY <1>1, <1>2
<1> QED
  BY <1>1, <1>3

LEMMA LastFront ==
  ASSUME NEW S, NEW s \in Seq(S), s # <<>>
  PROVE  Last(s) \in S /\ Front(s) \in Seq(S) /\ Len(Front(s)) = Len(s) - 1
<1>1. Len(s) \in Nat /\ Len(s) > 0
  OBVIOUS
<1>2. Last(s) \in S
  BY <1>1 DEF Last
<1>3. PICK n \in Nat : n = Len(s) - 1
  BY <1>1
<1>4. \A i \in 1..n : s[i] \in S
  BY <1>3
<1>5. /\ SubSeq(s, 1, n) \in Seq(S)
      /\ Len(SubSeq(s, 1, n)) = IF 1 <= n THEN n - 1 + 1 ELSE 0
  BY <1>4, SubSeqProperties
<1>6. (IF 1 <= n THEN n - 1 + 1 ELSE 0) = n
  OBVIOUS
<1>7. Front(s) = SubSeq(s, 1, n)
  BY <1>3 DEF Front
<1> QED
  BY <1>2, <1>3, <1>5, <1>6, <1>7

LEMMA SubSeqType ==
  ASSUME NEW S, NEW s \in Seq(S), NEW m \in Nat \ {0}, NEW n \in Nat, n <= Len(s)
  PROVE  SubSeq(s, m, n) \in Seq(S)
<1>1. \A i \in m..n : s[i] \in S
  OBVIOUS
<1> QED
  BY <1>1, SubSeqProperties

LEMMA RemoveAtType ==
  ASSUME NEW S, NEW s \in Seq(S), NEW i \in 1..Len(s)
  PROVE  RemoveAt(s, i) \in Seq(S)
<1>1. SubSeq(s, 1, i - 1) \in Seq(S) /\ SubSeq(s, i + 1, Len(s)) \in Seq(S)
  OBVIOUS
<1> QED
  BY <1>1 DEF RemoveAt

LEMMA EmptyType == EmptyChan \in ChanType(Coros, Values)
  BY DEF EmptyChan, ChanType

LEMMA PushedType ==
  ASSUME NEW ch \in ChanType(Coros, Values), NEW v \in Values
  PROVE  /\ Pushed(ch, v) \in ChanType(Coros, Values)
         /\ PushWakes(ch) \in Seq(Coros)
<1>1. ch.buf \in Seq(Values) /\ ch.rwait \in Seq(Coros)
  BY DEF ChanType
<1>2. Append(ch.buf, v) \in Seq(Values) /\ Rest(ch.rwait) \in Seq(Coros)
                                       /\ First(ch.rwait) \in Seq(Coros)
  BY <1>1, FirstRest
<1> QED
  BY <1>2 DEF ChanType, Pushed, PushWakes

LEMMA PoppedType ==
  ASSUME NEW ch \in ChanType(Coros, Values), ch.buf # <<>>
  PROVE  /\ Popped(ch) \in ChanType(Coros, Values)
         /\ PopWakes(ch) \in Seq(Coros)
<1>1. /\ ch.buf \in Seq(Values) /\ ch.rwait \in Seq(Coros)
      /\ ch.swait \in Seq([co : Coros, val : Values])
  BY DEF ChanType
<1>2. Tail(ch.buf) \in Seq(Values)
  BY <1>1
<1>3. CASE ch.swait = <<>>
  <2>1. <<>> \in Seq(Coros)
    OBVIOUS
  <2> QED
    BY <1>1, <1>2, <1>3, <2>1 DEF ChanType, Popped, PopWakes
<1>4. CASE ch.swait # <<>>
  <2>1. /\ Head(ch.swait) \in [co : Coros, val : Values]
        /\ Tail(ch.swait) \in Seq([co : Coros, val : Values])
    BY <1>1, <1>4, HeadTail, Zenon
  <2>2. Head(ch.swait).co \in Coros /\ Head(ch.swait).val \in Values
    BY <2>1
  <2>3. Append(Tail(ch.buf), Head(ch.swait).val) \in Seq(Values)
    BY <1>2, <2>2
  <2>4. Rest(ch.rwait) \in Seq(Coros) /\ First(ch.rwait) \in Seq(Coros)
    BY <1>1, FirstRest
  <2>5. <<Head(ch.swait).co>> \in Seq(Coros)
    BY <2>2
  <2>6. <<Head(ch.swait).co>> \o First(ch.rwait) \in Seq(Coros)
    BY <2>4, <2>5
  <2> QED
    BY <1>4, <2>1, <2>3, <2>4, <2>6 DEF ChanType, Popped, PopWakes
<1> QED
  BY <1>3, <1>4

LEMMA ParkedType ==
  ASSUME NEW ch \in ChanType(Coros, Values), NEW c \in Coros
  PROVE  /\ ParkedReceiver(ch, c) \in ChanType(Coros, Values)
         /\ \A v \in Values : ParkedSender(ch, c, v) \in ChanType(Coros, Values)
<1>1. ch.rwait \in Seq(Coros) /\ ch.swait \in Seq([co : Coros, val : Values])
  BY DEF ChanType
<1>2. Append(ch.rwait, c) \in Seq(Coros)
  BY <1>1
<1>3. ASSUME NEW v \in Values
      PROVE  Append(ch.swait, [co |-> c, val |-> v])
                \in Seq([co : Coros, val : Values])
  BY <1>1
<1> QED
  BY <1>2, <1>3 DEF ChanType, ParkedReceiver, ParkedSender

-----------------------------------------------------------------------------
(* The running frame and its instruction.                                   *)

LEMMA RunningType ==
  ASSUME TypeOK, NEW w \in Workers, stack[w] # <<>>
  PROVE  Running(w) \in Coros
<1>1. stack[w] \in Seq(Coros)
  BY DEF TypeOK
<1> QED
  BY <1>1, LastFront DEF Running

LEMMA CurrentType ==
  ASSUME TypeOK, NEW c \in Coros
  PROVE  /\ Current(c).op = "send" =>
              Current(c).ch \in Channels /\ Current(c).val \in Values
         /\ Current(c).op = "recv" => Current(c).ch \in Channels
         /\ Current(c).op \in {"spawn", "await", "cancel"} => Current(c).co \in Coros
<1>1. prog.body[c] \in Seq(Instr) /\ ip[c] \in Nat \ {0}
  BY ProgramsAssumption DEF TypeOK
<1>2. Current(c) \in Instr \/ Current(c) = [op |-> "return"]
  BY <1>1 DEF Current
<1> QED
  BY <1>2 DEF Instr

LEMMA AdvanceType ==
  ASSUME TypeOK, NEW w \in Workers, Advance(w)
  PROVE  ip' \in [Coros -> Nat \ {0}]
<1>1. ip' = [ip EXCEPT ![Running(w)] = @ + 1] /\ ip \in [Coros -> Nat \ {0}]
  BY DEF TypeOK, Advance
<1>2. CASE Running(w) \in Coros
  BY <1>1, <1>2
<1>3. CASE Running(w) \notin Coros
  BY <1>1, <1>3
<1> QED
  BY <1>2, <1>3

-----------------------------------------------------------------------------
(* A thread's position and READY's mutex.                                   *)
LEMMA PcType ==
  ASSUME TypeOK, NEW w \in Workers, NEW p \in PCs, Go(w, p)
  PROVE  pc' \in [Workers -> PCs]
  BY DEF TypeOK, Go

LEMMA LockType ==
  ASSUME TypeOK, NEW w \in Workers, readyLock' \in {readyLock, Free, w}
  PROVE  readyLock' \in 0..N
<1>1. Free \in 0..N /\ w \in 0..N
  BY NAssumption DEF Free, Workers
<1>2. readyLock \in 0..N
  BY DEF TypeOK
<1> QED
  BY <1>1, <1>2

LEMMA ConfirmType ==
  ASSUME TypeOK, NEW w \in Workers,
         confirm' = confirm \/ confirm' = [confirm EXCEPT ![w] = 0]
  PROVE  confirm' \in [Workers -> Nat]
<1>1. confirm \in [Workers -> Nat]
  BY DEF TypeOK
<1> QED
  BY <1>1

LEMMA NatAboveOne == \A n \in Nat \ {0} : n = 1 \/ n > 1
  OBVIOUS

LEMMA StackType ==
  ASSUME TypeOK, NEW w \in Workers,
         stack' = stack \/ stack' = [stack EXCEPT ![w] = <<>>]
  PROVE  stack' \in [Workers -> Seq(Coros)]
<1>1. stack \in [Workers -> Seq(Coros)] /\ <<>> \in Seq(Coros)
  BY DEF TypeOK
<1> QED
  BY <1>1

-----------------------------------------------------------------------------
LEMMA InitStealInv == Init => StealInv
<1> SUFFICES ASSUME Init PROVE StealInv
  OBVIOUS
<1>1. chan \in [Channels -> ChanType(Coros, Values)]
  BY EmptyType DEF Init
<1>2. /\ readyLock \in 0..N /\ localLock \in [Workers -> 0..N]
      /\ confirm \in [Workers -> Nat] /\ off \in [Workers -> 1..N]
  BY NAssumption DEF Init, Free
<1>3. /\ pc \in [Workers -> PCs] /\ frame \in [Coros -> Frames]
      /\ intent \in [Workers -> Intents]
  BY DEF Init, PCs, Frames, Intents
<1>4. prog \in Programs /\ mainIp = 1
  BY DEF Init
<1>8. schedulable \in Int /\ running \in Int /\ handoff \in Int /\ live \in Int
  BY DEF Init
<1>9. shutdown \in BOOLEAN /\ deadlock \in BOOLEAN
  BY Zenon DEF Init
<1>5. /\ ip \in [Coros -> Nat \ {0}]
      /\ done \in [Coros -> BOOLEAN] /\ asleep \in [Coros -> BOOLEAN]
  BY DEF Init
<1>6. /\ wid \in [Workers -> BOOLEAN]
      /\ next \in [Workers -> Coros \cup {None}]
      /\ cur \in [Workers -> Coros \cup {None}]
      /\ parked \in [Workers -> BOOLEAN] /\ sleeps \in [Workers -> BOOLEAN]
      /\ ret \in [Workers -> {"exec", "suspend"}]
      /\ timer \in [Workers -> BOOLEAN]
  BY DEF Init
<1>7. /\ ready \in Seq(Coros) /\ localq \in [Workers -> Seq(Coros)]
      /\ stack \in [Workers -> Seq(Coros)] /\ wakes \in [Workers -> Seq(Coros)]
  BY DEF Init
<1>10. TypeOK
  BY <1>1, <1>2, <1>3, <1>4, <1>5, <1>6, <1>7, <1>8, <1>9 DEF TypeOK
<1>11. \A w \in Workers : /\ pc[w] \in {"main", "off"} /\ stack[w] = <<>>
                          /\ ~wid[w] /\ localLock[w] = Free
  BY DEF Init
<1>12. \A w \in Workers : ThreadShape(w)
  BY <1>11 DEF ThreadShape, Fetching, InBody
<1>13. OthersOff
  BY DEF OthersOff, Init, At
<1>14. SearchersEmpty /\ MineHoldsVictim /\ \A v \in Workers : LocalLockHeld(v)
  BY <1>11 DEF SearchersEmpty, LocalLockHeld, MineHoldsVictim, At
<1> QED
  BY <1>10, <1>12, <1>13, <1>14 DEF StealInv

-----------------------------------------------------------------------------
(* A step that leaves the local queues and their mutexes alone, of a thread *)
(* that neither holds one nor starts to search.                             *)
Quiet(w) ==
    /\ \A v \in Workers : v # w => /\ pc'[v] = pc[v] /\ stack'[v] = stack[v]
                                   /\ cur'[v] = cur[v] /\ wakes'[v] = wakes[v]
    /\ wid' = wid /\ off' = off
    /\ localq' = localq /\ localLock' = localLock
    /\ pc[w] \notin {"off", "uncount", "count", "mine"}
    /\ pc'[w] \notin {"off", "scan", "steal", "mine"}

LEMMA QuietStep ==
  ASSUME StealInv, NEW w \in Workers, Quiet(w), TypeOK', ThreadShape(w)'
  PROVE  StealInv'
<1>1. ASSUME NEW v \in Workers PROVE ThreadShape(v)'
  BY DEF StealInv, Quiet, ThreadShape
<1>2. OthersOff'
  BY NAssumption DEF StealInv, Quiet, OthersOff, At, Workers
<1>3. SearchersEmpty'
  BY DEF StealInv, Quiet, SearchersEmpty
<1>4. MineHoldsVictim'
  BY DEF StealInv, Quiet, MineHoldsVictim, At, Victim
<1>5. ASSUME NEW v \in Workers PROVE LocalLockHeld(v)'
  <2>1. LocalLockHeld(v)
    BY DEF StealInv
  <2>2. CASE localLock[v] = Free
    BY <2>2 DEF LocalLockHeld, Quiet
  <2>3. CASE localLock[v] = v /\ pc[v] \in {"uncount", "count"}
    BY <2>3 DEF LocalLockHeld, Quiet
  <2>4. ASSUME NEW u \in Workers \ {v},
               localLock[v] = u /\ At(u, "mine") /\ wid[u],
               Victim(u) = v, localq[v] # <<>>
        PROVE  LocalLockHeld(v)'
    BY <2>4 DEF LocalLockHeld, Quiet, At, Victim
  <2> QED
    BY <2>1, <2>2, <2>3, <2>4 DEF LocalLockHeld
<1> QED
  BY <1>1, <1>2, <1>3, <1>4, <1>5 DEF StealInv

LEMMA LoopTopInv ==
  ASSUME StealInv, NEW w \in Workers, LoopTop(w)
  PROVE  StealInv'
<1> USE DEF LoopTop, program, queues, counters, flags, coros, shared, waking,
      search, locals, At, Go
<1>1. TypeOK /\ ThreadShape(w)
  BY DEF StealInv
<1>p. PICK p \in {"pick", "stopped"} : Go(w, p)
  BY <1>1 DEF TypeOK
<1>q. p \in PCs
  BY <1>p DEF PCs
<1>2. TypeOK'
  <2>1. pc' \in [Workers -> PCs]
    BY <1>1, <1>p, <1>q, PcType
  <2> QED
    BY <1>1, <2>1 DEF TypeOK
<1>3. Quiet(w)
  BY <1>1, <1>p DEF TypeOK, Quiet
<1>4. ThreadShape(w)'
  BY <1>1, <1>p DEF TypeOK, ThreadShape, Fetching, InBody
<1> QED
  BY <1>2, <1>3, <1>4, QuietStep

LEMMA PickNextInv ==
  ASSUME StealInv, NEW w \in Workers, PickNext(w)
  PROVE  StealInv'
<1> USE DEF PickNext, program, queues, flags, coros, waking, search, At, Go
<1>1. TypeOK /\ ThreadShape(w)
  BY DEF StealInv
<1>2. TypeOK'
  <2>1. running' \in Int
    BY <1>1 DEF TypeOK
  <2>2. pc' \in [Workers -> PCs]
    BY <1>1 DEF TypeOK, PCs
  <2>3. next' \in [Workers -> Coros \cup {None}]
    BY <1>1 DEF TypeOK
  <2>4. cur' \in [Workers -> Coros \cup {None}]
    BY <1>1 DEF TypeOK
  <2> QED
    BY <1>1, <2>1, <2>2, <2>3, <2>4 DEF TypeOK
<1>3. Quiet(w)
  BY <1>1 DEF TypeOK, Quiet
<1>4. ThreadShape(w)'
  BY <1>1 DEF TypeOK, ThreadShape, Fetching, InBody
<1> QED
  BY <1>2, <1>3, <1>4, QuietStep

LEMMA HandoffTakenInv ==
  ASSUME StealInv, NEW w \in Workers, HandoffTaken(w)
  PROVE  StealInv'
<1> USE DEF HandoffTaken, program, queues, flags, coros, waking, search, locals,
      At, Go
<1>1. TypeOK /\ ThreadShape(w)
  BY DEF StealInv
<1>2. TypeOK'
  <2>1. handoff' \in Int
    BY <1>1 DEF TypeOK
  <2>2. pc' \in [Workers -> PCs]
    BY <1>1 DEF TypeOK, PCs
  <2> QED
    BY <1>1, <2>1, <2>2 DEF TypeOK
<1>3. Quiet(w)
  BY <1>1 DEF TypeOK, Quiet
<1>4. ThreadShape(w)'
  BY <1>1 DEF TypeOK, ThreadShape, Fetching, InBody
<1> QED
  BY <1>2, <1>3, <1>4, QuietStep

LEMMA ScanTakeInv ==
  ASSUME StealInv, NEW w \in Workers, ScanTake(w)
  PROVE  StealInv'
<1> USE DEF ScanTake, program, flags, coros, waking, search, At, Go
<1>1. TypeOK /\ ThreadShape(w)
  BY DEF StealInv
<1>d. PICK i \in Due : /\ ready' = RemoveAt(ready, i)
                     /\ cur' = [cur EXCEPT ![w] = ready[i]]
  OBVIOUS
<1>i. i \in 1..Len(ready) /\ ready \in Seq(Coros)
  BY <1>1 DEF TypeOK, Due
<1>c. ready[i] \in Coros
  BY <1>i
<1>2. TypeOK'
  <2>1. ready' \in Seq(Coros)
    BY <1>d, <1>i, RemoveAtType
  <2>2. schedulable' \in Int
    BY <1>1 DEF TypeOK
  <2>3. running' \in Int
    BY <1>1 DEF TypeOK
  <2>4. pc' \in [Workers -> PCs]
    BY <1>1 DEF TypeOK, PCs
  <2>5. cur' \in [Workers -> Coros \cup {None}]
    BY <1>1, <1>d, <1>c DEF TypeOK
  <2> QED
    BY <1>1, <2>1, <2>2, <2>3, <2>4, <2>5 DEF TypeOK
<1>3. Quiet(w)
  BY <1>1 DEF TypeOK, Quiet
<1>4. ThreadShape(w)'
  BY <1>1, <1>d, <1>c, NoneAssumption DEF TypeOK, ThreadShape, Fetching, InBody
<1> QED
  BY <1>2, <1>3, <1>4, QuietStep

LEMMA StealMissInv ==
  ASSUME StealInv, NEW w \in Workers, StealMiss(w)
  PROVE  StealInv'
<1> USE DEF StealMiss, program, queues, counters, flags, coros, shared, waking,
      search, locals, At, Go
<1>1. TypeOK /\ ThreadShape(w)
  BY DEF StealInv
<1>p. PICK p \in {"none", "timer"} : Go(w, p)
  BY <1>1 DEF TypeOK
<1>q. p \in PCs
  BY <1>p DEF PCs
<1>2. TypeOK'
  <2>1. pc' \in [Workers -> PCs]
    BY <1>1, <1>p, <1>q, PcType
  <2> QED
    BY <1>1, <2>1 DEF TypeOK
<1>3. Quiet(w)
  BY <1>1, <1>p DEF TypeOK, Quiet
<1>4. ThreadShape(w)'
  BY <1>1, <1>p DEF TypeOK, ThreadShape, Fetching, InBody
<1> QED
  BY <1>2, <1>3, <1>4, QuietStep

LEMMA TimerSleepInv ==
  ASSUME StealInv, NEW w \in Workers, TimerSleep(w)
  PROVE  StealInv'
<1> USE DEF TimerSleep, program, queues, counters, flags, coros, shared, waking,
      search, At, Go, LoopHead
<1>1. TypeOK /\ ThreadShape(w)
  BY DEF StealInv
<1>p. PICK p \in {"sync", "top"} : Go(w, p)
  BY <1>1 DEF TypeOK
<1>q. p \in PCs
  BY <1>p DEF PCs
<1>2. TypeOK'
  <2>1. pc' \in [Workers -> PCs]
    BY <1>1, <1>p, <1>q, PcType
  <2>2. confirm' \in [Workers -> Nat]
    BY <1>1 DEF TypeOK
  <2> QED
    BY <1>1, <2>1, <2>2 DEF TypeOK
<1>3. Quiet(w)
  BY <1>1, <1>p DEF TypeOK, Quiet
<1>4. ThreadShape(w)'
  BY <1>1, <1>p DEF TypeOK, ThreadShape, Fetching, InBody
<1> QED
  BY <1>2, <1>3, <1>4, QuietStep

LEMMA SyncNoneInv ==
  ASSUME StealInv, NEW w \in Workers, SyncNone(w)
  PROVE  StealInv'
<1> USE DEF SyncNone, queues, counters, flags, coros, waking, search, locals, At,
      Go
<1>1. TypeOK /\ ThreadShape(w)
  BY DEF StealInv
<1>p. PICK p \in {"main", "sync"} : Go(w, p)
  BY <1>1 DEF TypeOK
<1>q. p \in PCs
  BY <1>p DEF PCs
<1>2. TypeOK'
  <2>1. mainIp' \in Nat \ {0}
    BY <1>1 DEF TypeOK
  <2>2. pc' \in [Workers -> PCs]
    BY <1>1, <1>p, <1>q, PcType
  <2> QED
    BY <1>1, <2>1, <2>2 DEF TypeOK
<1>3. Quiet(w)
  BY <1>1, <1>p DEF TypeOK, Quiet
<1>4. ThreadShape(w)'
  BY <1>1, <1>p DEF TypeOK, ThreadShape, Fetching, InBody
<1> QED
  BY <1>2, <1>3, <1>4, QuietStep

LEMMA IdleLockInv ==
  ASSUME StealInv, NEW w \in Workers, IdleLock(w)
  PROVE  StealInv'
<1> USE DEF IdleLock, program, counters, flags, coros, waking, search, locals,
      At, Go
<1>1. TypeOK /\ ThreadShape(w)
  BY DEF StealInv
<1>p. PICK p \in {"chkLive", "top"} : Go(w, p)
  BY <1>1 DEF TypeOK
<1>q. p \in PCs
  BY <1>p DEF PCs
<1>2. TypeOK'
  <2>1. readyLock' \in 0..N
    <3>1. readyLock' \in {readyLock, Free, w}
      OBVIOUS
    <3> QED
      BY <1>1, <3>1, LockType
  <2>2. pc' \in [Workers -> PCs]
    BY <1>1, <1>p, <1>q, PcType
  <2> QED
    BY <1>1, <2>1, <2>2 DEF TypeOK
<1>3. Quiet(w)
  BY <1>1, <1>p DEF TypeOK, Quiet
<1>4. ThreadShape(w)'
  BY <1>1, <1>p DEF TypeOK, ThreadShape, Fetching, InBody
<1> QED
  BY <1>2, <1>3, <1>4, QuietStep

LEMMA CheckLiveInv ==
  ASSUME StealInv, NEW w \in Workers, CheckLive(w)
  PROVE  StealInv'
<1> USE DEF CheckLive, program, counters, coros, waking, search, locals, At, Go
<1>1. TypeOK /\ ThreadShape(w)
  BY DEF StealInv
<1>p. PICK p \in {"chkRun", "stopped"} : Go(w, p)
  BY <1>1 DEF TypeOK
<1>q. p \in PCs
  BY <1>p DEF PCs
<1>2. TypeOK'
  <2>1. readyLock' \in 0..N
    <3>1. readyLock' \in {readyLock, Free, w}
      OBVIOUS
    <3> QED
      BY <1>1, <3>1, LockType
  <2>2. shutdown' \in BOOLEAN
    BY <1>1 DEF TypeOK
  <2>3. pc' \in [Workers -> PCs]
    BY <1>1, <1>p, <1>q, PcType
  <2> QED
    BY <1>1, <2>1, <2>2, <2>3 DEF TypeOK
<1>3. Quiet(w)
  BY <1>1, <1>p DEF TypeOK, Quiet
<1>4. ThreadShape(w)'
  BY <1>1, <1>p DEF TypeOK, ThreadShape, Fetching, InBody
<1> QED
  BY <1>2, <1>3, <1>4, QuietStep

LEMMA CheckRunningInv ==
  ASSUME StealInv, NEW w \in Workers, CheckRunning(w)
  PROVE  StealInv'
<1> USE DEF CheckRunning, program, counters, flags, coros, waking, search, At,
      Go
<1>1. TypeOK /\ ThreadShape(w)
  BY DEF StealInv
<1>p. PICK p \in {"chkHand", "wait"} : Go(w, p)
  BY <1>1 DEF TypeOK
<1>q. p \in PCs
  BY <1>p DEF PCs
<1>2. TypeOK'
  <2>1. readyLock' \in 0..N
    <3>1. readyLock' \in {readyLock, Free, w}
      OBVIOUS
    <3> QED
      BY <1>1, <3>1, LockType
  <2>2. pc' \in [Workers -> PCs]
    BY <1>1, <1>p, <1>q, PcType
  <2>3. confirm' \in [Workers -> Nat]
    <3>1. confirm' = confirm \/ confirm' = [confirm EXCEPT ![w] = 0]
      OBVIOUS
    <3> QED
      BY <1>1, <3>1, ConfirmType
  <2> QED
    BY <1>1, <2>1, <2>2, <2>3 DEF TypeOK
<1>3. Quiet(w)
  BY <1>1, <1>p DEF TypeOK, Quiet
<1>4. ThreadShape(w)'
  BY <1>1, <1>p DEF TypeOK, ThreadShape, Fetching, InBody
<1> QED
  BY <1>2, <1>3, <1>4, QuietStep

LEMMA CheckHandoffInv ==
  ASSUME StealInv, NEW w \in Workers, CheckHandoff(w)
  PROVE  StealInv'
<1> USE DEF CheckHandoff, program, counters, coros, waking, search, At, Go
<1>1. TypeOK /\ ThreadShape(w)
  BY DEF StealInv
<1>p. PICK p \in {"stopped", "wait"} : Go(w, p)
  BY <1>1 DEF TypeOK
<1>q. p \in PCs
  BY <1>p DEF PCs
<1>2. TypeOK'
  <2>1. readyLock' \in 0..N
    <3>1. readyLock' \in {readyLock, Free, w}
      OBVIOUS
    <3> QED
      BY <1>1, <3>1, LockType
  <2>2. shutdown' \in BOOLEAN
    BY <1>1 DEF TypeOK
  <2>3. deadlock' \in BOOLEAN
    BY <1>1 DEF TypeOK
  <2>4. pc' \in [Workers -> PCs]
    BY <1>1, <1>p, <1>q, PcType
  <2>5. confirm' \in [Workers -> Nat]
    BY <1>1 DEF TypeOK
  <2> QED
    BY <1>1, <2>1, <2>2, <2>3, <2>4, <2>5 DEF TypeOK
<1>3. Quiet(w)
  BY <1>1, <1>p DEF TypeOK, Quiet
<1>4. ThreadShape(w)'
  BY <1>1, <1>p DEF TypeOK, ThreadShape, Fetching, InBody
<1> QED
  BY <1>2, <1>3, <1>4, QuietStep

LEMMA IdleWaitInv ==
  ASSUME StealInv, NEW w \in Workers, IdleWait(w)
  PROVE  StealInv'
<1> USE DEF IdleWait, program, queues, counters, flags, coros, shared, waking,
      search, locals, At, Go
<1>1. TypeOK /\ ThreadShape(w)
  BY DEF StealInv
<1>2. TypeOK'
  <2>1. pc' \in [Workers -> PCs]
    BY <1>1 DEF TypeOK, PCs
  <2> QED
    BY <1>1, <2>1 DEF TypeOK
<1>3. Quiet(w)
  BY <1>1 DEF TypeOK, Quiet
<1>4. ThreadShape(w)'
  BY <1>1 DEF TypeOK, ThreadShape, Fetching, InBody
<1> QED
  BY <1>2, <1>3, <1>4, QuietStep

LEMMA ResumeInv ==
  ASSUME StealInv, NEW w \in Workers, Resume(w)
  PROVE  StealInv'
<1> USE DEF Resume, program, queues, counters, flags, waking, search, At, Go
<1>1. TypeOK /\ ThreadShape(w)
  BY DEF StealInv
<1>2. TypeOK'
  <2>1. frame' \in [Coros -> Frames]
    BY <1>1 DEF TypeOK, Frames
  <2>2. pc' \in [Workers -> PCs]
    BY <1>1 DEF TypeOK, PCs
  <2>3. stack' \in [Workers -> Seq(Coros)]
    <3>1. cur[w] \in Coros
      BY <1>1 DEF TypeOK, ThreadShape, Fetching
    <3>2. <<cur[w]>> \in Seq(Coros)
      BY <3>1, SingletonType
    <3> QED
      BY <1>1, <3>2 DEF TypeOK
  <2>4. parked' \in [Workers -> BOOLEAN]
    BY <1>1 DEF TypeOK
  <2>5. sleeps' \in [Workers -> BOOLEAN]
    BY <1>1 DEF TypeOK
  <2>6. confirm' \in [Workers -> Nat]
    BY <1>1 DEF TypeOK
  <2> QED
    BY <1>1, <2>1, <2>2, <2>3, <2>4, <2>5, <2>6 DEF TypeOK
<1>3. Quiet(w)
  BY <1>1 DEF TypeOK, Quiet
<1>4. ThreadShape(w)'
  BY <1>1 DEF TypeOK, ThreadShape, Fetching, InBody
<1> QED
  BY <1>2, <1>3, <1>4, QuietStep

LEMMA ResumeUndefinedInv ==
  ASSUME StealInv, NEW w \in Workers, ResumeUndefined(w)
  PROVE  StealInv'
<1> USE DEF ResumeUndefined, program, queues, counters, flags, coros, shared,
      waking, search, locals, At, Go
<1>1. TypeOK /\ ThreadShape(w)
  BY DEF StealInv
<1>2. TypeOK'
  <2>1. pc' \in [Workers -> PCs]
    BY <1>1 DEF TypeOK, PCs
  <2> QED
    BY <1>1, <2>1 DEF TypeOK
<1>3. Quiet(w)
  BY <1>1 DEF TypeOK, Quiet
<1>4. ThreadShape(w)'
  BY <1>1 DEF TypeOK, ThreadShape, Fetching, InBody
<1> QED
  BY <1>2, <1>3, <1>4, QuietStep

LEMMA ExecYieldInv ==
  ASSUME StealInv, NEW w \in Workers, ExecYield(w)
  PROVE  StealInv'
<1> USE DEF ExecYield, program, queues, counters, flags, waking, search, At, Go,
      Executing
<1>1. TypeOK /\ ThreadShape(w)
  BY DEF StealInv
<1>2. TypeOK'
  <2>1. ip' \in [Coros -> Nat \ {0}]
    BY <1>1, AdvanceType DEF TypeOK
  <2>2. pc' \in [Workers -> PCs]
    BY <1>1 DEF TypeOK, PCs
  <2>3. sleeps' \in [Workers -> BOOLEAN]
    BY <1>1 DEF TypeOK
  <2> QED
    BY <1>1, <2>1, <2>2, <2>3 DEF TypeOK
<1>3. Quiet(w)
  BY <1>1 DEF TypeOK, Quiet
<1>4. ThreadShape(w)'
  BY <1>1 DEF TypeOK, ThreadShape, Fetching, InBody
<1> QED
  BY <1>2, <1>3, <1>4, QuietStep

LEMMA ExecAwaitInv ==
  ASSUME StealInv, NEW w \in Workers, ExecAwait(w)
  PROVE  StealInv'
<1> USE DEF ExecAwait, program, queues, counters, flags, waking, search, At, Go,
      Executing
<1>1. TypeOK /\ ThreadShape(w)
  BY DEF StealInv
<1>p. PICK p \in {"exec", "suspend"} : Go(w, p)
  BY <1>1 DEF TypeOK
<1>q. p \in PCs
  BY <1>p DEF PCs
<1>2. TypeOK'
  <2>1. ip' \in [Coros -> Nat \ {0}]
    BY <1>1, AdvanceType DEF TypeOK
  <2>2. pc' \in [Workers -> PCs]
    BY <1>1, <1>p, <1>q, PcType
  <2>3. sleeps' \in [Workers -> BOOLEAN]
    BY <1>1 DEF TypeOK
  <2> QED
    BY <1>1, <2>1, <2>2, <2>3 DEF TypeOK
<1>3. Quiet(w)
  BY <1>1, <1>p DEF TypeOK, Quiet
<1>4. ThreadShape(w)'
  BY <1>1, <1>p DEF TypeOK, ThreadShape, Fetching, InBody
<1> QED
  BY <1>2, <1>3, <1>4, QuietStep

LEMMA ExecReturnInv ==
  ASSUME StealInv, NEW w \in Workers, ExecReturn(w)
  PROVE  StealInv'
<1> USE DEF ExecReturn, program, queues, counters, flags, waking, search, locals,
      At, Go, Executing
<1>1. TypeOK /\ ThreadShape(w)
  BY DEF StealInv
<1>2. TypeOK'
  <2>1. frame' \in [Coros -> Frames]
    BY <1>1 DEF TypeOK, Frames
  <2>2. pc' \in [Workers -> PCs]
    BY <1>1 DEF TypeOK, PCs
  <2> QED
    BY <1>1, <2>1, <2>2 DEF TypeOK
<1>3. Quiet(w)
  BY <1>1 DEF TypeOK, Quiet
<1>4. ThreadShape(w)'
  BY <1>1 DEF TypeOK, ThreadShape, Fetching, InBody
<1> QED
  BY <1>2, <1>3, <1>4, QuietStep

LEMMA ExecSpawnInv ==
  ASSUME StealInv, NEW w \in Workers, ExecSpawn(w)
  PROVE  StealInv'
<1> USE DEF ExecSpawn, program, queues, counters, flags, waking, search, At, Go,
      Executing, StartRamp
<1>1. TypeOK /\ ThreadShape(w)
  BY DEF StealInv
<1>r. Running(w) \in Coros
  BY <1>1, RunningType DEF ThreadShape, InBody
<1>i. Current(Running(w)).co \in Coros
  BY <1>1, <1>r, CurrentType
<1>s. /\ stack[w] \in Seq(Coros)
      /\ stack' = [stack EXCEPT ![w] = Append(@, Current(Running(w)).co)]
  BY <1>1 DEF TypeOK
<1>t. /\ Append(stack[w], Current(Running(w)).co) \in Seq(Coros)
      /\ Append(stack[w], Current(Running(w)).co) # <<>>
  BY <1>s, <1>i, AppendFacts
<1>2. TypeOK'
  <2>1. frame' \in [Coros -> Frames]
    BY <1>1 DEF TypeOK, Frames
  <2>2. ip' \in [Coros -> Nat \ {0}]
    BY <1>1, AdvanceType DEF TypeOK
  <2>3. pc' \in [Workers -> PCs]
    BY <1>1 DEF TypeOK, PCs
  <2>4. stack' \in [Workers -> Seq(Coros)]
    BY <1>1, <1>s, <1>t DEF TypeOK
  <2> QED
    BY <1>1, <2>1, <2>2, <2>3, <2>4 DEF TypeOK
<1>3. Quiet(w)
  BY <1>1 DEF TypeOK, Quiet
<1>4. ThreadShape(w)'
  BY <1>1, <1>s, <1>t DEF TypeOK, ThreadShape, Fetching, InBody
<1> QED
  BY <1>2, <1>3, <1>4, QuietStep

LEMMA ExecSendInv ==
  ASSUME StealInv, NEW w \in Workers, ExecSend(w)
  PROVE  StealInv'
<1> USE DEF ExecSend, program, queues, counters, flags, waking, search, At, Go,
      Executing, ThenWake, ChannelFrame
<1>1. TypeOK /\ ThreadShape(w)
  BY DEF StealInv
<1>p. PICK p \in {"exec", "parkSend", "wake"} : Go(w, p)
  BY <1>1 DEF TypeOK
<1>q. p \in PCs
  BY <1>p DEF PCs
<1>r. Running(w) \in Coros
  BY <1>1, RunningType DEF ThreadShape, InBody
<1>i. /\ Current(Running(w)).ch \in Channels
      /\ Current(Running(w)).val \in Values
  BY <1>1, <1>r, CurrentType
<1>c. /\ chan[Current(Running(w)).ch] \in ChanType(Coros, Values)
      /\ PushWakes(chan[Current(Running(w)).ch]) \in Seq(Coros)
  BY <1>1, <1>i, PushedType DEF TypeOK
<1>2. TypeOK'
  <2>1. chan' \in [Channels -> ChanType(Coros, Values)]
    <3>1. Pushed(chan[Current(Running(w)).ch], Current(Running(w)).val)
            \in ChanType(Coros, Values)
      BY <1>i, <1>c, PushedType
    <3>2. \/ UNCHANGED chan
          \/ chan' = [chan EXCEPT ![Current(Running(w)).ch] =
                        Pushed(@, Current(Running(w)).val)]
      OBVIOUS
    <3> QED
      BY <1>1, <3>1, <3>2 DEF TypeOK
  <2>2. ip' \in [Coros -> Nat \ {0}]
    BY <1>1, AdvanceType DEF TypeOK
  <2>3. pc' \in [Workers -> PCs]
    BY <1>1, <1>p, <1>q, PcType
  <2>4. wakes' \in [Workers -> Seq(Coros)]
    BY <1>1, <1>c DEF TypeOK
  <2>5. ret' \in [Workers -> {"exec", "suspend"}]
    BY <1>1 DEF TypeOK
  <2> QED
    BY <1>1, <2>1, <2>2, <2>3, <2>4, <2>5 DEF TypeOK
<1>3. Quiet(w)
  BY <1>1, <1>p DEF TypeOK, Quiet
<1>4. ThreadShape(w)'
  BY <1>1, <1>p DEF TypeOK, ThreadShape, Fetching, InBody
<1> QED
  BY <1>2, <1>3, <1>4, QuietStep

LEMMA ParkSendInv ==
  ASSUME StealInv, NEW w \in Workers, ParkSend(w)
  PROVE  StealInv'
<1> USE DEF ParkSend, program, queues, counters, flags, waking, search, At, Go,
      ThenWake, ChannelFrame
<1>1. TypeOK /\ ThreadShape(w)
  BY DEF StealInv
<1>p. PICK p \in {"suspend", "wake"} : Go(w, p)
  BY <1>1 DEF TypeOK
<1>q. p \in PCs
  BY <1>p DEF PCs
<1>r. Running(w) \in Coros
  BY <1>1, RunningType DEF ThreadShape, InBody
<1>i. /\ Current(Running(w)).ch \in Channels
      /\ Current(Running(w)).val \in Values
  BY <1>1, <1>r, CurrentType
<1>c. /\ chan[Current(Running(w)).ch] \in ChanType(Coros, Values)
      /\ PushWakes(chan[Current(Running(w)).ch]) \in Seq(Coros)
  BY <1>1, <1>i, PushedType DEF TypeOK
<1>2. TypeOK'
  <2>1. chan' \in [Channels -> ChanType(Coros, Values)]
    <3>1. Pushed(chan[Current(Running(w)).ch], Current(Running(w)).val)
            \in ChanType(Coros, Values)
      BY <1>i, <1>c, PushedType
    <3>2. cur[w] # None =>
            ParkedSender(chan[Current(Running(w)).ch], cur[w],
                         Current(Running(w)).val) \in ChanType(Coros, Values)
      BY <1>1, <1>i, <1>c, ParkedType DEF TypeOK
    <3>3. \/ UNCHANGED chan
          \/ chan' = [chan EXCEPT ![Current(Running(w)).ch] =
                        Pushed(@, Current(Running(w)).val)]
          \/ /\ cur[w] # None
             /\ chan' = [chan EXCEPT ![Current(Running(w)).ch] =
                           ParkedSender(@, cur[w], Current(Running(w)).val)]
      OBVIOUS
    <3> QED
      BY <1>1, <3>1, <3>2, <3>3 DEF TypeOK
  <2>2. ip' \in [Coros -> Nat \ {0}]
    BY <1>1, AdvanceType DEF TypeOK
  <2>3. pc' \in [Workers -> PCs]
    BY <1>1, <1>p, <1>q, PcType
  <2>4. parked' \in [Workers -> BOOLEAN]
    BY <1>1 DEF TypeOK
  <2>5. intent' \in [Workers -> Intents]
    <3>1. [kind |-> "send", ch |-> Current(Running(w)).ch,
           val |-> Current(Running(w)).val] \in Intents
      BY <1>i DEF Intents
    <3>2. \/ UNCHANGED intent
          \/ intent' = [intent EXCEPT ![w] =
                          [kind |-> "send", ch |-> Current(Running(w)).ch,
                           val |-> Current(Running(w)).val]]
      OBVIOUS
    <3> QED
      BY <1>1, <3>1, <3>2 DEF TypeOK
  <2>6. wakes' \in [Workers -> Seq(Coros)]
    BY <1>1, <1>c DEF TypeOK
  <2>7. ret' \in [Workers -> {"exec", "suspend"}]
    BY <1>1 DEF TypeOK
  <2> QED
    BY <1>1, <2>1, <2>2, <2>3, <2>4, <2>5, <2>6, <2>7 DEF TypeOK
<1>3. Quiet(w)
  BY <1>1, <1>p DEF TypeOK, Quiet
<1>4. ThreadShape(w)'
  BY <1>1, <1>p DEF TypeOK, ThreadShape, Fetching, InBody
<1> QED
  BY <1>2, <1>3, <1>4, QuietStep

LEMMA ExecRecvInv ==
  ASSUME StealInv, NEW w \in Workers, ExecRecv(w)
  PROVE  StealInv'
<1> USE DEF ExecRecv, program, queues, counters, flags, waking, search, At, Go,
      Executing, ThenWake, ChannelFrame
<1>1. TypeOK /\ ThreadShape(w)
  BY DEF StealInv
<1>p. PICK p \in {"exec", "parkRecv", "wake"} : Go(w, p)
  BY <1>1 DEF TypeOK
<1>q. p \in PCs
  BY <1>p DEF PCs
<1>r. Running(w) \in Coros
  BY <1>1, RunningType DEF ThreadShape, InBody
<1>i. Current(Running(w)).ch \in Channels
  BY <1>1, <1>r, CurrentType
<1>c. ASSUME chan[Current(Running(w)).ch].buf # <<>>
      PROVE  /\ Popped(chan[Current(Running(w)).ch]) \in ChanType(Coros, Values)
             /\ PopWakes(chan[Current(Running(w)).ch]) \in Seq(Coros)
  BY <1>1, <1>i, <1>c, PoppedType DEF TypeOK
<1>2. TypeOK'
  <2>1. chan' \in [Channels -> ChanType(Coros, Values)]
    BY <1>1, <1>i, <1>c DEF TypeOK
  <2>2. ip' \in [Coros -> Nat \ {0}]
    BY <1>1, AdvanceType DEF TypeOK
  <2>3. pc' \in [Workers -> PCs]
    BY <1>1, <1>p, <1>q, PcType
  <2>4. wakes' \in [Workers -> Seq(Coros)]
    BY <1>1, <1>c DEF TypeOK
  <2>5. ret' \in [Workers -> {"exec", "suspend"}]
    BY <1>1 DEF TypeOK
  <2> QED
    BY <1>1, <2>1, <2>2, <2>3, <2>4, <2>5 DEF TypeOK
<1>3. Quiet(w)
  BY <1>1, <1>p DEF TypeOK, Quiet
<1>4. ThreadShape(w)'
  BY <1>1, <1>p DEF TypeOK, ThreadShape, Fetching, InBody
<1> QED
  BY <1>2, <1>3, <1>4, QuietStep

LEMMA ParkRecvInv ==
  ASSUME StealInv, NEW w \in Workers, ParkRecv(w)
  PROVE  StealInv'
<1> USE DEF ParkRecv, program, queues, counters, flags, waking, search, At, Go,
      ChannelFrame, ParkRecvLooking
<1>1. TypeOK /\ ThreadShape(w)
  BY DEF StealInv
<1>r. Running(w) \in Coros
  BY <1>1, RunningType DEF ThreadShape, InBody
<1>i. Current(Running(w)).ch \in Channels
  BY <1>1, <1>r, CurrentType
<1>2. TypeOK'
  <2>1. chan' \in [Channels -> ChanType(Coros, Values)]
    <3>1. cur[w] # None =>
            ParkedReceiver(chan[Current(Running(w)).ch], cur[w])
              \in ChanType(Coros, Values)
      BY <1>1, <1>i, ParkedType DEF TypeOK
    <3>2. \/ UNCHANGED chan
          \/ /\ cur[w] # None
             /\ chan' = [chan EXCEPT ![Current(Running(w)).ch] =
                           ParkedReceiver(@, cur[w])]
      OBVIOUS
    <3> QED
      BY <1>1, <3>1, <3>2 DEF TypeOK
  <2>2. pc' \in [Workers -> PCs]
    BY <1>1 DEF TypeOK, PCs
  <2>3. parked' \in [Workers -> BOOLEAN]
    BY <1>1 DEF TypeOK
  <2>4. intent' \in [Workers -> Intents]
    <3>1. [kind |-> "recv", ch |-> Current(Running(w)).ch] \in Intents
      BY <1>i DEF Intents
    <3>2. \/ UNCHANGED intent
          \/ intent' = [intent EXCEPT ![w] =
                          [kind |-> "recv", ch |-> Current(Running(w)).ch]]
      OBVIOUS
    <3> QED
      BY <1>1, <3>1, <3>2 DEF TypeOK
  <2> QED
    BY <1>1, <2>1, <2>2, <2>3, <2>4 DEF TypeOK
<1>3. Quiet(w)
  BY <1>1 DEF TypeOK, Quiet
<1>4. ThreadShape(w)'
  BY <1>1 DEF TypeOK, ThreadShape, Fetching, InBody
<1> QED
  BY <1>2, <1>3, <1>4, QuietStep

LEMMA WakeNextInv ==
  ASSUME StealInv, NEW w \in Workers, WakeNext(w)
  PROVE  StealInv'
<1> USE DEF WakeNext, program, queues, flags, search, At, Go, Waking
<1>1. TypeOK /\ ThreadShape(w)
  BY DEF StealInv
<1>p. PICK p \in {"exec", "suspend", "wake"} : Go(w, p)
  BY <1>1 DEF TypeOK
<1>q. p \in PCs
  BY <1>p DEF PCs
<1>v. wakes[w] \in Seq(Coros) /\ wakes[w] # <<>>
  BY <1>1 DEF TypeOK, ThreadShape
<1>h. /\ Head(wakes[w]) \in Coros /\ Tail(wakes[w]) \in Seq(Coros)
      /\ Len(wakes[w]) # 1 => Tail(wakes[w]) # <<>>
  BY <1>v, HeadTail
<1>2. TypeOK'
  <2>1. handoff' \in Int
    BY <1>1 DEF TypeOK
  <2>2. asleep' \in [Coros -> BOOLEAN]
    BY <1>1 DEF TypeOK
  <2>3. pc' \in [Workers -> PCs]
    BY <1>1, <1>p, <1>q, PcType
  <2>4. next' \in [Workers -> Coros \cup {None}]
    BY <1>1, <1>h DEF TypeOK
  <2>5. wakes' \in [Workers -> Seq(Coros)]
    BY <1>1, <1>h DEF TypeOK
  <2> QED
    BY <1>1, <2>1, <2>2, <2>3, <2>4, <2>5 DEF TypeOK
<1>3. Quiet(w)
  BY <1>1, <1>p DEF TypeOK, Quiet
<1>4. ThreadShape(w)'
  BY <1>1, <1>h, <1>p DEF TypeOK, ThreadShape, Fetching, InBody
<1> QED
  BY <1>2, <1>3, <1>4, QuietStep

LEMMA WakeGlobalInv ==
  ASSUME StealInv, NEW w \in Workers, WakeGlobal(w)
  PROVE  StealInv'
<1> USE DEF WakeGlobal, program, flags, search, At, Go, Waking
<1>1. TypeOK /\ ThreadShape(w)
  BY DEF StealInv
<1>v. wakes[w] \in Seq(Coros) /\ wakes[w] # <<>>
  BY <1>1 DEF TypeOK, ThreadShape
<1>h. /\ Head(wakes[w]) \in Coros /\ Tail(wakes[w]) \in Seq(Coros)
      /\ Len(wakes[w]) # 1 => Tail(wakes[w]) # <<>>
  BY <1>v, HeadTail
<1>2. TypeOK'
  <2>1. ready' \in Seq(Coros)
    BY <1>1, <1>h, AppendFacts DEF TypeOK
  <2>2. asleep' \in [Coros -> BOOLEAN]
    BY <1>1 DEF TypeOK
  <2>3. pc' \in [Workers -> PCs]
    BY <1>1 DEF TypeOK, PCs
  <2>4. wakes' \in [Workers -> Seq(Coros)]
    BY <1>1, <1>h DEF TypeOK
  <2> QED
    BY <1>1, <2>1, <2>2, <2>3, <2>4 DEF TypeOK
<1>3. Quiet(w)
  BY <1>1 DEF TypeOK, Quiet
<1>4. ThreadShape(w)'
  BY <1>1 DEF TypeOK, ThreadShape, Fetching, InBody
<1> QED
  BY <1>2, <1>3, <1>4, QuietStep

LEMMA WokenCountInv ==
  ASSUME StealInv, NEW w \in Workers, WokenCount(w)
  PROVE  StealInv'
<1> USE DEF WokenCount, program, queues, flags, coros, waking, search, locals,
      At, Go
<1>1. TypeOK /\ ThreadShape(w)
  BY DEF StealInv
<1>p. PICK p \in {"exec", "suspend", "wake"} : Go(w, p)
  BY <1>1 DEF TypeOK
<1>q. p \in PCs
  BY <1>p DEF PCs
<1>2. TypeOK'
  <2>1. schedulable' \in Int
    BY <1>1 DEF TypeOK
  <2>2. pc' \in [Workers -> PCs]
    BY <1>1, <1>p, <1>q, PcType
  <2> QED
    BY <1>1, <2>1, <2>2 DEF TypeOK
<1>3. Quiet(w)
  BY <1>1, <1>p DEF TypeOK, Quiet
<1>4. ThreadShape(w)'
  BY <1>1, <1>p DEF TypeOK, ThreadShape, Fetching, InBody
<1> QED
  BY <1>2, <1>3, <1>4, QuietStep

LEMMA SuspendInv ==
  ASSUME StealInv, NEW w \in Workers, Suspend(w)
  PROVE  StealInv'
<1> USE DEF Suspend, program, queues, counters, flags, waking, search, At, Go
<1>1. TypeOK /\ ThreadShape(w)
  BY DEF StealInv
<1>p. PICK p \in {"after", "spawned"} : Go(w, p)
  BY <1>1 DEF TypeOK
<1>q. p \in PCs
  BY <1>p DEF PCs
<1>s. \/ p = "after" /\ cur[w] # None /\ stack' = [stack EXCEPT ![w] = <<>>]
      \/ /\ p = "spawned" /\ stack' = stack
         /\ Len(stack[w]) > 1 \/ cur[w] = None
  <2>1. stack[w] \in Seq(Coros) /\ stack[w] # <<>>
    BY <1>1 DEF TypeOK, ThreadShape, InBody
  <2>2. Len(stack[w]) \in Nat \ {0}
    BY <2>1
  <2>3. Len(stack[w]) = 1 \/ Len(stack[w]) > 1
    BY <2>2, NatAboveOne
  <2> QED
    BY <1>1, <1>p, <2>3 DEF TypeOK
<1>2. TypeOK'
  <2>1. frame' \in [Coros -> Frames]
    BY <1>1 DEF TypeOK, Frames
  <2>2. pc' \in [Workers -> PCs]
    BY <1>1, <1>p, <1>q, PcType
  <2>3. stack' \in [Workers -> Seq(Coros)]
    BY <1>1, <1>s, StackType
  <2> QED
    BY <1>1, <2>1, <2>2, <2>3 DEF TypeOK
<1>3. Quiet(w)
  BY <1>1, <1>p DEF TypeOK, Quiet
<1>4. ThreadShape(w)'
  BY <1>1, <1>p, <1>s DEF TypeOK, ThreadShape, Fetching, InBody
<1> QED
  BY <1>2, <1>3, <1>4, QuietStep

LEMMA AfterDoneInv ==
  ASSUME StealInv, NEW w \in Workers, AfterDone(w)
  PROVE  StealInv'
<1> USE DEF AfterDone, queues, counters, flags, waking, search, At, Go, Complete,
      Release
<1>1. TypeOK /\ ThreadShape(w)
  BY DEF StealInv
<1>2. TypeOK'
  <2>1. frame' \in [Coros -> Frames]
    BY <1>1 DEF TypeOK, Frames
  <2>2. done' \in [Coros -> BOOLEAN]
    BY <1>1 DEF TypeOK
  <2>3. pc' \in [Workers -> PCs]
    BY <1>1 DEF TypeOK, PCs
  <2>4. cur' \in [Workers -> Coros \cup {None}]
    BY <1>1 DEF TypeOK
  <2> QED
    BY <1>1, <2>1, <2>2, <2>3, <2>4 DEF TypeOK
<1>3. Quiet(w)
  BY <1>1 DEF TypeOK, Quiet
<1>4. ThreadShape(w)'
  BY <1>1 DEF TypeOK, ThreadShape, Fetching, InBody
<1> QED
  BY <1>2, <1>3, <1>4, QuietStep

LEMMA Fin1Inv ==
  ASSUME StealInv, NEW w \in Workers, Fin1(w)
  PROVE  StealInv'
<1> USE DEF Fin1, program, queues, flags, coros, waking, search, locals, At, Go
<1>1. TypeOK /\ ThreadShape(w)
  BY DEF StealInv
<1>2. TypeOK'
  <2>1. running' \in Int
    BY <1>1 DEF TypeOK
  <2>2. pc' \in [Workers -> PCs]
    BY <1>1 DEF TypeOK, PCs
  <2> QED
    BY <1>1, <2>1, <2>2 DEF TypeOK
<1>3. Quiet(w)
  BY <1>1 DEF TypeOK, Quiet
<1>4. ThreadShape(w)'
  BY <1>1 DEF TypeOK, ThreadShape, Fetching, InBody
<1> QED
  BY <1>2, <1>3, <1>4, QuietStep

LEMMA Fin2Inv ==
  ASSUME StealInv, NEW w \in Workers, Fin2(w)
  PROVE  StealInv'
<1> USE DEF Fin2, program, queues, coros, waking, search, locals, At, Go,
      LoopHead
<1>1. TypeOK /\ ThreadShape(w)
  BY DEF StealInv
<1>p. PICK p \in {"sync", "top"} : Go(w, p)
  BY <1>1 DEF TypeOK
<1>q. p \in PCs
  BY <1>p DEF PCs
<1>2. TypeOK'
  <2>1. live' \in Int
    BY <1>1 DEF TypeOK
  <2>2. shutdown' \in BOOLEAN
    BY <1>1 DEF TypeOK
  <2>3. pc' \in [Workers -> PCs]
    BY <1>1, <1>p, <1>q, PcType
  <2> QED
    BY <1>1, <2>1, <2>2, <2>3 DEF TypeOK
<1>3. Quiet(w)
  BY <1>1, <1>p DEF TypeOK, Quiet
<1>4. ThreadShape(w)'
  BY <1>1, <1>p DEF TypeOK, ThreadShape, Fetching, InBody
<1> QED
  BY <1>2, <1>3, <1>4, QuietStep

LEMMA AfterParkedInv ==
  ASSUME StealInv, NEW w \in Workers, AfterParked(w)
  PROVE  StealInv'
<1> USE DEF AfterParked, queues, flags, coros, waking, search, At, Go, LoopHead,
      Release
<1>1. TypeOK /\ ThreadShape(w)
  BY DEF StealInv
<1>p. PICK p \in {"sync", "top"} : Go(w, p)
  BY <1>1 DEF TypeOK
<1>q. p \in PCs
  BY <1>p DEF PCs
<1>2. TypeOK'
  <2>1. running' \in Int
    BY <1>1 DEF TypeOK
  <2>2. pc' \in [Workers -> PCs]
    BY <1>1, <1>p, <1>q, PcType
  <2>3. cur' \in [Workers -> Coros \cup {None}]
    BY <1>1 DEF TypeOK
  <2> QED
    BY <1>1, <2>1, <2>2, <2>3 DEF TypeOK
<1>3. Quiet(w)
  BY <1>1, <1>p DEF TypeOK, Quiet
<1>4. ThreadShape(w)'
  BY <1>1, <1>p DEF TypeOK, ThreadShape, Fetching, InBody
<1> QED
  BY <1>2, <1>3, <1>4, QuietStep

LEMMA AfterRequeueInv ==
  ASSUME StealInv, NEW w \in Workers, AfterRequeue(w)
  PROVE  StealInv'
<1> USE DEF AfterRequeue, flags, waking, search, At, Go, Release, PushReady
<1>1. TypeOK /\ ThreadShape(w)
  BY DEF StealInv
<1>c. cur[w] \in Coros
  BY <1>1 DEF TypeOK, ThreadShape
<1>2. TypeOK'
  <2>1. ready' \in Seq(Coros)
    BY <1>1, <1>c, AppendFacts DEF TypeOK
  <2>2. asleep' \in [Coros -> BOOLEAN]
    BY <1>1 DEF TypeOK
  <2>3. pc' \in [Workers -> PCs]
    BY <1>1 DEF TypeOK, PCs
  <2>4. cur' \in [Workers -> Coros \cup {None}]
    BY <1>1 DEF TypeOK
  <2> QED
    BY <1>1, <2>1, <2>2, <2>3, <2>4 DEF TypeOK
<1>3. Quiet(w)
  BY <1>1 DEF TypeOK, Quiet
<1>4. ThreadShape(w)'
  BY <1>1 DEF TypeOK, ThreadShape, Fetching, InBody
<1> QED
  BY <1>2, <1>3, <1>4, QuietStep

LEMMA RequeuedCountInv ==
  ASSUME StealInv, NEW w \in Workers, RequeuedCount(w)
  PROVE  StealInv'
<1> USE DEF RequeuedCount, program, queues, flags, coros, waking, search, locals,
      At, Go
<1>1. TypeOK /\ ThreadShape(w)
  BY DEF StealInv
<1>2. TypeOK'
  <2>1. schedulable' \in Int
    BY <1>1 DEF TypeOK
  <2>2. pc' \in [Workers -> PCs]
    BY <1>1 DEF TypeOK, PCs
  <2> QED
    BY <1>1, <2>1, <2>2 DEF TypeOK
<1>3. Quiet(w)
  BY <1>1 DEF TypeOK, Quiet
<1>4. ThreadShape(w)'
  BY <1>1 DEF TypeOK, ThreadShape, Fetching, InBody
<1> QED
  BY <1>2, <1>3, <1>4, QuietStep

LEMMA RequeuedStopInv ==
  ASSUME StealInv, NEW w \in Workers, RequeuedStop(w)
  PROVE  StealInv'
<1> USE DEF RequeuedStop, program, queues, flags, coros, waking, search, locals,
      At, Go, LoopHead
<1>1. TypeOK /\ ThreadShape(w)
  BY DEF StealInv
<1>p. PICK p \in {"sync", "top"} : Go(w, p)
  BY <1>1 DEF TypeOK
<1>q. p \in PCs
  BY <1>p DEF PCs
<1>2. TypeOK'
  <2>1. running' \in Int
    BY <1>1 DEF TypeOK
  <2>2. pc' \in [Workers -> PCs]
    BY <1>1, <1>p, <1>q, PcType
  <2> QED
    BY <1>1, <2>1, <2>2 DEF TypeOK
<1>3. Quiet(w)
  BY <1>1, <1>p DEF TypeOK, Quiet
<1>4. ThreadShape(w)'
  BY <1>1, <1>p DEF TypeOK, ThreadShape, Fetching, InBody
<1> QED
  BY <1>2, <1>3, <1>4, QuietStep

LEMMA SpawnedDoneInv ==
  ASSUME StealInv, NEW w \in Workers, SpawnedDone(w)
  PROVE  StealInv'
<1> USE DEF SpawnedDone, queues, counters, flags, waking, search, At, Go,
      Complete, SpawnReturn
<1>1. TypeOK /\ ThreadShape(w)
  BY DEF StealInv
<1>p. PICK p \in {"exec", "main"} : Go(w, p)
  BY <1>1 DEF TypeOK
<1>q. p \in PCs
  BY <1>p DEF PCs
<1>f. /\ stack[w] \in Seq(Coros) /\ stack[w] # <<>>
      /\ Front(stack[w]) \in Seq(Coros)
      /\ Len(Front(stack[w])) = Len(stack[w]) - 1
  BY <1>1, LastFront DEF TypeOK, ThreadShape, InBody
<1>g. Front(stack[w]) = <<>> => Len(stack[w]) = 1
  BY <1>f
<1>2. TypeOK'
  <2>1. mainIp' \in Nat \ {0}
    BY <1>1 DEF TypeOK
  <2>2. frame' \in [Coros -> Frames]
    BY <1>1 DEF TypeOK, Frames
  <2>3. done' \in [Coros -> BOOLEAN]
    BY <1>1 DEF TypeOK
  <2>4. pc' \in [Workers -> PCs]
    BY <1>1, <1>p, <1>q, PcType
  <2>5. stack' \in [Workers -> Seq(Coros)]
    BY <1>1, <1>f DEF TypeOK
  <2> QED
    BY <1>1, <2>1, <2>2, <2>3, <2>4, <2>5 DEF TypeOK
<1>3. Quiet(w)
  BY <1>1, <1>p DEF TypeOK, Quiet
<1>4. ThreadShape(w)'
  BY <1>1, <1>f, <1>g, <1>p DEF TypeOK, ThreadShape, Fetching, InBody
<1> QED
  BY <1>2, <1>3, <1>4, QuietStep

LEMMA SpawnedParkedInv ==
  ASSUME StealInv, NEW w \in Workers, SpawnedParked(w)
  PROVE  StealInv'
<1> USE DEF SpawnedParked, queues, flags, waking, search, At, Go, SpawnReturn,
      SpawnedParkedLive
<1>1. TypeOK /\ ThreadShape(w)
  BY DEF StealInv
<1>p. PICK p \in {"exec", "main"} : Go(w, p)
  BY <1>1 DEF TypeOK
<1>q. p \in PCs
  BY <1>p DEF PCs
<1>f. /\ stack[w] \in Seq(Coros) /\ stack[w] # <<>>
      /\ Front(stack[w]) \in Seq(Coros)
      /\ Len(Front(stack[w])) = Len(stack[w]) - 1
  BY <1>1, LastFront DEF TypeOK, ThreadShape, InBody
<1>g. Front(stack[w]) = <<>> => Len(stack[w]) = 1
  BY <1>f
<1>c. Running(w) \in Coros
  BY <1>1, <1>f, RunningType
<1>i. intent[w] \in Intents \ {NoIntent}
  BY <1>1 DEF TypeOK
<1>2. TypeOK'
  <2>1. mainIp' \in Nat \ {0}
    BY <1>1 DEF TypeOK
  <2>2. live' \in Int
    BY <1>1 DEF TypeOK
  <2>3. chan' \in [Channels -> ChanType(Coros, Values)]
    <3>1. CASE intent[w].kind = "recv"
      BY <1>1, <1>c, <1>i, <3>1, ParkedType DEF TypeOK, Intents
    <3>2. CASE intent[w].kind # "recv"
      BY <1>1, <1>c, <1>i, <3>2, ParkedType DEF TypeOK, Intents
    <3> QED
      BY <3>1, <3>2
  <2>4. asleep' \in [Coros -> BOOLEAN]
    BY <1>1 DEF TypeOK
  <2>5. pc' \in [Workers -> PCs]
    BY <1>1, <1>p, <1>q, PcType
  <2>6. stack' \in [Workers -> Seq(Coros)]
    BY <1>1, <1>f DEF TypeOK
  <2>7. intent' \in [Workers -> Intents]
    BY <1>1 DEF TypeOK, Intents
  <2> QED
    BY <1>1, <2>1, <2>2, <2>3, <2>4, <2>5, <2>6, <2>7 DEF TypeOK
<1>3. Quiet(w)
  BY <1>1, <1>p DEF TypeOK, Quiet
<1>4. ThreadShape(w)'
  BY <1>1, <1>f, <1>g, <1>p DEF TypeOK, ThreadShape, Fetching, InBody
<1> QED
  BY <1>2, <1>3, <1>4, QuietStep

LEMMA SpawnedReadyInv ==
  ASSUME StealInv, NEW w \in Workers, SpawnedReady(w)
  PROVE  StealInv'
<1> USE DEF SpawnedReady, flags, waking, search, At, Go, PushReady
<1>1. TypeOK /\ ThreadShape(w)
  BY DEF StealInv
<1>c. Running(w) \in Coros
  BY <1>1, RunningType DEF ThreadShape, InBody
<1>2. TypeOK'
  <2>1. ready' \in Seq(Coros)
    BY <1>1, <1>c, AppendFacts DEF TypeOK
  <2>2. live' \in Int
    BY <1>1 DEF TypeOK
  <2>3. asleep' \in [Coros -> BOOLEAN]
    BY <1>1 DEF TypeOK
  <2>4. pc' \in [Workers -> PCs]
    BY <1>1 DEF TypeOK, PCs
  <2> QED
    BY <1>1, <2>1, <2>2, <2>3, <2>4 DEF TypeOK
<1>3. Quiet(w)
  BY <1>1 DEF TypeOK, Quiet
<1>4. ThreadShape(w)'
  BY <1>1 DEF TypeOK, ThreadShape, Fetching, InBody
<1> QED
  BY <1>2, <1>3, <1>4, QuietStep

LEMMA SpawnedCountInv ==
  ASSUME StealInv, NEW w \in Workers, SpawnedCount(w)
  PROVE  StealInv'
<1> USE DEF SpawnedCount, queues, flags, coros, waking, search, At, Go,
      SpawnReturn
<1>1. TypeOK /\ ThreadShape(w)
  BY DEF StealInv
<1>p. PICK p \in {"exec", "main"} : Go(w, p)
  BY <1>1 DEF TypeOK
<1>q. p \in PCs
  BY <1>p DEF PCs
<1>f. /\ stack[w] \in Seq(Coros) /\ stack[w] # <<>>
      /\ Front(stack[w]) \in Seq(Coros)
      /\ Len(Front(stack[w])) = Len(stack[w]) - 1
  BY <1>1, LastFront DEF TypeOK, ThreadShape, InBody
<1>g. Front(stack[w]) = <<>> => Len(stack[w]) = 1
  BY <1>f
<1>2. TypeOK'
  <2>1. mainIp' \in Nat \ {0}
    BY <1>1 DEF TypeOK
  <2>2. schedulable' \in Int
    BY <1>1 DEF TypeOK
  <2>3. pc' \in [Workers -> PCs]
    BY <1>1, <1>p, <1>q, PcType
  <2>4. stack' \in [Workers -> Seq(Coros)]
    BY <1>1, <1>f DEF TypeOK
  <2> QED
    BY <1>1, <2>1, <2>2, <2>3, <2>4 DEF TypeOK
<1>3. Quiet(w)
  BY <1>1, <1>p DEF TypeOK, Quiet
<1>4. ThreadShape(w)'
  BY <1>1, <1>f, <1>g, <1>p DEF TypeOK, ThreadShape, Fetching, InBody
<1> QED
  BY <1>2, <1>3, <1>4, QuietStep

LEMMA CancelNothingInv ==
  ASSUME StealInv, NEW w \in Workers, CancelNothing(w)
  PROVE  StealInv'
<1> USE DEF CancelNothing, queues, flags, waking, search, locals, At, Go,
      Executing, MainCalls, Cancelling, CancelReturn
<1>1. TypeOK /\ ThreadShape(w)
  BY DEF StealInv
<1>p. PICK p \in {"exec", "main"} : Go(w, p)
  BY <1>1 DEF TypeOK
<1>q. p \in PCs
  BY <1>p DEF PCs
<1>2. TypeOK'
  <2>1. mainIp' \in Nat \ {0}
    BY <1>1 DEF TypeOK
  <2>2. ip' \in [Coros -> Nat \ {0}]
    BY <1>1, AdvanceType DEF TypeOK
  <2>3. pc' \in [Workers -> PCs]
    BY <1>1, <1>p, <1>q, PcType
  <2> QED
    BY <1>1, <2>1, <2>2, <2>3 DEF TypeOK
<1>3. Quiet(w)
  BY <1>1, <1>p DEF TypeOK, Quiet
<1>4. ThreadShape(w)'
  BY <1>1, <1>p DEF TypeOK, ThreadShape, Fetching, InBody
<1> QED
  BY <1>2, <1>3, <1>4, QuietStep

LEMMA CancelDequeueInv ==
  ASSUME StealInv, NEW w \in Workers, CancelDequeue(w)
  PROVE  StealInv'
<1> USE DEF CancelDequeue, program, flags, coros, waking, search, locals, At, Go,
      Executing, MainCalls, Cancelling, CancelDequeueCounting
<1>1. TypeOK /\ ThreadShape(w)
  BY DEF StealInv
<1>2. TypeOK'
  <2>1. ready' \in Seq(Coros)
    BY <1>1, RemoveAtType DEF TypeOK
  <2>2. schedulable' \in Int
    BY <1>1 DEF TypeOK
  <2>3. pc' \in [Workers -> PCs]
    BY <1>1 DEF TypeOK, PCs
  <2> QED
    BY <1>1, <2>1, <2>2, <2>3 DEF TypeOK
<1>3. Quiet(w)
  BY <1>1 DEF TypeOK, Quiet
<1>4. ThreadShape(w)'
  BY <1>1 DEF TypeOK, ThreadShape, Fetching, InBody
<1> QED
  BY <1>2, <1>3, <1>4, QuietStep

LEMMA CancelDestroyInv ==
  ASSUME StealInv, NEW w \in Workers, CancelDestroy(w)
  PROVE  StealInv'
<1> USE DEF CancelDestroy, program, queues, counters, flags, waking, search,
      locals, At, Go
<1>1. TypeOK /\ ThreadShape(w)
  BY DEF StealInv
<1>p. PICK p \in {"ub", "unlive"} : Go(w, p)
  BY <1>1 DEF TypeOK
<1>q. p \in PCs
  BY <1>p DEF PCs
<1>2. TypeOK'
  <2>1. frame' \in [Coros -> Frames]
    BY <1>1 DEF TypeOK, Frames
  <2>2. done' \in [Coros -> BOOLEAN]
    BY <1>1 DEF TypeOK
  <2>3. pc' \in [Workers -> PCs]
    BY <1>1, <1>p, <1>q, PcType
  <2> QED
    BY <1>1, <2>1, <2>2, <2>3 DEF TypeOK
<1>3. Quiet(w)
  BY <1>1, <1>p DEF TypeOK, Quiet
<1>4. ThreadShape(w)'
  BY <1>1, <1>p DEF TypeOK, ThreadShape, Fetching, InBody
<1> QED
  BY <1>2, <1>3, <1>4, QuietStep

LEMMA CancelUncountInv ==
  ASSUME StealInv, NEW w \in Workers, CancelUncount(w)
  PROVE  StealInv'
<1> USE DEF CancelUncount, queues, flags, waking, search, locals, At, Go,
      CancelReturn
<1>1. TypeOK /\ ThreadShape(w)
  BY DEF StealInv
<1>p. PICK p \in {"exec", "main"} : Go(w, p)
  BY <1>1 DEF TypeOK
<1>q. p \in PCs
  BY <1>p DEF PCs
<1>2. TypeOK'
  <2>1. mainIp' \in Nat \ {0}
    BY <1>1 DEF TypeOK
  <2>2. live' \in Int
    BY <1>1 DEF TypeOK
  <2>3. ip' \in [Coros -> Nat \ {0}]
    BY <1>1, AdvanceType DEF TypeOK
  <2>4. pc' \in [Workers -> PCs]
    BY <1>1, <1>p, <1>q, PcType
  <2> QED
    BY <1>1, <2>1, <2>2, <2>3, <2>4 DEF TypeOK
<1>3. Quiet(w)
  BY <1>1, <1>p DEF TypeOK, Quiet
<1>4. ThreadShape(w)'
  BY <1>1, <1>p DEF TypeOK, ThreadShape, Fetching, InBody
<1> QED
  BY <1>2, <1>3, <1>4, QuietStep

LEMMA SyncTopInv ==
  ASSUME StealInv, NEW w \in Workers, SyncTop(w)
  PROVE  StealInv'
<1> USE DEF SyncTop, queues, counters, flags, coros, waking, search, locals, At,
      Go
<1>1. TypeOK /\ ThreadShape(w)
  BY DEF StealInv
<1>p. PICK p \in {"main", "pick"} : Go(w, p)
  BY <1>1 DEF TypeOK
<1>q. p \in PCs
  BY <1>p DEF PCs
<1>2. TypeOK'
  <2>1. mainIp' \in Nat \ {0}
    BY <1>1 DEF TypeOK
  <2>2. pc' \in [Workers -> PCs]
    BY <1>1, <1>p, <1>q, PcType
  <2> QED
    BY <1>1, <2>1, <2>2 DEF TypeOK
<1>3. Quiet(w)
  BY <1>1, <1>p DEF TypeOK, Quiet
<1>4. ThreadShape(w)'
  BY <1>1, <1>p DEF TypeOK, ThreadShape, Fetching, InBody
<1> QED
  BY <1>2, <1>3, <1>4, QuietStep

-----------------------------------------------------------------------------
(* The steps that search, take the mutex of a local queue or change one.    *)
Moves(w) ==
    /\ \A v \in Workers : v # w => /\ pc'[v] = pc[v] /\ stack'[v] = stack[v]
                                   /\ cur'[v] = cur[v] /\ wakes'[v] = wakes[v]
                                   /\ off'[v] = off[v]
    /\ wid' = wid /\ pc[w] # "off"

LEMMA MovesStep ==
  ASSUME StealInv, NEW w \in Workers, Moves(w), ThreadShape(w)'
  PROVE  (\A v \in Workers : ThreadShape(v)') /\ OthersOff'
<1>1. ASSUME NEW v \in Workers PROVE ThreadShape(v)'
  BY DEF StealInv, Moves, ThreadShape
<1>2. OthersOff'
  BY NAssumption DEF StealInv, Moves, OthersOff, At, Workers
<1> QED
  BY <1>1, <1>2

LEMMA VictimType ==
  ASSUME TypeOK, NEW w \in Workers
  PROVE  Victim(w) \in Workers
<1>1. w \in Nat /\ off[w] \in Nat
  <2>1. off[w] \in 1..N
    BY DEF TypeOK
  <2> QED
    BY <2>1, NAssumption DEF Workers
<1>2. PICK k \in Nat : k = w + off[w]
  BY <1>1
<1>3. k % N \in 0..(N - 1)
  BY NAssumption
<1> QED
  BY <1>2, <1>3 DEF Victim, Workers

LEMMA NextOffType ==
  ASSUME TypeOK, NEW w \in Workers, off[w] < N,
         off' = [off EXCEPT ![w] = @ + 1]
  PROVE  off' \in [Workers -> 1..N]
<1>1. off \in [Workers -> 1..N] /\ off[w] + 1 \in 1..N
  <2>1. off \in [Workers -> 1..N] /\ off[w] \in 1..N
    BY DEF TypeOK
  <2> QED
    BY <2>1, NAssumption
<1> QED
  BY <1>1

\* A queue the step leaves alone is held as before.
LEMMA HeldElsewhere ==
  ASSUME StealInv, NEW w \in Workers, Moves(w), pc[w] # "mine",
         NEW v \in Workers, v # w,
         localLock'[v] = localLock[v], localq'[v] = localq[v]
  PROVE  LocalLockHeld(v)'
<1>1. LocalLockHeld(v)
  BY DEF StealInv
<1>2. CASE localLock[v] = Free
  BY <1>2 DEF LocalLockHeld
<1>3. CASE localLock[v] = v /\ pc[v] \in {"uncount", "count"}
  BY <1>3 DEF LocalLockHeld, Moves
<1>4. ASSUME NEW u \in Workers \ {v},
             localLock[v] = u /\ At(u, "mine") /\ wid[u],
             Victim(u) = v, localq[v] # <<>>
      PROVE  LocalLockHeld(v)'
  BY <1>4 DEF LocalLockHeld, Moves, At, Victim
<1> QED
  BY <1>1, <1>2, <1>3, <1>4 DEF LocalLockHeld

LEMMA FreeIsNoWorker == \A w \in Workers : w # Free
  BY NAssumption DEF Workers, Free

\* A thief and its victim differ.
LEMMA ThiefIsNotVictim ==
  ASSUME StealInv, NEW w \in Workers, At(w, "mine")
  PROVE  Victim(w) # w /\ localLock[w] = Free
<1>1. wid[w] /\ localLock[Victim(w)] = w /\ localq[Victim(w)] # <<>>
  BY DEF StealInv, MineHoldsVictim
<1>2. localq[w] = <<>>
  BY <1>1 DEF StealInv, SearchersEmpty, At
<1>3. LocalLockHeld(w)
  BY DEF StealInv
<1> QED
  BY <1>1, <1>2, <1>3 DEF LocalLockHeld, At

LEMMA PickGlobalInv ==
  ASSUME StealInv, NEW w \in Workers, PickGlobal(w)
  PROVE  StealInv'
<1> USE DEF PickGlobal, shared, program, queues, counters, flags, coros, locals,
      waking, search, At, Go
<1>1. TypeOK /\ ThreadShape(w)
  BY DEF StealInv
<1>2. TypeOK'
  <2>1. pc' \in [Workers -> PCs]
    BY <1>1 DEF TypeOK, PCs
  <2> QED
    BY <1>1, <2>1 DEF TypeOK
<1>3. Moves(w) /\ ThreadShape(w)'
  BY <1>1 DEF TypeOK, Moves, ThreadShape, Fetching, InBody
<1>4. (\A v \in Workers : ThreadShape(v)') /\ OthersOff'
  BY <1>3, MovesStep
<1>5. SearchersEmpty'
  BY <1>1 DEF TypeOK, StealInv, SearchersEmpty
<1>6. MineHoldsVictim'
  BY <1>1 DEF TypeOK, StealInv, MineHoldsVictim, Victim
<1>7. ASSUME NEW v \in Workers PROVE LocalLockHeld(v)'
  BY <1>1 DEF TypeOK, StealInv, LocalLockHeld, Victim
<1> QED
  BY <1>2, <1>4, <1>5, <1>6, <1>7 DEF StealInv

LEMMA PickLocalInv ==
  ASSUME StealInv, NEW w \in Workers, PickLocal(w)
  PROVE  StealInv'
<1> USE DEF PickLocal, program, counters, flags, coros, waking, search, At, Go
<1>1. TypeOK /\ ThreadShape(w)
  BY DEF StealInv
<1>2. /\ localq[w] \in Seq(Coros) /\ localq[w] # <<>>
  BY <1>1 DEF TypeOK
<1>3. Last(localq[w]) \in Coros /\ Front(localq[w]) \in Seq(Coros)
  BY <1>2, LastFront
<1>4. TypeOK'
  <2>1. localq' \in [Workers -> Seq(Coros)]
    BY <1>1, <1>3 DEF TypeOK
  <2>2. localLock' \in [Workers -> 0..N]
    <3>1. w \in 0..N
      BY NAssumption DEF Workers
    <3> QED
      BY <1>1, <3>1 DEF TypeOK
  <2>3. pc' \in [Workers -> PCs]
    BY <1>1 DEF TypeOK, PCs
  <2>4. cur' \in [Workers -> Coros \cup {None}]
    BY <1>1, <1>3 DEF TypeOK
  <2> QED
    BY <1>1, <2>1, <2>2, <2>3, <2>4 DEF TypeOK
<1>5. Moves(w) /\ ThreadShape(w)'
  BY <1>1, <1>3, NoneAssumption
     DEF TypeOK, Moves, ThreadShape, Fetching, InBody
<1>6. (\A v \in Workers : ThreadShape(v)') /\ OthersOff'
  BY <1>5, MovesStep
<1>7. SearchersEmpty'
  BY <1>1 DEF TypeOK, StealInv, SearchersEmpty
<1>8. MineHoldsVictim'
  <2> SUFFICES ASSUME NEW u \in Workers, pc'[u] = "mine"
               PROVE  /\ wid'[u] /\ off'[u] < N
                      /\ localLock'[Victim(u)'] = u
                      /\ localq'[Victim(u)'] # <<>>
    BY DEF MineHoldsVictim
  <2>1. u # w /\ pc[u] = "mine"
    BY <1>1 DEF TypeOK
  <2>2. /\ wid[u] /\ off[u] < N /\ localLock[Victim(u)] = u
        /\ localq[Victim(u)] # <<>>
    BY <2>1 DEF StealInv, MineHoldsVictim
  <2>3. Victim(u) # w
    BY <2>2, FreeIsNoWorker
  <2>4. Victim(u)' = Victim(u)
    BY DEF Victim
  <2> QED
    BY <1>1, <2>2, <2>3, <2>4 DEF TypeOK
<1>9. ASSUME NEW v \in Workers PROVE LocalLockHeld(v)'
  <2>1. CASE v = w
    BY <1>1, <2>1 DEF TypeOK, LocalLockHeld
  <2>2. CASE v # w
    <3>1. localLock'[v] = localLock[v] /\ localq'[v] = localq[v]
      BY <1>1, <2>2 DEF TypeOK
    <3> QED
      BY <1>5, <2>2, <3>1, HeldElsewhere
  <2> QED
    BY <2>1, <2>2
<1> QED
  BY <1>4, <1>6, <1>7, <1>8, <1>9 DEF StealInv

LEMMA UncountInv ==
  ASSUME StealInv, NEW w \in Workers, Uncount(w)
  PROVE  StealInv'
<1> USE DEF Uncount, program, queues, flags, coros, locals, waking, search, At, Go
<1>1. TypeOK /\ ThreadShape(w)
  BY DEF StealInv
<1>2. TypeOK'
  <2>1. pc' \in [Workers -> PCs] /\ schedulable' \in Int
    BY <1>1 DEF TypeOK, PCs
  <2> QED
    BY <1>1, <2>1 DEF TypeOK
<1>3. Moves(w) /\ ThreadShape(w)'
  BY <1>1 DEF TypeOK, Moves, ThreadShape, Fetching, InBody
<1>4. (\A v \in Workers : ThreadShape(v)') /\ OthersOff'
  BY <1>3, MovesStep
<1>5. SearchersEmpty' /\ MineHoldsVictim'
  BY <1>1 DEF TypeOK, StealInv, SearchersEmpty, MineHoldsVictim, Victim
<1>6. ASSUME NEW v \in Workers PROVE LocalLockHeld(v)'
  BY <1>1 DEF TypeOK, StealInv, LocalLockHeld, Victim
<1> QED
  BY <1>2, <1>4, <1>5, <1>6 DEF StealInv

LEMMA CountInv ==
  ASSUME StealInv, NEW w \in Workers, Count(w)
  PROVE  StealInv'
<1> USE DEF Count, program, flags, coros, locals, waking, search, At, Go
<1>1. TypeOK /\ ThreadShape(w)
  BY DEF StealInv
<1>2. TypeOK'
  <2>1. pc' \in [Workers -> PCs] /\ running' \in Int
    BY <1>1 DEF TypeOK, PCs
  <2>2. localLock' \in [Workers -> 0..N]
    BY <1>1, NAssumption DEF TypeOK, Free
  <2> QED
    BY <1>1, <2>1, <2>2 DEF TypeOK
<1>3. Moves(w) /\ ThreadShape(w)'
  BY <1>1 DEF TypeOK, Moves, ThreadShape, Fetching, InBody
<1>4. (\A v \in Workers : ThreadShape(v)') /\ OthersOff'
  BY <1>3, MovesStep
<1>5. SearchersEmpty'
  BY <1>1 DEF TypeOK, StealInv, SearchersEmpty
<1>6. MineHoldsVictim'
  BY <1>1 DEF TypeOK, StealInv, MineHoldsVictim, Victim
<1>7. ASSUME NEW v \in Workers PROVE LocalLockHeld(v)'
  <2>1. CASE v = w
    <3>1. LocalLockHeld(w) /\ pc'[w] = "resume"
      BY <1>1 DEF TypeOK, StealInv
    <3>2. \/ localLock'[w] = Free
          \/ localLock'[w] = localLock[w] /\ localLock[w] \notin {Free, w}
      BY <1>1 DEF TypeOK
    <3> QED
      BY <1>3, <2>1, <3>1, <3>2 DEF LocalLockHeld, Moves, Victim
  <2>2. CASE v # w
    <3>1. localLock'[v] = localLock[v] /\ localq'[v] = localq[v]
      BY <1>1, <2>2 DEF TypeOK
    <3> QED
      BY <1>3, <2>2, <3>1, HeldElsewhere
  <2> QED
    BY <2>1, <2>2
<1> QED
  BY <1>2, <1>4, <1>5, <1>6, <1>7 DEF StealInv

LEMMA ScanMissInv ==
  ASSUME StealInv, NEW w \in Workers, ScanMiss(w)
  PROVE  StealInv'
<1> USE DEF ScanMiss, shared, program, queues, counters, flags, coros, waking,
      At, Go
<1>1. TypeOK /\ ThreadShape(w)
  BY DEF StealInv
<1>2. TypeOK'
  <2>1. pc' \in [Workers -> PCs]
    BY <1>1 DEF TypeOK, PCs
  <2>2. off' \in [Workers -> 1..N] /\ timer' \in [Workers -> BOOLEAN]
    BY <1>1, NAssumption DEF TypeOK
  <2> QED
    BY <1>1, <2>1, <2>2 DEF TypeOK
<1>3. Moves(w) /\ ThreadShape(w)'
  BY <1>1 DEF TypeOK, Moves, ThreadShape, Fetching, InBody
<1>4. (\A v \in Workers : ThreadShape(v)') /\ OthersOff'
  BY <1>3, MovesStep
<1>5. SearchersEmpty'
  BY <1>1 DEF TypeOK, StealInv, SearchersEmpty
<1>6. MineHoldsVictim'
  BY <1>1 DEF TypeOK, StealInv, MineHoldsVictim, Victim
<1>7. ASSUME NEW v \in Workers PROVE LocalLockHeld(v)'
  BY <1>1 DEF TypeOK, StealInv, LocalLockHeld, Victim
<1> QED
  BY <1>2, <1>4, <1>5, <1>6, <1>7 DEF StealInv

LEMMA StealSkipInv ==
  ASSUME StealInv, NEW w \in Workers, StealSkip(w)
  PROVE  StealInv'
<1> USE DEF StealSkip, Stealing, shared, program, queues, counters, flags, coros,
      waking, At
<1>1. TypeOK /\ ThreadShape(w)
  BY DEF StealInv
<1>2. TypeOK'
  <2>1. off' \in [Workers -> 1..N]
    BY <1>1, NextOffType
  <2> QED
    BY <1>1, <2>1 DEF TypeOK
<1>3. Moves(w) /\ ThreadShape(w)'
  BY <1>1 DEF TypeOK, Moves, ThreadShape
<1>4. (\A v \in Workers : ThreadShape(v)') /\ OthersOff'
  BY <1>3, MovesStep
<1>5. SearchersEmpty'
  BY <1>1 DEF TypeOK, StealInv, SearchersEmpty
<1>6. MineHoldsVictim'
  BY <1>1 DEF TypeOK, StealInv, MineHoldsVictim, Victim
<1>7. ASSUME NEW v \in Workers PROVE LocalLockHeld(v)'
  BY <1>1 DEF TypeOK, StealInv, LocalLockHeld, Victim
<1> QED
  BY <1>2, <1>4, <1>5, <1>6, <1>7 DEF StealInv

LEMMA StealLockInv ==
  ASSUME StealInv, NEW w \in Workers, StealLock(w)
  PROVE  StealInv'
<1> USE DEF StealLock, Stealing, program, counters, flags, coros, locals, waking,
      search, At, Go
<1>1. TypeOK /\ ThreadShape(w) /\ Victim(w) \in Workers
  BY VictimType DEF StealInv
<1>2. localq[w] = <<>> /\ Victim(w) # w
  BY <1>1 DEF StealInv, SearchersEmpty
<1>3. TypeOK'
  <2>1. pc' \in [Workers -> PCs]
    BY <1>1 DEF TypeOK, PCs
  <2>2. localLock' \in [Workers -> 0..N]
    BY <1>1, NAssumption DEF TypeOK, Workers
  <2> QED
    BY <1>1, <2>1, <2>2 DEF TypeOK
<1>4. Moves(w) /\ ThreadShape(w)'
  BY <1>1 DEF TypeOK, Moves, ThreadShape, Fetching, InBody
<1>5. (\A v \in Workers : ThreadShape(v)') /\ OthersOff'
  BY <1>4, MovesStep
<1>6. SearchersEmpty'
  BY <1>1, <1>2 DEF TypeOK, StealInv, SearchersEmpty
<1>7. MineHoldsVictim'
  <2> SUFFICES ASSUME NEW u \in Workers, pc'[u] = "mine"
               PROVE  /\ wid'[u] /\ off'[u] < N
                      /\ localLock'[Victim(u)'] = u
                      /\ localq'[Victim(u)'] # <<>>
    BY DEF MineHoldsVictim
  <2>1. Victim(u)' = Victim(u)
    BY DEF Victim
  <2>2. CASE u = w
    BY <1>1, <2>1, <2>2 DEF TypeOK
  <2>3. CASE u # w
    <3>1. /\ wid[u] /\ off[u] < N /\ localLock[Victim(u)] = u
          /\ localq[Victim(u)] # <<>>
      BY <1>1, <2>3 DEF TypeOK, StealInv, MineHoldsVictim
    <3>2. Victim(u) # Victim(w)
      BY <3>1, FreeIsNoWorker
    <3>3. localLock'[Victim(u)] = localLock[Victim(u)] /\ localq' = localq
      BY <1>1, <3>2 DEF TypeOK
    <3> QED
      BY <2>1, <3>1, <3>3
  <2> QED
    BY <2>2, <2>3
<1>8. ASSUME NEW v \in Workers PROVE LocalLockHeld(v)'
  <2>1. \A u \in Workers : Victim(u)' = Victim(u)
    BY DEF Victim
  <2>2. CASE v = Victim(w)
    BY <1>1, <1>2, <2>1, <2>2 DEF TypeOK, LocalLockHeld
  <2>3. CASE v # Victim(w)
    <3>1. localLock'[v] = localLock[v] /\ localq' = localq /\ wid' = wid
      BY <1>1, <2>3 DEF TypeOK
    <3>2. pc[w] = "steal" /\ wid[w] /\ \A u \in Workers \ {w} : pc'[u] = pc[u]
      BY <1>1 DEF TypeOK
    <3>3. LocalLockHeld(v)
      BY DEF StealInv
    <3>4. CASE localLock[v] = v /\ pc[v] \in {"uncount", "count"}
      <4>1. v # w
        BY <3>2, <3>4
      <4> QED
        BY <3>1, <3>2, <3>4, <4>1 DEF LocalLockHeld
    <3>5. ASSUME NEW u \in Workers \ {v}, localLock[v] = u, pc[u] = "mine", wid[u],
                 Victim(u) = v, localq[v] # <<>>
          PROVE  LocalLockHeld(v)'
      <4>1. u # w
        BY <3>2, <3>5
      <4> QED
        BY <2>1, <3>1, <3>2, <3>5, <4>1 DEF LocalLockHeld
    <3> QED
      BY <3>1, <3>3, <3>4, <3>5 DEF LocalLockHeld
  <2> QED
    BY <2>2, <2>3
<1> QED
  BY <1>3, <1>5, <1>6, <1>7, <1>8 DEF StealInv

LEMMA StealMoveInv ==
  ASSUME StealInv, NEW w \in Workers, StealMove(w)
  PROVE  StealInv'
<1> USE DEF StealMove, program, counters, flags, coros, waking, search, At, Go
<1>1. TypeOK /\ ThreadShape(w) /\ Victim(w) \in Workers
  BY VictimType DEF StealInv
<1>2. /\ Victim(w) # w /\ localLock[w] = Free
      /\ localLock[Victim(w)] = w /\ localq[Victim(w)] # <<>>
  BY ThiefIsNotVictim DEF StealInv, MineHoldsVictim
<1>3. localq[Victim(w)] \in Seq(Coros) /\ localq[w] \in Seq(Coros)
  BY <1>1 DEF TypeOK
<1>4. PICK half \in Nat \ {0} :
        /\ half <= Len(localq[Victim(w)])
        /\ localq' = [localq EXCEPT
                        ![Victim(w)] = SubSeq(@, half + 1, Len(@)),
                        ![w] = @ \o SubSeq(localq[Victim(w)], 2, half)]
  <2>1. PICK n \in Nat \ {0} : n = Len(localq[Victim(w)])
    BY <1>2, <1>3
  <2>2. (n + 1) \div 2 \in Nat \ {0} /\ (n + 1) \div 2 <= n
    BY Z3
  <2> QED
    BY <2>1, <2>2
<1>5. /\ SubSeq(localq[Victim(w)], half + 1, Len(localq[Victim(w)])) \in Seq(Coros)
      /\ SubSeq(localq[Victim(w)], 2, half) \in Seq(Coros)
  BY <1>3, <1>4, SubSeqType
<1>6. Head(localq[Victim(w)]) \in Coros
  BY <1>2, <1>3, HeadTail
<1>7. TypeOK'
  <2>1. localq' \in [Workers -> Seq(Coros)]
    <3>1. localq[w] \o SubSeq(localq[Victim(w)], 2, half) \in Seq(Coros)
      BY <1>3, <1>5
    <3> QED
      BY <1>1, <1>4, <1>5, <3>1 DEF TypeOK
  <2>2. localLock' \in [Workers -> 0..N]
    BY <1>1, NAssumption DEF TypeOK, Free
  <2>3. pc' \in [Workers -> PCs]
    BY <1>1 DEF TypeOK, PCs
  <2>4. cur' \in [Workers -> Coros \cup {None}]
    BY <1>1, <1>6 DEF TypeOK
  <2> QED
    BY <1>1, <2>1, <2>2, <2>3, <2>4 DEF TypeOK
<1>8. Moves(w) /\ ThreadShape(w)'
  BY <1>1, <1>6, NoneAssumption
     DEF TypeOK, Moves, ThreadShape, Fetching, InBody
<1>9. (\A v \in Workers : ThreadShape(v)') /\ OthersOff'
  BY <1>8, MovesStep
<1>10. /\ \A u \in Workers : Victim(u)' = Victim(u)
       /\ \A u \in Workers : u # w => pc'[u] = pc[u]
       /\ pc'[w] = "uncount" /\ wid' = wid /\ off' = off
       /\ \A u \in Workers : u \notin {w, Victim(w)} => localq'[u] = localq[u]
       /\ \A u \in Workers : u # Victim(w) => localLock'[u] = localLock[u]
       /\ localLock'[Victim(w)] = Free
  BY <1>1 DEF TypeOK, Victim
<1> HIDE DEF StealMove, Go
<1>11. SearchersEmpty'
  BY <1>2, <1>10 DEF StealInv, SearchersEmpty
<1>12. MineHoldsVictim'
  <2> SUFFICES ASSUME NEW u \in Workers, pc'[u] = "mine"
               PROVE  /\ wid'[u] /\ off'[u] < N
                      /\ localLock'[Victim(u)'] = u
                      /\ localq'[Victim(u)'] # <<>>
    BY DEF MineHoldsVictim
  <2>1. u # w /\ pc[u] = "mine"
    BY <1>10
  <2>2. /\ wid[u] /\ off[u] < N /\ localLock[Victim(u)] = u
        /\ localq[Victim(u)] # <<>>
    BY <2>1 DEF StealInv, MineHoldsVictim
  <2>3. Victim(u) \in Workers \ {w, Victim(w)}
    BY <1>1, <1>2, <2>1, <2>2, FreeIsNoWorker, VictimType
  <2> QED
    BY <1>10, <2>2, <2>3
<1>13. ASSUME NEW v \in Workers PROVE LocalLockHeld(v)'
  <2>1. CASE v = Victim(w)
    BY <1>10, <2>1 DEF LocalLockHeld
  <2>2. CASE v = w
    BY <1>2, <1>10, <2>2 DEF LocalLockHeld
  <2>3. CASE v \notin {w, Victim(w)}
    <3>1. LocalLockHeld(v) /\ \A u \in Workers : At(u, "mine") /\ u = w =>
                                                  Victim(u) # v
      BY <2>3 DEF StealInv
    <3>2. CASE localLock[v] = Free
      BY <1>10, <2>3, <3>2 DEF LocalLockHeld
    <3>3. CASE localLock[v] = v /\ pc[v] \in {"uncount", "count"}
      BY <1>10, <2>3, <3>3 DEF LocalLockHeld
    <3>4. ASSUME NEW u \in Workers \ {v},
                 localLock[v] = u /\ At(u, "mine") /\ wid[u],
                 Victim(u) = v, localq[v] # <<>>
          PROVE  LocalLockHeld(v)'
      <4>1. u # w
        BY <2>3, <3>4
      <4>2. /\ localLock'[v] = u /\ pc'[u] = "mine" /\ wid'[u]
            /\ Victim(u)' = v /\ localq'[v] = localq[v]
        BY <1>10, <2>3, <3>4, <4>1
      <4> QED
        BY <3>4, <4>2 DEF LocalLockHeld
    <3> QED
      BY <3>1, <3>2, <3>3, <3>4 DEF LocalLockHeld
  <2> QED
    BY <2>1, <2>2, <2>3
<1> QED
  BY <1>7, <1>9, <1>11, <1>12, <1>13 DEF StealInv

LEMMA WakeLocalInv ==
  ASSUME StealInv, NEW w \in Workers, WakeLocal(w)
  PROVE  StealInv'
<1> USE DEF WakeLocal, Waking, program, flags, search, At, Go
<1>1. TypeOK /\ ThreadShape(w)
  BY DEF StealInv
<1>2. wakes[w] \in Seq(Coros) /\ wakes[w] # <<>> /\ localq[w] \in Seq(Coros)
  BY <1>1 DEF TypeOK, ThreadShape
<1>3. Head(wakes[w]) \in Coros /\ Tail(wakes[w]) \in Seq(Coros)
  BY <1>2, HeadTail
<1>4. TypeOK'
  <2>1. localq' \in [Workers -> Seq(Coros)]
    <3>1. Append(localq[w], Head(wakes[w])) \in Seq(Coros)
      BY <1>2, <1>3, AppendFacts
    <3> QED
      BY <1>1, <3>1 DEF TypeOK
  <2>2. asleep' \in [Coros -> BOOLEAN]
    BY <1>1 DEF TypeOK
  <2>3. wakes' \in [Workers -> Seq(Coros)]
    BY <1>1, <1>3 DEF TypeOK
  <2>4. pc' \in [Workers -> PCs]
    BY <1>1 DEF TypeOK, PCs
  <2> QED
    BY <1>1, <2>1, <2>2, <2>3, <2>4 DEF TypeOK
<1>5. Moves(w) /\ ThreadShape(w)'
  BY <1>1 DEF TypeOK, Moves, ThreadShape, Fetching, InBody
<1>6. (\A v \in Workers : ThreadShape(v)') /\ OthersOff'
  BY <1>5, MovesStep
<1>7. SearchersEmpty'
  BY <1>1 DEF TypeOK, StealInv, SearchersEmpty
<1>8. MineHoldsVictim'
  <2> SUFFICES ASSUME NEW u \in Workers, pc'[u] = "mine"
               PROVE  /\ wid'[u] /\ off'[u] < N
                      /\ localLock'[Victim(u)'] = u
                      /\ localq'[Victim(u)'] # <<>>
    BY DEF MineHoldsVictim
  <2>1. u # w /\ pc[u] = "mine"
    BY <1>1 DEF TypeOK
  <2>2. /\ wid[u] /\ off[u] < N /\ localLock[Victim(u)] = u
        /\ localq[Victim(u)] # <<>>
    BY <2>1 DEF StealInv, MineHoldsVictim
  <2>3. Victim(u) # w
    BY <2>2, FreeIsNoWorker
  <2>4. Victim(u)' = Victim(u)
    BY DEF Victim
  <2>5. localq'[Victim(u)] = localq[Victim(u)]
    BY <1>1, <2>3 DEF TypeOK
  <2> QED
    BY <2>2, <2>4, <2>5
<1>9. ASSUME NEW v \in Workers PROVE LocalLockHeld(v)'
  BY <1>1, SMTT(30) DEF TypeOK, StealInv, LocalLockHeld, Victim
<1> QED
  BY <1>4, <1>6, <1>7, <1>8, <1>9 DEF StealInv

-----------------------------------------------------------------------------
(* The main thread.                                                         *)
LEMMA ZeroIsWorker == 0 \in Workers
  BY NAssumption DEF Workers

LEMMA MainSpawnInv ==
  ASSUME StealInv, MainSpawn
  PROVE  StealInv'
<1> DEFINE c == prog.main[mainIp].co
<1> USE ZeroIsWorker
<1>1. TypeOK /\ ThreadShape(0)
  BY DEF StealInv
<1>2. /\ pc[0] = "main" /\ mainIp \in 1..Len(prog.main)
      /\ prog.main[mainIp].op = "spawn"
  BY <1>1 DEF MainSpawn, MainCalls, At, TypeOK
<1>3. c \in Coros
  <2>1. prog.main \in Seq(MainCall)
    BY <1>1, ProgramsAssumption DEF TypeOK
  <2>2. prog.main[mainIp] \in MainCall
    BY <1>2, <2>1
  <2> QED
    BY <1>2, <2>2 DEF MainCall
<1>4. /\ frame' = [frame EXCEPT ![c] = "executing"]
      /\ stack' = [stack EXCEPT ![0] = Append(@, c)]
      /\ pc' = [pc EXCEPT ![0] = "exec"]
      /\ UNCHANGED <<program, queues, counters, flags, chan, ip, done, asleep,
                     wid, next, cur, parked, sleeps, intent, confirm, waking,
                     search>>
  BY DEF MainSpawn, StartRamp, Go
<1> HIDE DEF c
<1>5. stack[0] \in Seq(Coros)
  BY <1>1 DEF TypeOK
<1>6. Append(stack[0], c) \in Seq(Coros) /\ Append(stack[0], c) # <<>>
  BY <1>3, <1>5, AppendFacts
<1> USE DEF program, queues, counters, flags, waking, search
<1>7. TypeOK'
  <2>1. frame' \in [Coros -> Frames]
    BY <1>1, <1>4 DEF TypeOK, Frames
  <2>2. stack' \in [Workers -> Seq(Coros)]
    BY <1>1, <1>4, <1>6 DEF TypeOK
  <2>3. pc' \in [Workers -> PCs]
    BY <1>1, <1>4 DEF TypeOK, PCs
  <2> QED
    BY <1>1, <1>4, <2>1, <2>2, <2>3 DEF TypeOK
<1>8. Quiet(0)
  BY <1>1, <1>2, <1>4 DEF TypeOK, Quiet
<1>9. ThreadShape(0)'
  BY <1>1, <1>2, <1>4, <1>6 DEF TypeOK, ThreadShape, Fetching, InBody
<1> QED
  BY <1>7, <1>8, <1>9, QuietStep

LEMMA MainAwaitInv ==
  ASSUME StealInv, MainAwait \/ MainEnd
  PROVE  StealInv'
<1> USE ZeroIsWorker
    DEF MainAwait, MainEnd, MainCalls, shared, program, queues, counters, flags,
        coros, locals, waking, search, At
<1>1. TypeOK /\ ThreadShape(0)
  BY DEF StealInv
<1>2. PICK p \in {"sync", "end"} : Go(0, p)
  OBVIOUS
<1>3. p \in PCs
  BY <1>2 DEF PCs
<1>4. TypeOK'
  <2>1. pc' \in [Workers -> PCs]
    BY <1>1, <1>2, <1>3, PcType
  <2> QED
    BY <1>1, <2>1 DEF TypeOK
<1>5. Quiet(0) /\ ThreadShape(0)'
  BY <1>1, <1>2 DEF TypeOK, Quiet, ThreadShape, Fetching, InBody, Go
<1> QED
  BY <1>4, <1>5, QuietStep

\* With every thread outside the scheduler no local queue is locked.
LEMMA NoLock ==
  ASSUME StealInv, \A w \in Workers : pc[w] \in {"main", "off", "stopped"}
  PROVE  \A v \in Workers : localLock[v] = Free
  BY DEF StealInv, LocalLockHeld, At

LEMMA MainRunInv ==
  ASSUME StealInv, MainRun
  PROVE  StealInv'
<1>1. TypeOK /\ (\A w \in Workers : ThreadShape(w)) /\ OthersOff
  BY DEF StealInv
<1>2. pc[0] = "main" /\ ~wid[0]
  BY <1>1, ZeroIsWorker DEF MainRun, MainCalls, At, ThreadShape
<1>3. \A w \in Workers : pc[w] \in {"main", "off"} /\ stack[w] = <<>>
  BY <1>1, <1>2 DEF OthersOff, At, ThreadShape, InBody
<1>4. \A v \in Workers : localLock[v] = Free
  BY <1>3, NoLock
<1> USE DEF MainRun, program, queues, counters, coros, waking, search
<1>5. TypeOK'
  <2>1. pc' \in [Workers -> PCs] /\ wid' \in [Workers -> BOOLEAN]
    BY DEF PCs
  <2>2. shutdown' \in BOOLEAN /\ deadlock' \in BOOLEAN
    BY Zenon
  <2> QED
    BY <1>1, <2>1, <2>2 DEF TypeOK
<1>6. \A w \in Workers : pc'[w] = "top" /\ wid'[w]
  OBVIOUS
<1>7. \A w \in Workers : ThreadShape(w)'
  BY <1>3, <1>6 DEF ThreadShape, Fetching, InBody
<1>8. OthersOff'
  BY <1>6, ZeroIsWorker DEF OthersOff
<1>9. SearchersEmpty' /\ MineHoldsVictim' /\ \A v \in Workers : LocalLockHeld(v)'
  BY <1>4, <1>6 DEF SearchersEmpty, MineHoldsVictim, LocalLockHeld, At
<1> QED
  BY <1>5, <1>7, <1>8, <1>9 DEF StealInv

LEMMA MainJoinInv ==
  ASSUME StealInv, MainJoin
  PROVE  StealInv'
<1>1. TypeOK /\ \A w \in Workers : ThreadShape(w)
  BY DEF StealInv
<1>2. \A w \in Workers : pc[w] = "stopped" /\ stack[w] = <<>>
  BY <1>1 DEF MainJoin, At, ThreadShape, InBody
<1>3. \A v \in Workers : localLock[v] = Free
  BY <1>2, NoLock
<1> USE DEF MainJoin, queues, counters, flags, coros, waking, search
<1>4. TypeOK'
  <2>1. pc' \in [Workers -> PCs] /\ wid' \in [Workers -> BOOLEAN]
    BY DEF PCs
  <2>2. next' \in [Workers -> Coros \cup {None}]
    BY <1>1 DEF TypeOK
  <2>3. confirm' \in [Workers -> Nat]
    BY <1>1 DEF TypeOK
  <2>4. mainIp' \in Nat \ {0}
    BY <1>1 DEF TypeOK
  <2> QED
    BY <1>1, <2>1, <2>2, <2>3, <2>4 DEF TypeOK
<1>5. \A w \in Workers : pc'[w] \in {"main", "off"} /\ ~wid'[w]
  OBVIOUS
<1>6. \A w \in Workers : ThreadShape(w)'
  BY <1>2, <1>5 DEF ThreadShape, Fetching, InBody
<1>7. OthersOff'
  BY DEF OthersOff, At
<1>8. SearchersEmpty' /\ MineHoldsVictim' /\ \A v \in Workers : LocalLockHeld(v)'
  BY <1>3, <1>5 DEF SearchersEmpty, MineHoldsVictim, LocalLockHeld, At
<1> QED
  BY <1>4, <1>6, <1>7, <1>8 DEF StealInv

LEMMA TimePassesInv ==
  ASSUME StealInv, NEW c \in Coros, TimePasses(c)
  PROVE  StealInv'
<1> USE DEF TimePasses, program, queues, counters, flags, locals, waking, search
<1>1. TypeOK
  BY DEF StealInv
<1>2. TypeOK'
  <2>1. asleep' \in [Coros -> BOOLEAN]
    BY <1>1 DEF TypeOK
  <2> QED
    BY <1>1, <2>1 DEF TypeOK
<1>3. \A w \in Workers : ThreadShape(w)'
  BY DEF StealInv, ThreadShape
<1>4. OthersOff' /\ SearchersEmpty' /\ MineHoldsVictim'
  BY DEF StealInv, OthersOff, SearchersEmpty, MineHoldsVictim, At, Victim
<1>5. \A v \in Workers : LocalLockHeld(v)'
  BY DEF StealInv, LocalLockHeld, At, Victim
<1> QED
  BY <1>2, <1>3, <1>4, <1>5 DEF StealInv

LEMMA StutterInv ==
  ASSUME StealInv, UNCHANGED vars
  PROVE  StealInv'
<1> USE DEF vars, shared, program, queues, counters, flags, coros, locals, waking,
      search
<1>1. TypeOK'
  BY DEF StealInv, TypeOK
<1>2. \A w \in Workers : ThreadShape(w)'
  BY DEF StealInv, ThreadShape
<1>3. OthersOff' /\ SearchersEmpty' /\ MineHoldsVictim'
  BY DEF StealInv, OthersOff, SearchersEmpty, MineHoldsVictim, At, Victim
<1>4. \A v \in Workers : LocalLockHeld(v)'
  BY DEF StealInv, LocalLockHeld, At, Victim
<1> QED
  BY <1>1, <1>2, <1>3, <1>4 DEF StealInv

-----------------------------------------------------------------------------
LEMMA StepInv ==
  ASSUME StealInv, NEW w \in Workers, Step(w)
  PROVE  StealInv'
<1>1. CASE Pick(w)
  BY <1>1, PickNextInv, HandoffTakenInv, PickLocalInv, PickGlobalInv, UncountInv,
     CountInv, ScanTakeInv, ScanMissInv, StealSkipInv, StealLockInv,
     StealMoveInv, StealMissInv DEF Pick
<1>2. CASE Idle(w)
  BY <1>2, LoopTopInv, SyncTopInv, TimerSleepInv, SyncNoneInv, IdleLockInv,
     CheckLiveInv, CheckRunningInv, CheckHandoffInv, IdleWaitInv DEF Idle
<1>3. CASE Exec(w)
  BY <1>3, ExecYieldInv, ExecAwaitInv, ExecReturnInv, ExecSpawnInv, ExecSendInv,
     ParkSendInv, ExecRecvInv, ParkRecvInv, WakeNextInv, WakeLocalInv,
     WakeGlobalInv, WokenCountInv, CancelNothingInv, CancelDequeueInv,
     CancelDestroyInv, CancelUncountInv DEF Exec
<1>4. CASE RunOne(w)
  BY <1>4, ResumeInv, ResumeUndefinedInv, SuspendInv, AfterDoneInv, Fin1Inv,
     Fin2Inv, AfterParkedInv, AfterRequeueInv, RequeuedCountInv,
     RequeuedStopInv, SpawnedDoneInv, SpawnedParkedInv, SpawnedReadyInv,
     SpawnedCountInv DEF RunOne
<1> QED
  BY <1>1, <1>2, <1>3, <1>4 DEF Step

LEMMA NextInv ==
  ASSUME StealInv, [Next]_vars
  PROVE  StealInv'
<1>1. ASSUME NEW w \in Workers, Step(w) PROVE StealInv'
  BY <1>1, StepInv
<1>2. CASE Main
  BY <1>2, MainSpawnInv, MainRunInv, MainJoinInv, MainAwaitInv DEF Main
<1>3. ASSUME NEW c \in Coros, TimePasses(c) PROVE StealInv'
  BY <1>3, TimePassesInv
<1>4. CASE UNCHANGED vars
  BY <1>4, StutterInv
<1> QED
  BY <1>1, <1>2, <1>3, <1>4 DEF Next, Terminated

\* The conjunction that is inductive holds in every reachable state.
THEOREM StealInvariant == Spec => []StealInv
<1>1. StealInv /\ [Next]_vars => StealInv'
  BY NextInv
<1> QED
  BY <1>1, InitStealInv, PTL DEF Spec

\* Every variable of the scheduler keeps its type, whatever the programs, the
\* number of workers and the channels' capacities.
THEOREM TypeCorrect == Spec => []TypeOK
<1>1. StealInv => TypeOK
  BY DEF StealInv
<1> QED
  BY <1>1, StealInvariant, PTL

\* No number of workers stealing from each other can block one another: the
\* thief that holds its victim's mutex always finds its own free
\* (coro.rs:315-336).
THEOREM StealingNeverBlocks == Spec => []StealNeverBlocks
<1>1. StealInv => StealNeverBlocks
  BY ThiefIsNotVictim DEF StealNeverBlocks
<1> QED
  BY <1>1, StealInvariant, PTL

-----------------------------------------------------------------------------
(* Parked senders: what makes SendersWaitWhenFull inductive.                 *)

\* A frame a thread executes or that waits below a ramp; the ramp on top has
\* left it once its spawner asks for its registration.
OnStack(w, i) ==
    /\ i \in 1..Len(stack[w])
    /\ i < Len(stack[w]) \/ pc[w] \notin {"spawned", "spawnedQ"}

\* It executes, or is about to leave for the last time.
FramesRun ==
    \A w \in Workers : \A i \in 1..Len(stack[w]) : OnStack(w, i) =>
        \/ frame[stack[w][i]] = "executing"
        \/ /\ At(w, "suspend") /\ i = Len(stack[w])
           /\ frame[stack[w][i]] \in {"final", "destroyed"}

\* No two threads execute one frame, and none is below itself.
FramesApart ==
    \A v, w \in Workers : \A i \in 1..Len(stack[v]), j \in 1..Len(stack[w]) :
        OnStack(v, i) /\ OnStack(w, j) /\ stack[v][i] = stack[w][j] => v = w /\ i = j

\* The workers begin and end together.
WorkersTogether == \A w \in Workers : wid[w] = wid[0]

\* Only the main thread's ramps keep an intent, until the registration, and
\* nobody can make room before.
IntentWaits ==
    \A w \in Workers : intent[w] # NoIntent =>
        /\ w = 0 /\ ~wid[0] /\ cur[0] = None
        /\ pc[0] \in {"suspend", "spawned"} /\ frame[Running(0)] # "final"
        /\ intent[0].kind = "send" => ~Room(chan[intent[0].ch], Cap[intent[0].ch])

ChanInv ==
    /\ StealInv /\ FramesRun /\ FramesApart /\ WorkersTogether /\ IntentWaits
    /\ SendersWaitWhenFull

-----------------------------------------------------------------------------
(* A channel's parts.                                                        *)
FullWait(ch, cap) ==
    /\ cap # 0 => Len(ch.buf) <= cap
    /\ ch.swait # <<>> => cap # 0 /\ Len(ch.buf) = cap

LEMMA PushedFull ==
    ASSUME NEW ch \in ChanType(Coros, Values), NEW v \in Values, NEW cap \in Nat,
           FullWait(ch, cap), Room(ch, cap)
    PROVE  FullWait(Pushed(ch, v), cap) /\ ch.swait = <<>>
<1>1. /\ ch.buf \in Seq(Values) /\ Len(ch.buf) \in Nat /\ Len(Append(ch.buf, v)) = Len(ch.buf) + 1
  BY DEF ChanType
<1>2. ch.swait = <<>>
  BY <1>1 DEF FullWait, Room
<1>3. Pushed(ch, v).buf = Append(ch.buf, v) /\ Pushed(ch, v).swait = ch.swait
  BY DEF Pushed, ChanType
<1> QED
  BY <1>1, <1>2, <1>3 DEF FullWait, Room

LEMMA PoppedFull ==
    ASSUME NEW ch \in ChanType(Coros, Values), NEW cap \in Nat,
           FullWait(ch, cap), ch.buf # <<>>
    PROVE  FullWait(Popped(ch), cap)
<1>1. /\ ch.buf \in Seq(Values) /\ Len(ch.buf) \in Nat /\ Tail(ch.buf) \in Seq(Values)
      /\ Len(Tail(ch.buf)) = Len(ch.buf) - 1
      /\ ch.swait \in Seq([co : Coros, val : Values])
  BY DEF ChanType
<1>2. CASE ch.swait = <<>>
  <2>1. Popped(ch).buf = Tail(ch.buf) /\ Popped(ch).swait = <<>>
    BY <1>2 DEF Popped, ChanType
  <2> QED
    BY <1>1, <2>1 DEF FullWait
<1>3. CASE ch.swait # <<>>
  <2>1. Popped(ch).buf = Append(Tail(ch.buf), Head(ch.swait).val)
    BY <1>3 DEF Popped
  <2>2. Len(Popped(ch).buf) = Len(ch.buf)
    <3>1. Head(ch.swait).val \in Values
      <4>1. Head(ch.swait) \in [co : Coros, val : Values]
        BY <1>1, <1>3, HeadTail, Zenon
      <4> QED
        BY <4>1
    <3>2. Len(Append(Tail(ch.buf), Head(ch.swait).val)) = Len(Tail(ch.buf)) + 1
      BY <1>1, <3>1
    <3> QED
      BY <1>1, <2>1, <3>2
  <2> QED
    BY <1>3, <2>2 DEF FullWait
<1> QED
  BY <1>2, <1>3

LEMMA ParkedFull ==
    ASSUME NEW ch \in ChanType(Coros, Values), NEW c \in Coros, NEW v \in Values,
           NEW cap \in Nat, FullWait(ch, cap)
    PROVE  /\ FullWait(ParkedReceiver(ch, c), cap)
           /\ ~Room(ch, cap) => FullWait(ParkedSender(ch, c, v), cap)
<1>1. Len(ch.buf) \in Nat
  BY DEF ChanType
<1>2. /\ ParkedReceiver(ch, c).buf = ch.buf /\ ParkedReceiver(ch, c).swait = ch.swait
      /\ ParkedSender(ch, c, v).buf = ch.buf
  BY DEF ParkedReceiver, ParkedSender, ChanType
<1> QED
  BY <1>1, <1>2 DEF FullWait, Room

LEMMA FullWaits == SendersWaitWhenFull <=> \A k \in Channels : FullWait(chan[k], Cap[k])
  BY DEF SendersWaitWhenFull, FullWait

-----------------------------------------------------------------------------
(* Frames.                                                                   *)
LEMMA StackStep ==
    ASSUME TypeOK, TypeOK', FramesRun, FramesApart, NEW w \in Workers, NEW x,
           \A v \in Workers : v # w => pc'[v] = pc[v] /\ stack'[v] = stack[v],
           \A c \in Coros : c # x => frame'[c] = frame[c],
           \/ \A v \in Workers \ {w} : \A i \in 1..Len(stack[v]) :
                  OnStack(v, i) => stack[v][i] # x
           \/ frame[x] = "final" /\ frame'[x] = "destroyed"
           \/ frame'[x] = frame[x],
           \A i \in 1..Len(stack'[w]) : OnStack(w, i)' =>
               \/ frame'[stack'[w][i]] = "executing"
               \/ /\ pc'[w] = "suspend" /\ i = Len(stack'[w])
                  /\ frame'[stack'[w][i]] \in {"final", "destroyed"},
           \A i \in 1..Len(stack'[w]) : OnStack(w, i)' =>
               \/ OnStack(w, i) /\ stack'[w][i] = stack[w][i]
               \/ /\ i = Len(stack'[w]) /\ stack'[w][i] = x
                  /\ \A v \in Workers : \A j \in 1..Len(stack[v]) :
                         OnStack(v, j) => stack[v][j] # x
    PROVE  FramesRun' /\ FramesApart'
<1>1. ASSUME NEW v \in Workers
      PROVE  \A i \in 1..Len(stack[v]) : stack[v][i] \in Coros
  <2>1. stack[v] \in Seq(Coros)
    BY DEF TypeOK
  <2> QED
    BY <2>1
<1>2. ASSUME NEW v \in Workers, v # w, NEW i
      PROVE  OnStack(v, i)' <=> OnStack(v, i)
  <2>1. stack'[v] = stack[v] /\ pc'[v] = pc[v]
    BY <1>2
  <2> QED
    BY <2>1 DEF OnStack
<1>3. FramesRun'
  <2>1. ASSUME NEW v \in Workers, v # w, NEW i \in 1..Len(stack'[v]), OnStack(v, i)'
        PROVE  \/ frame'[stack'[v][i]] = "executing"
               \/ /\ pc'[v] = "suspend" /\ i = Len(stack'[v])
                  /\ frame'[stack'[v][i]] \in {"final", "destroyed"}
    <3>1. /\ stack'[v] = stack[v] /\ i \in 1..Len(stack[v]) /\ OnStack(v, i)
          /\ pc'[v] = pc[v] /\ stack[v][i] \in Coros
      BY <1>1, <1>2, <2>1
    <3>2. \/ frame[stack[v][i]] = "executing"
          \/ /\ pc[v] = "suspend" /\ i = Len(stack[v])
             /\ frame[stack[v][i]] \in {"final", "destroyed"}
      BY <3>1 DEF FramesRun, At
    <3>3. CASE stack[v][i] # x
      BY <3>1, <3>2, <3>3
    <3>4. CASE stack[v][i] = x
      BY <2>1, <3>1, <3>2, <3>4
    <3> QED
      BY <3>3, <3>4
  <2> QED
    BY <2>1 DEF FramesRun, At
<1>4. FramesApart'
  <2>1. ASSUME NEW u \in Workers, NEW v \in Workers, NEW i \in 1..Len(stack'[u]),
               NEW j \in 1..Len(stack'[v]), OnStack(u, i)', OnStack(v, j)',
               stack'[u][i] = stack'[v][j]
        PROVE  u = v /\ i = j
    <3>1. \/ OnStack(u, i) /\ stack'[u][i] = stack[u][i]
          \/ u = w /\ i = Len(stack'[w]) /\ stack'[u][i] = x
             /\ \A a \in Workers : \A n \in 1..Len(stack[a]) : OnStack(a, n) => stack[a][n] # x
      BY <1>2, <2>1
    <3>2. \/ OnStack(v, j) /\ stack'[v][j] = stack[v][j]
          \/ v = w /\ j = Len(stack'[w]) /\ stack'[v][j] = x
             /\ \A a \in Workers : \A n \in 1..Len(stack[a]) : OnStack(a, n) => stack[a][n] # x
      BY <1>2, <2>1
    <3>3. /\ OnStack(u, i) => i \in 1..Len(stack[u])
          /\ OnStack(v, j) => j \in 1..Len(stack[v])
      BY DEF OnStack
    <3> QED
      BY <2>1, <3>1, <3>2, <3>3 DEF FramesApart
  <2> QED
    BY <2>1 DEF FramesApart
<1> QED
  BY <1>3, <1>4

\* A step of a thread that changes neither frames nor channels nor intents.
Calm(w) ==
    /\ UNCHANGED <<stack, frame, chan, intent, wid>>
    /\ \A v \in Workers : v # w => pc'[v] = pc[v]
    /\ pc[w] \notin {"off", "suspend", "spawned", "spawnedQ"}
    /\ pc'[w] \notin {"spawned", "spawnedQ"}

ChanRest ==
    FramesRun /\ FramesApart /\ WorkersTogether /\ IntentWaits /\ SendersWaitWhenFull

\* Another thread is off, and this one would be at the intent's place.
LEMMA NoIntents ==
    ASSUME ChanInv, NEW w \in Workers, pc[w] \notin {"off", "suspend", "spawned"}
    PROVE  \A v \in Workers : intent[v] = NoIntent
BY DEF ChanInv, StealInv, IntentWaits, OthersOff, At

LEMMA CalmStep ==
    ASSUME ChanInv, TypeOK', NEW w \in Workers, Calm(w)
    PROVE  ChanRest'
<1>1. /\ TypeOK /\ FramesRun /\ FramesApart /\ WorkersTogether /\ SendersWaitWhenFull
      /\ \A v \in Workers : intent[v] = NoIntent
  BY NoIntents DEF ChanInv, StealInv, Calm
<1>2. ASSUME NEW i, OnStack(w, i)'
      PROVE  OnStack(w, i)
  BY <1>2 DEF OnStack, Calm
<1>3. FramesRun' /\ FramesApart'
  <2>1. ASSUME NEW i \in 1..Len(stack'[w]), OnStack(w, i)'
        PROVE  frame'[stack'[w][i]] = "executing"
    BY <1>1, <1>2, <2>1 DEF Calm, FramesRun, At
  <2> QED
    BY <1>1, <1>2, <2>1, StackStep DEF Calm
<1>4. IntentWaits' /\ WorkersTogether' /\ SendersWaitWhenFull'
  BY <1>1 DEF Calm, IntentWaits, WorkersTogether, SendersWaitWhenFull
<1> QED
  BY <1>3, <1>4 DEF ChanRest

LEMMA CalmPick ==
    ASSUME StealInv, NEW w \in Workers, Pick(w)
    PROVE  Calm(w)
<1>1. TypeOK
  BY DEF StealInv
<1> USE DEF Calm, At, Go, program, queues, counters, flags, coros, shared, waking, search, locals
<1>2. CASE PickNext(w)
  BY <1>1, <1>2 DEF PickNext, TypeOK
<1>3. CASE HandoffTaken(w)
  BY <1>1, <1>3 DEF HandoffTaken, TypeOK
<1>4. CASE PickLocal(w)
  BY <1>1, <1>4 DEF PickLocal, TypeOK
<1>5. CASE PickGlobal(w)
  BY <1>1, <1>5 DEF PickGlobal, TypeOK
<1>6. CASE Uncount(w)
  BY <1>1, <1>6 DEF Uncount, TypeOK
<1>7. CASE Count(w)
  BY <1>1, <1>7 DEF Count, TypeOK
<1>8. CASE ScanTake(w)
  BY <1>1, <1>8 DEF ScanTake, TypeOK
<1>9. CASE ScanMiss(w)
  BY <1>1, <1>9 DEF ScanMiss, TypeOK
<1>10. CASE StealSkip(w)
  BY <1>1, <1>10 DEF StealSkip, Stealing, TypeOK
<1>11. CASE StealLock(w)
  BY <1>1, <1>11 DEF StealLock, Stealing, TypeOK
<1>12. CASE StealMove(w)
  BY <1>1, <1>12 DEF StealMove, TypeOK
<1>13. CASE StealMiss(w)
  BY <1>1, <1>13 DEF StealMiss, TypeOK
<1> QED
  BY <1>2, <1>3, <1>4, <1>5, <1>6, <1>7, <1>8, <1>9, <1>10, <1>11, <1>12, <1>13 DEF Pick

LEMMA CalmIdle ==
    ASSUME StealInv, NEW w \in Workers, Idle(w)
    PROVE  Calm(w)
<1>1. TypeOK
  BY DEF StealInv
<1> USE DEF Calm, At, Go, LoopHead, program, queues, counters, flags, coros, shared, waking,
        search, locals
<1>2. CASE LoopTop(w)
  BY <1>1, <1>2 DEF LoopTop, TypeOK
<1>3. CASE SyncTop(w)
  BY <1>1, <1>3 DEF SyncTop, TypeOK
<1>4. CASE TimerSleep(w)
  BY <1>1, <1>4 DEF TimerSleep, TypeOK
<1>5. CASE SyncNone(w)
  BY <1>1, <1>5 DEF SyncNone, TypeOK
<1>6. CASE IdleLock(w)
  BY <1>1, <1>6 DEF IdleLock, TypeOK
<1>7. CASE CheckLive(w)
  BY <1>1, <1>7 DEF CheckLive, TypeOK
<1>8. CASE CheckRunning(w)
  BY <1>1, <1>8 DEF CheckRunning, TypeOK
<1>9. CASE CheckHandoff(w)
  BY <1>1, <1>9 DEF CheckHandoff, TypeOK
<1>10. CASE IdleWait(w)
  BY <1>1, <1>10 DEF IdleWait, TypeOK
<1> QED
  BY <1>2, <1>3, <1>4, <1>5, <1>6, <1>7, <1>8, <1>9, <1>10 DEF Idle

LEMMA CalmRunOne ==
    ASSUME StealInv, NEW w \in Workers,
           \/ ResumeUndefined(w) \/ Fin1(w) \/ Fin2(w) \/ AfterParked(w) \/ AfterRequeue(w)
           \/ RequeuedCount(w) \/ RequeuedStop(w)
    PROVE  Calm(w)
<1>1. TypeOK
  BY DEF StealInv
<1> USE DEF Calm, At, Go, LoopHead, Release, PushReady, program, queues, counters, flags, coros,
        shared, waking, search, locals
<1>2. CASE ResumeUndefined(w)
  BY <1>1, <1>2 DEF ResumeUndefined, TypeOK
<1>3. CASE Fin1(w)
  BY <1>1, <1>3 DEF Fin1, TypeOK
<1>4. CASE Fin2(w)
  BY <1>1, <1>4 DEF Fin2, TypeOK
<1>5. CASE AfterParked(w)
  BY <1>1, <1>5 DEF AfterParked, TypeOK
<1>6. CASE AfterRequeue(w)
  BY <1>1, <1>6 DEF AfterRequeue, TypeOK
<1>7. CASE RequeuedCount(w)
  BY <1>1, <1>7 DEF RequeuedCount, TypeOK
<1>8. CASE RequeuedStop(w)
  BY <1>1, <1>8 DEF RequeuedStop, TypeOK
<1> QED
  BY <1>2, <1>3, <1>4, <1>5, <1>6, <1>7, <1>8

LEMMA CalmExec ==
    ASSUME StealInv, NEW w \in Workers,
           \/ ExecYield(w) \/ ExecAwait(w) \/ WakeNext(w) \/ WakeLocal(w) \/ WakeGlobal(w)
           \/ WokenCount(w) \/ CancelNothing(w) \/ CancelDequeue(w) \/ CancelUncount(w)
    PROVE  Calm(w)
<1>1. TypeOK
  BY DEF StealInv
<1> USE DEF Calm, At, Go, Executing, Waking, Cancelling, MainCalls, CancelReturn, program,
        queues, counters, flags, coros, shared, waking, search, locals
<1>2. CASE ExecYield(w)
  BY <1>1, <1>2 DEF ExecYield, TypeOK
<1>3. CASE ExecAwait(w)
  BY <1>1, <1>3 DEF ExecAwait, TypeOK
<1>4. CASE WakeNext(w)
  BY <1>1, <1>4 DEF WakeNext, TypeOK
<1>5. CASE WakeLocal(w)
  BY <1>1, <1>5 DEF WakeLocal, TypeOK
<1>6. CASE WakeGlobal(w)
  BY <1>1, <1>6 DEF WakeGlobal, TypeOK
<1>7. CASE WokenCount(w)
  BY <1>1, <1>7 DEF WokenCount, TypeOK
<1>8. CASE CancelNothing(w)
  BY <1>1, <1>8 DEF CancelNothing, TypeOK
<1>9. CASE CancelDequeue(w)
  BY <1>1, <1>9 DEF CancelDequeue, CancelDequeueCounting, TypeOK
<1>10. CASE CancelUncount(w)
  BY <1>1, <1>10 DEF CancelUncount, TypeOK
<1> QED
  BY <1>2, <1>3, <1>4, <1>5, <1>6, <1>7, <1>8, <1>9, <1>10

-----------------------------------------------------------------------------
(* What any step may do to the channels.                                     *)
ChanMoves ==
    \/ chan' = chan
    \/ \E k \in Channels, v \in Values :
          Room(chan[k], Cap[k]) /\ chan' = [chan EXCEPT ![k] = Pushed(@, v)]
    \/ \E k \in Channels : chan[k].buf # <<>> /\ chan' = [chan EXCEPT ![k] = Popped(@)]
    \/ \E k \in Channels, c \in Coros : chan' = [chan EXCEPT ![k] = ParkedReceiver(@, c)]
    \/ \E k \in Channels, c \in Coros, v \in Values :
          ~Room(chan[k], Cap[k]) /\ chan' = [chan EXCEPT ![k] = ParkedSender(@, c, v)]

LEMMA MovesFull ==
    ASSUME TypeOK, SendersWaitWhenFull, ChanMoves
    PROVE  SendersWaitWhenFull'
<1>1. /\ chan \in [Channels -> ChanType(Coros, Values)]
      /\ \A k \in Channels : /\ chan[k] \in ChanType(Coros, Values) /\ Cap[k] \in Nat
                             /\ FullWait(chan[k], Cap[k])
  BY CapAssumption, FullWaits DEF TypeOK
<1> SUFFICES ASSUME NEW k \in Channels
             PROVE  FullWait(chan'[k], Cap[k])
  BY DEF SendersWaitWhenFull, FullWait
<1>2. CASE chan' = chan
  BY <1>1, <1>2
<1>3. ASSUME NEW j \in Channels, NEW v \in Values, Room(chan[j], Cap[j]),
             chan' = [chan EXCEPT ![j] = Pushed(@, v)]
      PROVE  FullWait(chan'[k], Cap[k])
  <2>1. FullWait(Pushed(chan[j], v), Cap[j])
    BY <1>1, <1>3, PushedFull
  <2> QED
    BY <1>1, <1>3, <2>1
<1>4. ASSUME NEW j \in Channels, chan[j].buf # <<>>, chan' = [chan EXCEPT ![j] = Popped(@)]
      PROVE  FullWait(chan'[k], Cap[k])
  <2>1. FullWait(Popped(chan[j]), Cap[j])
    BY <1>1, <1>4, PoppedFull
  <2> QED
    BY <1>1, <1>4, <2>1
<1>5. ASSUME NEW j \in Channels, NEW c \in Coros,
             chan' = [chan EXCEPT ![j] = ParkedReceiver(@, c)]
      PROVE  FullWait(chan'[k], Cap[k])
  <2>1. FullWait(ParkedReceiver(chan[j], c), Cap[j])
    <3>1. ParkedReceiver(chan[j], c).buf = chan[j].buf
          /\ ParkedReceiver(chan[j], c).swait = chan[j].swait
      BY <1>1 DEF ParkedReceiver, ChanType
    <3> QED
      BY <1>1, <3>1 DEF FullWait
  <2> QED
    BY <1>1, <1>5, <2>1
<1>6. ASSUME NEW j \in Channels, NEW c \in Coros, NEW v \in Values, ~Room(chan[j], Cap[j]),
             chan' = [chan EXCEPT ![j] = ParkedSender(@, c, v)]
      PROVE  FullWait(chan'[k], Cap[k])
  <2>1. FullWait(ParkedSender(chan[j], c, v), Cap[j])
    BY <1>1, <1>6, ParkedFull
  <2> QED
    BY <1>1, <1>6, <2>1
<1> QED
  BY <1>2, <1>3, <1>4, <1>5, <1>6 DEF ChanMoves

\* A step within a body that may change channels or keep an intent.
Bodily(w) ==
    /\ UNCHANGED <<stack, frame, wid>>
    /\ \A v \in Workers : v # w => pc'[v] = pc[v] /\ intent'[v] = intent[v]
    /\ pc[w] \notin {"off", "suspend", "spawned", "spawnedQ"}
    /\ pc'[w] \notin {"spawned", "spawnedQ"}

LEMMA BodilyFrames ==
    ASSUME ChanInv, TypeOK', NEW w \in Workers, Bodily(w)
    PROVE  FramesRun' /\ FramesApart' /\ WorkersTogether'
<1>1. TypeOK /\ FramesRun /\ FramesApart /\ WorkersTogether
  BY DEF ChanInv, StealInv
<1>2. ASSUME NEW i, OnStack(w, i)'
      PROVE  OnStack(w, i)
  BY <1>2 DEF OnStack, Bodily
<1>3. ASSUME NEW i \in 1..Len(stack'[w]), OnStack(w, i)'
      PROVE  frame'[stack'[w][i]] = "executing"
  BY <1>1, <1>2, <1>3 DEF Bodily, FramesRun, At
<1> QED
  BY <1>1, <1>2, <1>3, StackStep DEF Bodily, WorkersTogether

LEMMA IntentNew ==
    ASSUME ChanInv, NEW w \in Workers, Bodily(w),
           \/ intent'[w] = intent[w]
           \/ /\ stack[w] # <<>> /\ cur[w] = None /\ cur'[w] = None /\ pc'[w] = "suspend"
              /\ chan' = chan
              /\ intent'[w].kind = "send" => ~Room(chan[intent'[w].ch], Cap[intent'[w].ch])
    PROVE  IntentWaits'
<1>1. \A v \in Workers : intent[v] = NoIntent
  BY NoIntents DEF Bodily
<1>2. CASE intent'[w] = intent[w]
  BY <1>1, <1>2 DEF IntentWaits, Bodily
<1>3. CASE /\ stack[w] # <<>> /\ cur[w] = None /\ cur'[w] = None /\ pc'[w] = "suspend"
           /\ chan' = chan
           /\ intent'[w].kind = "send" => ~Room(chan[intent'[w].ch], Cap[intent'[w].ch])
  <2>1. ~wid[w] /\ ~wid[0] /\ w = 0
    BY <1>3, NAssumption
    DEF Bodily, ChanInv, StealInv, ThreadShape, OthersOff, WorkersTogether, At, Workers
  <2>2. frame[Running(w)] # "final"
    <3>1. Len(stack[w]) \in Nat /\ Len(stack[w]) # 0 /\ Running(w) = stack[w][Len(stack[w])]
      <4>1. stack[w] \in Seq(Coros)
        BY DEF ChanInv, StealInv, TypeOK
      <4> QED
        BY <1>3, <4>1 DEF Running, Last
    <3>2. OnStack(w, Len(stack[w]))
      BY <3>1 DEF OnStack, Bodily
    <3> QED
      BY <3>1, <3>2 DEF ChanInv, FramesRun, Bodily, At
  <2> QED
    BY <1>1, <1>3, <2>1, <2>2 DEF IntentWaits, Bodily, Running
<1> QED
  BY <1>2, <1>3

LEMMA SendMoves ==
    ASSUME ChanInv, NEW w \in Workers, ExecSend(w) \/ ParkSend(w)
    PROVE  ChanMoves /\ Bodily(w) /\ IntentWaits'
<1>1. TypeOK /\ ThreadShape(w)
  BY DEF ChanInv, StealInv
<1>2. Running(w) \in Coros /\ stack[w] # <<>>
  BY <1>1, RunningType DEF ThreadShape, InBody, ExecSend, ParkSend, Executing, At
<1> DEFINE i == Current(Running(w))
<1>3. i.ch \in Channels /\ i.val \in Values
  BY <1>1, <1>2, CurrentType DEF ExecSend, ParkSend, Executing
<1> HIDE DEF i
<1>4. Bodily(w)
  BY <1>1 DEF ExecSend, ParkSend, Executing, ChannelFrame, ThenWake, Bodily, At, Go, TypeOK,
     program, queues, counters, flags, search, waking
<1>5. /\ \/ chan' = chan
         \/ Room(chan[i.ch], Cap[i.ch]) /\ chan' = [chan EXCEPT ![i.ch] = Pushed(@, i.val)]
         \/ /\ ~Room(chan[i.ch], Cap[i.ch]) /\ cur[w] \in Coros
            /\ chan' = [chan EXCEPT ![i.ch] = ParkedSender(@, cur[w], i.val)]
      /\ \/ intent'[w] = intent[w]
         \/ /\ cur[w] = None /\ cur'[w] = None /\ pc'[w] = "suspend" /\ chan' = chan
            /\ intent'[w] = [kind |-> "send", ch |-> i.ch, val |-> i.val]
            /\ ~Room(chan[i.ch], Cap[i.ch])
  BY <1>1 DEF ExecSend, ParkSend, ChannelFrame, ThenWake, Go, TypeOK, i
<1>6. ChanMoves
  BY <1>3, <1>5 DEF ChanMoves
<1>7. IntentWaits'
  BY <1>2, <1>4, <1>5, IntentNew
<1> QED
  BY <1>4, <1>6, <1>7

LEMMA RecvMoves ==
    ASSUME ChanInv, NEW w \in Workers, ExecRecv(w) \/ ParkRecv(w)
    PROVE  ChanMoves /\ Bodily(w) /\ IntentWaits'
<1>1. TypeOK /\ ThreadShape(w)
  BY DEF ChanInv, StealInv
<1>2. Running(w) \in Coros /\ stack[w] # <<>>
  BY <1>1, RunningType
  DEF ThreadShape, InBody, ExecRecv, ParkRecv, ParkRecvLooking, Executing, At
<1> DEFINE i == Current(Running(w))
<1>3. i.ch \in Channels
  BY <1>1, <1>2, CurrentType DEF ExecRecv, ParkRecv, ParkRecvLooking, Executing
<1> HIDE DEF i
<1>4. Bodily(w)
  BY <1>1 DEF ExecRecv, ParkRecv, ParkRecvLooking, Executing, ChannelFrame, ThenWake, Bodily,
     At, Go, TypeOK, program, queues, counters, flags, search, waking
<1>5. /\ \/ chan' = chan
         \/ chan[i.ch].buf # <<>> /\ chan' = [chan EXCEPT ![i.ch] = Popped(@)]
         \/ /\ cur[w] \in Coros
            /\ chan' = [chan EXCEPT ![i.ch] = ParkedReceiver(@, cur[w])]
      /\ \/ intent'[w] = intent[w]
         \/ /\ cur[w] = None /\ cur'[w] = None /\ pc'[w] = "suspend" /\ chan' = chan
            /\ intent'[w] = [kind |-> "recv", ch |-> i.ch]
  BY <1>1 DEF ExecRecv, ParkRecv, ParkRecvLooking, ChannelFrame, ThenWake, Go, TypeOK, i
<1>6. ChanMoves
  BY <1>3, <1>5 DEF ChanMoves
<1>7. IntentWaits'
  BY <1>2, <1>4, <1>5, IntentNew
<1> QED
  BY <1>4, <1>6, <1>7

-----------------------------------------------------------------------------
(* The steps that change frames.                                             *)
LEMMA StackTop ==
    ASSUME TypeOK, NEW w \in Workers, stack[w] # <<>>
    PROVE  /\ Len(stack[w]) \in Nat \ {0} /\ Running(w) = stack[w][Len(stack[w])]
           /\ Running(w) \in Coros
           /\ \A i \in 1..Len(stack[w]) : stack[w][i] \in Coros
<1>1. stack[w] \in Seq(Coros)
  BY DEF TypeOK
<1> QED
  BY <1>1, RunningType DEF Running, Last

\* A suspended or unborn frame is on no stack.
LEMMA NotOnStack ==
    ASSUME FramesRun, NEW c, frame[c] \in {"none", "suspended"}
    PROVE  \A v \in Workers : \A i \in 1..Len(stack[v]) : OnStack(v, i) => stack[v][i] # c
BY DEF FramesRun

\* A step that keeps channels and intents, when there are no intents.
LEMMA NoIntentKept ==
    ASSUME ChanInv, NEW w \in Workers, pc[w] \notin {"off", "suspend", "spawned"},
           UNCHANGED <<chan, intent, wid>>
    PROVE  WorkersTogether' /\ IntentWaits' /\ SendersWaitWhenFull'
BY NoIntents DEF ChanInv, WorkersTogether, IntentWaits, SendersWaitWhenFull

LEMMA ResumeChan ==
    ASSUME ChanInv, TypeOK', NEW w \in Workers, Resume(w)
    PROVE  ChanMoves /\ ChanRest'
<1>1. /\ TypeOK /\ FramesRun /\ FramesApart /\ ThreadShape(w)
  BY DEF ChanInv, StealInv
<1>2. /\ At(w, "resume") /\ frame[cur[w]] = "suspended" /\ cur[w] \in Coros
      /\ frame' = [frame EXCEPT ![cur[w]] = "executing"]
      /\ stack' = [stack EXCEPT ![w] = <<cur[w]>>] /\ UNCHANGED <<chan, intent, wid>>
      /\ \A v \in Workers : v # w => pc'[v] = pc[v] /\ stack'[v] = stack[v]
  BY <1>1 DEF Resume, Untouched, ThreadShape, Fetching, At, Go, TypeOK
<1>3. FramesRun' /\ FramesApart'
  <2>1. /\ \A v \in Workers : \A j \in 1..Len(stack[v]) : OnStack(v, j) => stack[v][j] # cur[w]
        /\ stack'[w] = <<cur[w]>> /\ frame'[cur[w]] = "executing"
        /\ \A c \in Coros : c # cur[w] => frame'[c] = frame[c]
    <3>1. \A v \in Workers : \A j \in 1..Len(stack[v]) : OnStack(v, j) => stack[v][j] # cur[w]
      BY <1>1, <1>2, NotOnStack
    <3>2. frame \in [Coros -> Frames] /\ stack \in [Workers -> Seq(Coros)]
      BY <1>1 DEF TypeOK
    <3> QED
      BY <1>2, <3>1, <3>2
  <2>2. \A i \in 1..Len(stack'[w]) : i = Len(stack'[w]) /\ stack'[w][i] = cur[w]
    BY <2>1
  <2> QED
    BY <1>1, <1>2, <2>1, <2>2, StackStep
<1> QED
  BY <1>2, <1>3, NoIntentKept DEF At, ChanRest, ChanMoves

LEMMA ReturnChan ==
    ASSUME ChanInv, TypeOK', NEW w \in Workers, ExecReturn(w)
    PROVE  ChanMoves /\ ChanRest'
<1>1. /\ TypeOK /\ FramesRun /\ FramesApart /\ ThreadShape(w)
  BY DEF ChanInv, StealInv
<1>2. /\ At(w, "exec") /\ stack[w] # <<>> /\ pc'[w] = "suspend"
      /\ frame' = [frame EXCEPT ![Running(w)] = "final"]
      /\ UNCHANGED <<stack, chan, intent, wid>>
      /\ \A v \in Workers : v # w => pc'[v] = pc[v]
  BY <1>1 DEF ExecReturn, Executing, ThreadShape, InBody, At, Go, TypeOK, locals
<1>3. FramesRun' /\ FramesApart'
  <2>1. /\ Running(w) = stack[w][Len(stack[w])] /\ Running(w) \in Coros
        /\ Len(stack[w]) \in 1..Len(stack[w]) /\ OnStack(w, Len(stack[w]))
        /\ \A i \in 1..Len(stack[w]) : stack[w][i] \in Coros
    BY <1>1, <1>2, StackTop DEF OnStack, At
  <2>2. /\ \A c \in Coros : c # Running(w) => frame'[c] = frame[c]
        /\ frame'[Running(w)] = "final"
    BY <1>1, <1>2, <2>1 DEF TypeOK
  <2>3. \A v \in Workers \ {w} : \A i \in 1..Len(stack[v]) :
            OnStack(v, i) => stack[v][i] # Running(w)
    BY <1>1, <2>1 DEF FramesApart
  <2>4. \A i \in 1..Len(stack[w]) : OnStack(w, i)
    BY <1>2 DEF OnStack, At
  <2>5. ASSUME NEW i \in 1..Len(stack'[w])
        PROVE  \/ frame'[stack'[w][i]] = "executing"
               \/ /\ pc'[w] = "suspend" /\ i = Len(stack'[w])
                  /\ frame'[stack'[w][i]] \in {"final", "destroyed"}
    BY <1>1, <1>2, <2>1, <2>2, <2>4 DEF FramesRun, FramesApart, At
  <2> QED
    BY <1>1, <1>2, <2>2, <2>3, <2>4, <2>5, StackStep
<1> QED
  BY <1>2, <1>3, NoIntentKept DEF At, ChanRest, ChanMoves

LEMMA RampChan ==
    ASSUME ChanInv, TypeOK', NEW w \in Workers, NEW c \in Coros, StartRamp(w, c),
           pc[w] \notin {"off", "suspend", "spawned", "spawnedQ"}
    PROVE  ChanMoves /\ ChanRest'
<1>1. /\ TypeOK /\ FramesRun /\ FramesApart
  BY DEF ChanInv, StealInv
<1>2. /\ frame[c] = "none" /\ frame' = [frame EXCEPT ![c] = "executing"]
      /\ stack' = [stack EXCEPT ![w] = Append(@, c)] /\ UNCHANGED <<chan, intent, wid>>
      /\ pc'[w] = "exec"
      /\ \A v \in Workers : v # w => pc'[v] = pc[v] /\ stack'[v] = stack[v]
  BY <1>1 DEF StartRamp, Go, TypeOK
<1>3. FramesRun' /\ FramesApart'
  <2>1. /\ \A v \in Workers : \A j \in 1..Len(stack[v]) : OnStack(v, j) => stack[v][j] # c
        /\ frame'[c] = "executing" /\ \A b \in Coros : b # c => frame'[b] = frame[b]
    <3>1. \A v \in Workers : \A j \in 1..Len(stack[v]) : OnStack(v, j) => stack[v][j] # c
      BY <1>1, <1>2, NotOnStack
    <3>2. frame \in [Coros -> Frames]
      BY <1>1 DEF TypeOK
    <3> QED
      BY <1>2, <3>1, <3>2
  <2>2. /\ stack[w] \in Seq(Coros) /\ stack'[w] = Append(stack[w], c)
        /\ Len(stack'[w]) = Len(stack[w]) + 1 /\ stack'[w][Len(stack'[w])] = c
        /\ \A i \in 1..Len(stack[w]) : stack'[w][i] = stack[w][i] /\ stack[w][i] \in Coros
    <3>1. stack[w] \in Seq(Coros) /\ stack'[w] = Append(stack[w], c)
      BY <1>1, <1>2 DEF TypeOK
    <3> QED
      BY <3>1, AppendProperties
  <2>3. ASSUME NEW i \in 1..Len(stack'[w])
        PROVE  i \in 1..Len(stack[w]) \/ i = Len(stack'[w])
    <3>1. Len(stack[w]) \in Nat
      BY <2>2
    <3> QED
      BY <2>2, <3>1
  <2>4. \A i \in 1..Len(stack[w]) : OnStack(w, i) /\ frame[stack[w][i]] = "executing"
    BY <1>1 DEF OnStack, FramesRun, At
  <2>5. ASSUME NEW i \in 1..Len(stack'[w])
        PROVE  /\ frame'[stack'[w][i]] = "executing"
               /\ \/ OnStack(w, i) /\ stack'[w][i] = stack[w][i]
                  \/ i = Len(stack'[w]) /\ stack'[w][i] = c
    BY <1>1, <1>2, <2>1, <2>2, <2>3, <2>4
  <2> QED
    BY <1>1, <1>2, <2>1, <2>5, StackStep
<1> QED
  BY <1>2, <1>3, NoIntentKept DEF ChanRest, ChanMoves

LEMMA SuspendChan ==
    ASSUME ChanInv, TypeOK', NEW w \in Workers, Suspend(w)
    PROVE  ChanMoves /\ ChanRest'
<1>1. /\ TypeOK /\ FramesRun /\ FramesApart /\ IntentWaits /\ ThreadShape(w)
  BY DEF ChanInv, StealInv
<1>2. /\ At(w, "suspend") /\ stack[w] # <<>>
      /\ frame' = [frame EXCEPT ![Running(w)] = IF @ = "final" THEN @ ELSE "suspended"]
      /\ UNCHANGED <<chan, intent, wid, cur>>
      /\ \A v \in Workers : v # w => pc'[v] = pc[v] /\ stack'[v] = stack[v]
      /\ \/ pc'[w] = "after" /\ stack'[w] = <<>> /\ cur[w] # None
         \/ pc'[w] = "spawned" /\ stack' = stack
  <2>1. /\ At(w, "suspend") /\ stack[w] # <<>> /\ UNCHANGED <<chan, intent, wid, cur>>
        /\ frame' = [frame EXCEPT ![Running(w)] = IF @ = "final" THEN @ ELSE "suspended"]
    BY <1>1 DEF Suspend, ThreadShape, InBody, At
  <2>2. \/ /\ Go(w, "after") /\ stack' = [stack EXCEPT ![w] = <<>>] /\ cur[w] # None
        \/ Go(w, "spawned") /\ stack' = stack
    BY DEF Suspend
  <2>3. pc \in [Workers -> PCs] /\ stack \in [Workers -> Seq(Coros)]
    BY <1>1 DEF TypeOK
  <2> QED
    BY <2>1, <2>2, <2>3 DEF Go
<1>3. /\ Running(w) = stack[w][Len(stack[w])] /\ Running(w) \in Coros
      /\ Len(stack[w]) \in 1..Len(stack[w]) /\ OnStack(w, Len(stack[w]))
      /\ \A i \in 1..Len(stack[w]) : stack[w][i] \in Coros
  BY <1>1, <1>2, StackTop DEF OnStack, At
<1>4. /\ \A c \in Coros : c # Running(w) => frame'[c] = frame[c]
      /\ frame'[Running(w)] = IF frame[Running(w)] = "final" THEN "final" ELSE "suspended"
  <2>1. frame \in [Coros -> Frames]
    BY <1>1 DEF TypeOK
  <2> QED
    BY <1>2, <1>3, <2>1
<1>5. FramesRun' /\ FramesApart'
  <2>1. \A v \in Workers \ {w} : \A i \in 1..Len(stack[v]) :
            OnStack(v, i) => stack[v][i] # Running(w)
    BY <1>1, <1>3 DEF FramesApart
  <2>2. CASE stack'[w] = <<>>
    BY <1>1, <1>2, <1>4, <2>1, <2>2, StackStep
  <2>3. CASE pc'[w] = "spawned" /\ stack' = stack
    <3>1. ASSUME NEW i \in 1..Len(stack'[w]), OnStack(w, i)'
          PROVE  OnStack(w, i) /\ i # Len(stack[w])
      BY <1>2, <2>3, <3>1 DEF OnStack, At
    <3>2. ASSUME NEW i \in 1..Len(stack'[w]), OnStack(w, i)'
          PROVE  frame'[stack'[w][i]] = "executing"
      BY <1>1, <1>3, <1>4, <2>3, <3>1, <3>2 DEF FramesRun, FramesApart
    <3> QED
      BY <1>1, <1>2, <1>4, <2>1, <2>3, <3>1, <3>2, StackStep
  <2> QED
    BY <1>2, <2>2, <2>3
<1>6. IntentWaits'
  <2>1. CASE \A v \in Workers : intent[v] = NoIntent
    BY <1>2, <2>1 DEF IntentWaits
  <2>2. ASSUME NEW v \in Workers, intent[v] # NoIntent
        PROVE  IntentWaits'
    <3>1. v = 0 /\ ~wid[0] /\ w = 0
      BY <1>1, <1>2, <2>2 DEF IntentWaits, ChanInv, StealInv, OthersOff, At
    <3>2. /\ cur[0] = None /\ frame[Running(0)] # "final" /\ pc'[0] = "spawned" /\ stack' = stack
          /\ intent[0].kind = "send" => ~Room(chan[intent[0].ch], Cap[intent[0].ch])
      BY <1>1, <1>2, <2>2, <3>1 DEF IntentWaits
    <3>3. frame'[Running(0)'] # "final"
      BY <1>4, <3>1, <3>2 DEF Running
    <3> QED
      BY <1>1, <1>2, <3>1, <3>2, <3>3 DEF IntentWaits
  <2> QED
    BY <2>1, <2>2
<1> QED
  BY <1>2, <1>5, <1>6
  DEF ChanRest, ChanMoves, ChanInv, WorkersTogether, SendersWaitWhenFull

\* A frame destroyed that no thread executes.
LEMMA DestroyedFrame ==
    ASSUME ChanInv, TypeOK', NEW w \in Workers, NEW c \in Coros,
           frame[c] \in {"final", "suspended"}, frame' = [frame EXCEPT ![c] = "destroyed"],
           \A v \in Workers : v # w => pc'[v] = pc[v] /\ stack'[v] = stack[v],
           stack[w] # <<>> => pc[w] # "suspend", stack' = stack,
           stack[w] # <<>> => pc[w] \notin {"spawned", "spawnedQ"}
    PROVE  FramesRun' /\ FramesApart'
<1>1. /\ TypeOK /\ FramesRun /\ FramesApart
  BY DEF ChanInv, StealInv
<1>2. \A b \in Coros : b # c => frame'[b] = frame[b]
  <2>1. frame \in [Coros -> Frames]
    BY <1>1 DEF TypeOK
  <2> QED
    BY <2>1
<1>3. frame'[c] = "destroyed"
  <2>1. frame \in [Coros -> Frames]
    BY <1>1 DEF TypeOK
  <2> QED
    BY <2>1
<1>4. \A i \in 1..Len(stack[w]) : stack[w] # <<>>
  OBVIOUS
<1>5. ASSUME NEW i \in 1..Len(stack[w])
      PROVE  OnStack(w, i) /\ frame'[stack[w][i]] = "executing"
  <2>1. stack[w] # <<>> /\ OnStack(w, i) /\ stack[w][i] \in Coros
    BY <1>1, <1>4, StackTop DEF OnStack
  <2>2. frame[stack[w][i]] = "executing"
    BY <1>1, <2>1 DEF FramesRun, At
  <2> QED
    BY <1>2, <2>1, <2>2
<1>6. \/ \A v \in Workers \ {w} : \A i \in 1..Len(stack[v]) : OnStack(v, i) => stack[v][i] # c
      \/ frame[c] = "final" /\ frame'[c] = "destroyed"
  BY <1>1, <1>3, NotOnStack
<1> QED
  BY <1>1, <1>2, <1>5, <1>6, StackStep

LEMMA DestroyChan ==
    ASSUME ChanInv, TypeOK', NEW w \in Workers, CancelDestroy(w)
    PROVE  ChanMoves /\ ChanRest'
<1>1. TypeOK /\ FramesRun /\ FramesApart
  BY DEF ChanInv, StealInv
<1>2. /\ At(w, "destroy") /\ UNCHANGED <<chan, intent, wid, stack>>
      /\ \A v \in Workers : v # w => pc'[v] = pc[v]
      /\ pc'[w] \in {"unlive", "ub"}
      /\ \/ frame' = frame
         \/ /\ frame[CancelTarget(w)] = "suspended"
            /\ frame' = [frame EXCEPT ![CancelTarget(w)] = "destroyed"]
  BY <1>1 DEF CancelDestroy, Untouched, At, Go, TypeOK, locals
<1>3. FramesRun' /\ FramesApart'
  <2>1. CASE frame' = frame \/ CancelTarget(w) \notin Coros
    <3>1. frame' = frame
      <4>1. frame \in [Coros -> Frames]
        BY <1>1 DEF TypeOK
      <4> QED
        BY <1>2, <2>1, <4>1
    <3> QED
      BY <1>1, <1>2, <3>1, BodilyFrames DEF Bodily, At
  <2>2. CASE CancelTarget(w) \in Coros /\ frame' # frame
    BY <1>1, <1>2, <2>2, DestroyedFrame DEF At
  <2> QED
    BY <2>1, <2>2
<1> QED
  BY <1>2, <1>3, NoIntentKept DEF At, ChanRest, ChanMoves

LEMMA AfterDoneChan ==
    ASSUME ChanInv, TypeOK', NEW w \in Workers, AfterDone(w)
    PROVE  ChanMoves /\ ChanRest'
<1>1. TypeOK /\ FramesRun /\ FramesApart /\ ThreadShape(w)
  BY DEF ChanInv, StealInv
<1>2. /\ At(w, "after") /\ UNCHANGED <<chan, intent, wid, stack>> /\ stack[w] = <<>>
      /\ \A v \in Workers : v # w => pc'[v] = pc[v]
      /\ cur[w] \in Coros /\ frame[cur[w]] = "final"
      /\ frame' = [frame EXCEPT ![cur[w]] = "destroyed"]
  BY <1>1 DEF AfterDone, Complete, Release, ThreadShape, InBody, At, Go, TypeOK
<1>3. FramesRun' /\ FramesApart'
  BY <1>1, <1>2, DestroyedFrame
<1> QED
  BY <1>2, <1>3, NoIntentKept DEF At, ChanRest, ChanMoves

\* The ramp's frame leaves the stack.
LEMMA ReturnFrames ==
    ASSUME ChanInv, TypeOK', NEW w \in Workers, SpawnReturn(w),
           pc[w] \in {"spawned", "spawnedQ"},
           \/ frame' = frame
           \/ /\ frame[Running(w)] = "final"
              /\ frame' = [frame EXCEPT ![Running(w)] = "destroyed"]
    PROVE  FramesRun' /\ FramesApart'
<1>1. TypeOK /\ FramesRun /\ FramesApart /\ ThreadShape(w)
  BY DEF ChanInv, StealInv
<1>2. /\ stack[w] \in Seq(Coros) /\ stack[w] # <<>> /\ Running(w) \in Coros
      /\ \A i \in 1..Len(stack[w]) : stack[w][i] \in Coros
  BY <1>1, StackTop DEF ThreadShape, InBody, TypeOK
<1>3. /\ stack'[w] = Front(stack[w]) /\ pc'[w] \in {"main", "exec"}
      /\ \A v \in Workers : v # w => pc'[v] = pc[v] /\ stack'[v] = stack[v]
  BY <1>1 DEF SpawnReturn, Go, TypeOK
<1>4. \A i \in 1..Len(stack'[w]) :
          /\ i \in 1..Len(stack[w]) /\ i < Len(stack[w]) /\ stack'[w][i] = stack[w][i]
  <2>1. /\ Len(stack[w]) \in Nat \ {0} /\ Front(stack[w]) = SubSeq(stack[w], 1, Len(stack[w]) - 1)
    BY <1>2 DEF Front
  <2> QED
    BY <1>2, <1>3, <2>1
<1>5. \A i \in 1..Len(stack'[w]) : OnStack(w, i) /\ frame[stack[w][i]] = "executing"
  BY <1>1, <1>4 DEF OnStack, FramesRun, At
<1>6. /\ \A c \in Coros : c # Running(w) => frame'[c] = frame[c]
      /\ \/ frame'[Running(w)] = frame[Running(w)]
         \/ frame[Running(w)] = "final" /\ frame'[Running(w)] = "destroyed"
  <2>1. frame \in [Coros -> Frames]
    BY <1>1 DEF TypeOK
  <2> QED
    BY <1>2, <2>1
<1>7. \A i \in 1..Len(stack'[w]) : frame'[stack'[w][i]] = "executing"
  BY <1>2, <1>4, <1>5, <1>6
<1> QED
  BY <1>1, <1>3, <1>4, <1>5, <1>6, <1>7, StackStep

LEMMA SpawnedChan ==
    ASSUME ChanInv, TypeOK', NEW w \in Workers,
           SpawnedDone(w) \/ SpawnedParked(w) \/ SpawnedReady(w) \/ SpawnedCount(w)
    PROVE  ChanMoves /\ ChanRest'
<1>1. /\ TypeOK /\ FramesRun /\ FramesApart /\ ThreadShape(w) /\ IntentWaits /\ WorkersTogether
      /\ SendersWaitWhenFull /\ OthersOff
  BY DEF ChanInv, StealInv
<1>2. ASSUME NEW v \in Workers, intent[v] # NoIntent, pc[w] \notin {"off", "suspend"}
      PROVE  /\ v = w /\ w = 0 /\ At(w, "spawned") /\ frame[Running(w)] # "final"
             /\ intent[w].kind = "send" => ~Room(chan[intent[w].ch], Cap[intent[w].ch])
  BY <1>1, <1>2 DEF IntentWaits, OthersOff, At
<1>3. CASE SpawnedDone(w)
  <2>1. /\ At(w, "spawned") /\ SpawnReturn(w) /\ frame[Running(w)] = "final"
        /\ frame' = [frame EXCEPT ![Running(w)] = "destroyed"]
        /\ UNCHANGED <<chan, intent, wid>>
    BY <1>3 DEF SpawnedDone, Complete
  <2>2. \A v \in Workers : intent[v] = NoIntent
    BY <1>2, <2>1 DEF At
  <2>3. FramesRun' /\ FramesApart'
    BY <2>1, ReturnFrames DEF At
  <2> QED
    BY <1>1, <2>1, <2>2, <2>3
    DEF ChanRest, ChanMoves, IntentWaits, WorkersTogether, SendersWaitWhenFull
<1>4. CASE SpawnedCount(w)
  <2>1. /\ At(w, "spawnedQ") /\ SpawnReturn(w) /\ UNCHANGED <<frame, chan, intent, wid>>
    BY <1>4 DEF SpawnedCount, flags, coros
  <2>2. \A v \in Workers : intent[v] = NoIntent
    BY <1>2, <2>1 DEF At
  <2>3. FramesRun' /\ FramesApart'
    BY <2>1, ReturnFrames DEF At
  <2> QED
    BY <1>1, <2>1, <2>2, <2>3
    DEF ChanRest, ChanMoves, IntentWaits, WorkersTogether, SendersWaitWhenFull
<1>5. CASE SpawnedReady(w)
  <2>1. /\ At(w, "spawned") /\ UNCHANGED <<frame, chan, intent, wid, stack>>
        /\ intent[w] = NoIntent /\ pc'[w] = "spawnedQ"
        /\ \A v \in Workers : v # w => pc'[v] = pc[v]
    BY <1>1, <1>5 DEF SpawnedReady, PushReady, At, Go, TypeOK
  <2>2. \A v \in Workers : intent[v] = NoIntent
    BY <1>2, <2>1 DEF At
  <2>3. FramesRun' /\ FramesApart'
    <3>1. ASSUME NEW i, OnStack(w, i)'
          PROVE  OnStack(w, i) /\ i # Len(stack[w])
      BY <2>1, <3>1 DEF OnStack, At
    <3>2. ASSUME NEW i \in 1..Len(stack'[w]), OnStack(w, i)'
          PROVE  frame'[stack'[w][i]] = "executing"
      BY <1>1, <2>1, <3>1, <3>2 DEF FramesRun, At
    <3> QED
      BY <1>1, <2>1, <3>1, <3>2, StackStep
  <2> QED
    BY <1>1, <2>1, <2>2, <2>3
    DEF ChanRest, ChanMoves, IntentWaits, WorkersTogether, SendersWaitWhenFull
<1>6. CASE SpawnedParked(w)
  <2>1. /\ At(w, "spawned") /\ SpawnReturn(w) /\ UNCHANGED <<frame, wid>>
        /\ intent[w] # NoIntent /\ intent' = [intent EXCEPT ![w] = NoIntent]
        /\ chan' = [chan EXCEPT ![intent[w].ch] =
              IF intent[w].kind = "recv" THEN ParkedReceiver(@, Running(w))
              ELSE ParkedSender(@, Running(w), intent[w].val)]
    BY <1>6 DEF SpawnedParked, SpawnedParkedLive
  <2>2. /\ intent[w].kind = "send" => ~Room(chan[intent[w].ch], Cap[intent[w].ch])
        /\ \A v \in Workers : v # w => intent[v] = NoIntent
    BY <1>2, <2>1 DEF At
  <2>3. \A v \in Workers : intent'[v] = NoIntent
    <3>1. intent \in [Workers -> Intents]
      BY <1>1 DEF TypeOK
    <3> QED
      BY <2>1, <2>2, <3>1
  <2>4. FramesRun' /\ FramesApart'
    BY <2>1, ReturnFrames DEF At
  <2>5. ChanMoves
    <3>1. Running(w) \in Coros
      BY <1>1, <2>1, StackTop DEF ThreadShape, InBody, At
    <3>2. \/ intent[w].kind = "recv" /\ intent[w].ch \in Channels
          \/ intent[w].kind = "send" /\ intent[w].ch \in Channels /\ intent[w].val \in Values
      <4>1. intent[w] \in Intents
        BY <1>1 DEF TypeOK
      <4> QED
        BY <2>1, <4>1 DEF Intents
    <3> QED
      BY <2>1, <2>2, <3>1, <3>2 DEF ChanMoves
  <2>6. SendersWaitWhenFull'
    BY <1>1, <2>5, MovesFull
  <2> QED
    BY <1>1, <2>1, <2>3, <2>4, <2>5, <2>6 DEF ChanRest, IntentWaits, WorkersTogether
<1> QED
  BY <1>3, <1>4, <1>5, <1>6

-----------------------------------------------------------------------------
(* Every step.                                                               *)
LEMMA RampStartsChan ==
    ASSUME ChanInv, TypeOK', NEW w \in Workers,
           ExecSpawn(w) \/ (w = 0 /\ MainSpawn)
    PROVE  ChanMoves /\ ChanRest'
<1>1. TypeOK /\ ThreadShape(w)
  BY DEF ChanInv, StealInv
<1>2. CASE ExecSpawn(w)
  <2>1. Running(w) \in Coros /\ At(w, "exec") /\ Current(Running(w)).op = "spawn"
    BY <1>1, <1>2, RunningType DEF ExecSpawn, Executing, ThreadShape, InBody, At
  <2>2. Current(Running(w)).co \in Coros
    BY <1>1, <2>1, CurrentType
  <2> QED
    BY <1>2, <2>1, <2>2, RampChan DEF ExecSpawn, At
<1>3. CASE w = 0 /\ MainSpawn
  <2>1. prog.main[mainIp].co \in Coros
    <3>1. prog.main \in Seq(MainCall) /\ mainIp \in Nat \ {0}
      BY <1>1, ProgramsAssumption DEF TypeOK
    <3>2. prog.main[mainIp] \in MainCall /\ prog.main[mainIp].op = "spawn"
      BY <1>3, <3>1 DEF MainSpawn, MainCalls
    <3> QED
      BY <3>2 DEF MainCall
  <2>2. At(w, "main") /\ StartRamp(w, prog.main[mainIp].co)
    BY <1>3 DEF MainSpawn, MainCalls
  <2> QED
    BY <2>1, <2>2, RampChan DEF At
<1> QED
  BY <1>2, <1>3

LEMMA TransferChan ==
    ASSUME ChanInv, TypeOK', NEW w \in Workers,
           ExecSend(w) \/ ParkSend(w) \/ ExecRecv(w) \/ ParkRecv(w)
    PROVE  ChanMoves /\ ChanRest'
<1>1. ChanMoves /\ Bodily(w) /\ IntentWaits'
  BY SendMoves, RecvMoves
<1>2. SendersWaitWhenFull'
  BY <1>1, MovesFull DEF ChanInv, StealInv
<1> QED
  BY <1>1, <1>2, BodilyFrames DEF ChanRest

\* run_all begins and ends with every thread outside any frame.
LEMMA WorkersChan ==
    ASSUME ChanInv, MainRun \/ MainJoin
    PROVE  ChanMoves /\ ChanRest'
<1>1. /\ TypeOK /\ (\A w \in Workers : ThreadShape(w)) /\ OthersOff /\ IntentWaits
      /\ SendersWaitWhenFull
  BY DEF ChanInv, StealInv
<1>2. UNCHANGED <<stack, frame, chan, intent>> /\ \A v \in Workers : wid'[v] = wid'[0]
  <2>1. UNCHANGED <<stack, frame, chan, intent>>
    BY DEF MainRun, MainJoin, coros
  <2>2. (\A v \in Workers : wid'[v]) \/ (\A v \in Workers : ~wid'[v])
    BY DEF MainRun, MainJoin
  <2>3. wid' \in [Workers -> BOOLEAN]
    BY DEF MainRun, MainJoin
  <2> QED
    BY <2>1, <2>2, <2>3, ZeroIsWorker
<1>3. \A w \in Workers : pc[w] \in {"main", "off", "stopped"}
  BY <1>1, ZeroIsWorker DEF MainRun, MainJoin, MainCalls, OthersOff, ThreadShape, At
<1>4. \A w \in Workers : stack[w] = <<>> /\ intent[w] = NoIntent
  BY <1>1, <1>3, ZeroIsWorker DEF ThreadShape, InBody, IntentWaits
<1>5. FramesRun' /\ FramesApart'
  <2>1. \A w \in Workers : Len(stack'[w]) = 0
    BY <1>2, <1>4
  <2> QED
    BY <2>1 DEF FramesRun, FramesApart
<1>6. IntentWaits' /\ WorkersTogether' /\ SendersWaitWhenFull'
  BY <1>1, <1>2, <1>4, ZeroIsWorker DEF IntentWaits, WorkersTogether, SendersWaitWhenFull
<1> QED
  BY <1>2, <1>5, <1>6 DEF ChanRest, ChanMoves

LEMMA CalmChan ==
    ASSUME ChanInv, TypeOK', NEW w \in Workers, Calm(w)
    PROVE  ChanMoves /\ ChanRest'
BY CalmStep DEF Calm, ChanMoves

LEMMA CalmMain ==
    ASSUME StealInv, MainAwait \/ MainEnd
    PROVE  Calm(0)
<1>1. TypeOK
  BY DEF StealInv
<1> QED
  BY <1>1, ZeroIsWorker
  DEF MainAwait, MainEnd, MainCalls, Calm, At, Go, TypeOK, shared, locals, coros

\* A step that moves no thread.
LEMMA StillChan ==
    ASSUME ChanInv, UNCHANGED <<pc, stack, frame, chan, intent, wid, cur>>
    PROVE  ChanMoves /\ ChanRest'
<1>1. FramesRun' /\ FramesApart'
  BY DEF ChanInv, FramesRun, FramesApart, OnStack, At
<1>2. IntentWaits' /\ WorkersTogether' /\ SendersWaitWhenFull'
  BY DEF ChanInv, IntentWaits, WorkersTogether, SendersWaitWhenFull, Running
<1> QED
  BY <1>1, <1>2 DEF ChanRest, ChanMoves

LEMMA StepChan ==
    ASSUME ChanInv, TypeOK', NEW w \in Workers, Step(w)
    PROVE  ChanMoves /\ ChanRest'
<1>1. StealInv
  BY DEF ChanInv
<1>2. CASE Pick(w)
  BY <1>1, <1>2, CalmPick, CalmChan
<1>3. CASE Idle(w)
  BY <1>1, <1>3, CalmIdle, CalmChan
<1>4. CASE Exec(w)
  <2>1. CASE \/ ExecYield(w) \/ ExecAwait(w) \/ WakeNext(w) \/ WakeLocal(w) \/ WakeGlobal(w)
             \/ WokenCount(w) \/ CancelNothing(w) \/ CancelDequeue(w) \/ CancelUncount(w)
    BY <1>1, <2>1, CalmExec, CalmChan
  <2>2. CASE ExecReturn(w)
    BY <2>2, ReturnChan
  <2>3. CASE ExecSpawn(w)
    BY <2>3, RampStartsChan
  <2>4. CASE ExecSend(w) \/ ParkSend(w) \/ ExecRecv(w) \/ ParkRecv(w)
    BY <2>4, TransferChan
  <2>5. CASE CancelDestroy(w)
    BY <2>5, DestroyChan
  <2> QED
    BY <1>4, <2>1, <2>2, <2>3, <2>4, <2>5 DEF Exec
<1>5. CASE RunOne(w)
  <2>1. CASE \/ ResumeUndefined(w) \/ Fin1(w) \/ Fin2(w) \/ AfterParked(w) \/ AfterRequeue(w)
             \/ RequeuedCount(w) \/ RequeuedStop(w)
    BY <1>1, <2>1, CalmRunOne, CalmChan
  <2>2. CASE Resume(w)
    BY <2>2, ResumeChan
  <2>3. CASE Suspend(w)
    BY <2>3, SuspendChan
  <2>4. CASE AfterDone(w)
    BY <2>4, AfterDoneChan
  <2>5. CASE SpawnedDone(w) \/ SpawnedParked(w) \/ SpawnedReady(w) \/ SpawnedCount(w)
    BY <2>5, SpawnedChan
  <2> QED
    BY <1>5, <2>1, <2>2, <2>3, <2>4, <2>5 DEF RunOne
<1> QED
  BY <1>2, <1>3, <1>4, <1>5 DEF Step

LEMMA InitChanInv == Init => ChanInv
<1> SUFFICES ASSUME Init PROVE ChanInv
  OBVIOUS
<1>1. \A w \in Workers : stack[w] = <<>> /\ ~wid[w] /\ intent[w] = NoIntent
  BY DEF Init
<1>2. FramesRun /\ FramesApart /\ WorkersTogether /\ IntentWaits
  <2>1. FramesRun /\ FramesApart
    BY <1>1 DEF FramesRun, FramesApart
  <2>2. wid = [w \in Workers |-> FALSE]
    BY DEF Init
  <2> QED
    BY <1>1, <2>1, <2>2, ZeroIsWorker DEF WorkersTogether, IntentWaits
<1>3. SendersWaitWhenFull
  <2>1. \A k \in Channels : chan[k].buf = <<>> /\ chan[k].swait = <<>> /\ Cap[k] \in Nat
    BY CapAssumption DEF Init, EmptyChan
  <2> QED
    BY <2>1 DEF SendersWaitWhenFull
<1> QED
  BY <1>2, <1>3, InitStealInv DEF ChanInv

LEMMA NextChan ==
    ASSUME ChanInv, [Next]_vars
    PROVE  ChanMoves /\ ChanInv'
<1>1. StealInv' /\ TypeOK'
  BY NextInv DEF ChanInv, StealInv
<1> SUFFICES ChanMoves /\ ChanRest'
  BY <1>1 DEF ChanInv, ChanRest
<1>2. ASSUME NEW w \in Workers, Step(w)
      PROVE  ChanMoves /\ ChanRest'
  BY <1>1, <1>2, StepChan
<1>3. CASE Main
  <2>1. CASE MainSpawn
    <3>1. 0 \in Workers /\ 0 = 0
      BY ZeroIsWorker
    <3> QED
      BY <1>1, <2>1, <3>1, RampStartsChan
  <2>2. CASE MainRun \/ MainJoin
    BY <2>2, WorkersChan
  <2>3. CASE MainAwait \/ MainEnd
    BY <1>1, <2>3, ZeroIsWorker, CalmMain, CalmChan DEF ChanInv
  <2> QED
    BY <1>3, <2>1, <2>2, <2>3 DEF Main
<1>4. ASSUME NEW c \in Coros, TimePasses(c)
      PROVE  ChanMoves /\ ChanRest'
  <2>1. UNCHANGED <<pc, stack, frame, chan, intent, wid, cur>>
    BY <1>4 DEF TimePasses, locals
  <2> QED
    BY <2>1, StillChan
<1>5. CASE UNCHANGED vars
  <2>1. UNCHANGED <<pc, stack, frame, chan, intent, wid, cur>>
    BY <1>5 DEF vars, shared, coros, locals
  <2> QED
    BY <2>1, StillChan
<1>6. ChanMoves /\ ChanRest'
  BY <1>2, <1>3, <1>4, <1>5 DEF Next, Terminated
<1> QED
  BY <1>6

\* The conjunction that SendersWaitWhenFull needs: who executes a frame, and
\* that the main thread registers a parked ramp before anybody can make room.
THEOREM ChannelInvariant == Spec => []ChanInv
<1>1. ChanInv /\ [Next]_vars => ChanInv'
  BY NextChan
<1> QED
  BY <1>1, InitChanInv, PTL DEF Spec

\* A bounded channel never holds more than its capacity, and a sender is
\* parked only while it is full, whatever the programs, the workers and the
\* capacities (park_send's second look and the promotion in try_recv).
THEOREM SendersOnlyWaitWhenFull == Spec => []SendersWaitWhenFull
<1>1. ChanInv => SendersWaitWhenFull
  BY DEF ChanInv
<1> QED
  BY <1>1, ChannelInvariant, PTL

-----------------------------------------------------------------------------
(* The refinement: a channel, its parked senders included, is a FIFO queue.  *)
Parcel == [co : Coros, val : Values]
ValuesOf(s) == [i \in 1..Len(s) |-> s[i].val]
PendingOf(ch) == ch.buf \o ValuesOf(ch.swait)

LEMMA ValuesOfType ==
    ASSUME NEW s \in Seq(Parcel)
    PROVE  /\ ValuesOf(s) \in Seq(Values) /\ Len(ValuesOf(s)) = Len(s)
           /\ \A i \in 1..Len(s) : ValuesOf(s)[i] = s[i].val
           /\ s = <<>> => ValuesOf(s) = <<>>
<1>1. /\ Len(s) \in Nat /\ \A i \in 1..Len(s) : s[i].val \in Values
  <2>1. \A i \in 1..Len(s) : s[i] \in Parcel
    BY ElementOfSeq
  <2> QED
    BY <2>1 DEF Parcel
<1>2. ValuesOf(s) \in [1..Len(s) -> Values]
  BY <1>1 DEF ValuesOf
<1>3. ValuesOf(s) \in Seq(Values)
  <2>1. Seq(Values) = UNION {[1..n -> Values] : n \in Nat}
    BY SeqDef
  <2> QED
    BY <1>1, <1>2, <2>1
<1>4. Len(ValuesOf(s)) = Len(s)
  BY <1>1, <1>2, <1>3, LenProperties
<1>5. s = <<>> => ValuesOf(s) = <<>>
  BY <1>3, <1>4, EmptySeq
<1> QED
  BY <1>1, <1>3, <1>4, <1>5 DEF ValuesOf

LEMMA SumPositive ==
    ASSUME NEW m \in Nat \ {0}, NEW n \in Nat
    PROVE  m + n # 0
OBVIOUS

LEMMA WithinSum ==
    ASSUME NEW m \in Nat, NEW n \in Nat
    PROVE  /\ \A i \in 1..m : i \in 1..(m + n) /\ i <= m
           /\ \A i \in 1..n : m + i \in 1..(m + n) /\ ~(m + i <= m) /\ (m + i) - m = i
OBVIOUS

LEMMA ChanParts ==
    ASSUME NEW ch \in ChanType(Coros, Values)
    PROVE  /\ ch.buf \in Seq(Values) /\ ch.swait \in Seq(Parcel)
           /\ PendingOf(ch) \in Seq(Values)
           /\ Len(PendingOf(ch)) = Len(ch.buf) + Len(ch.swait)
           /\ \A i \in 1..Len(ch.buf) : PendingOf(ch)[i] = ch.buf[i]
           /\ \A i \in 1..Len(ch.swait) : PendingOf(ch)[Len(ch.buf) + i] = ch.swait[i].val
<1>1. ch.buf \in Seq(Values) /\ ch.swait \in Seq(Parcel)
  BY DEF ChanType, Parcel
<1>2. /\ ValuesOf(ch.swait) \in Seq(Values) /\ Len(ValuesOf(ch.swait)) = Len(ch.swait)
      /\ \A i \in 1..Len(ch.swait) : ValuesOf(ch.swait)[i] = ch.swait[i].val
      /\ Len(ch.buf) \in Nat /\ Len(ch.swait) \in Nat
  BY <1>1, ValuesOfType, LenProperties
<1>3. /\ PendingOf(ch) \in Seq(Values)
      /\ Len(PendingOf(ch)) = Len(ch.buf) + Len(ValuesOf(ch.swait))
      /\ \A i \in 1..(Len(ch.buf) + Len(ValuesOf(ch.swait))) :
            PendingOf(ch)[i] = IF i <= Len(ch.buf) THEN ch.buf[i]
                               ELSE ValuesOf(ch.swait)[i - Len(ch.buf)]
  BY <1>1, <1>2, ConcatProperties, Zenon DEF PendingOf
<1>4. /\ \A i \in 1..Len(ch.buf) :
            i \in 1..(Len(ch.buf) + Len(ch.swait)) /\ i <= Len(ch.buf)
      /\ \A i \in 1..Len(ch.swait) :
            /\ Len(ch.buf) + i \in 1..(Len(ch.buf) + Len(ch.swait))
            /\ ~(Len(ch.buf) + i <= Len(ch.buf)) /\ (Len(ch.buf) + i) - Len(ch.buf) = i
  BY <1>2, WithinSum, Zenon
<1>5. \A i \in 1..Len(ch.buf) : PendingOf(ch)[i] = ch.buf[i]
  BY <1>2, <1>3, <1>4, Zenon
<1>6. \A i \in 1..Len(ch.swait) : PendingOf(ch)[Len(ch.buf) + i] = ch.swait[i].val
  BY <1>2, <1>3, <1>4, Zenon
<1> QED
  BY <1>1, <1>2, <1>3, <1>5, <1>6

LEMMA PendingPushed ==
    ASSUME NEW ch \in ChanType(Coros, Values), NEW v \in Values, ch.swait = <<>>
    PROVE  PendingOf(Pushed(ch, v)) = Append(PendingOf(ch), v)
<1>1. ch.buf \in Seq(Values) /\ Append(ch.buf, v) \in Seq(Values) /\ ValuesOf(ch.swait) = <<>>
  BY ValuesOfType, ChanParts, AppendProperties
<1>2. Pushed(ch, v).buf = Append(ch.buf, v) /\ Pushed(ch, v).swait = ch.swait
  BY DEF Pushed, ChanType
<1> QED
  BY <1>1, <1>2, ConcatEmptySeq DEF PendingOf

\* The same values one place further on: a parcel's value moved to the buffer.
LEMMA ShiftedValues ==
    ASSUME NEW p \in Seq(Values), NEW q \in Seq(Values),
           NEW m \in Nat \ {0}, NEW n \in Nat \ {0}, Len(p) = m + n, Len(q) = m + (n - 1),
           \A i \in 1..(m - 1) : q[i] = p[i + 1], q[m] = p[m + 1],
           \A i \in 1..(n - 1) : q[m + i] = p[m + (i + 1)]
    PROVE  q = Tail(p)
<1>1. p # <<>>
  BY SumPositive, EmptySeq
<1>2. /\ Tail(p) \in Seq(Values) /\ Len(Tail(p)) = m + (n - 1)
      /\ \A i \in 1..(m + (n - 1)) : Tail(p)[i] = p[i + 1]
  <2>1. /\ Tail(p) \in Seq(Values) /\ Len(Tail(p)) = Len(p) - 1
        /\ \A i \in 1..Len(Tail(p)) : Tail(p)[i] = p[i + 1]
    BY <1>1, HeadTailProperties
  <2> QED
    BY <2>1
<1>3. ASSUME NEW i \in 1..(m + (n - 1))
      PROVE  q[i] = p[i + 1]
  <2>1. CASE i < m
    BY <2>1
  <2>2. CASE i = m
    BY <2>2
  <2>3. CASE i > m
    <3>1. PICK j \in 1..(n - 1) : i = m + j
      <4>1. i - m \in 1..(n - 1) /\ i = m + (i - m)
        BY <2>3
      <4> QED
        BY <4>1
    <3>2. i + 1 = m + (j + 1)
      BY <3>1
    <3> QED
      BY <3>1, <3>2
  <2> QED
    BY <2>1, <2>2, <2>3
<1> QED
  BY <1>2, <1>3, SeqEqual

LEMMA PendingPopped ==
    ASSUME NEW ch \in ChanType(Coros, Values), ch.buf # <<>>
    PROVE  PendingOf(ch) # <<>> /\ PendingOf(Popped(ch)) = Tail(PendingOf(ch))
<1> DEFINE b == ch.buf
           s == ch.swait
           p == PendingOf(ch)
           q == PendingOf(Popped(ch))
<1>1. /\ b \in Seq(Values) /\ s \in Seq(Parcel) /\ p \in Seq(Values)
      /\ Len(b) \in Nat \ {0} /\ Len(s) \in Nat
      /\ Len(p) = Len(b) + Len(s)
      /\ \A i \in 1..Len(b) : p[i] = b[i]
      /\ \A i \in 1..Len(s) : p[Len(b) + i] = s[i].val
  BY ChanParts, EmptySeq, LenProperties
<1>2. Popped(ch) \in ChanType(Coros, Values)
  BY PoppedType
<1>3. p # <<>>
  <2>1. Len(p) # 0
    BY <1>1, SumPositive, Zenon
  <2> QED
    BY <2>1, EmptySeq
<1>4. /\ Tail(b) \in Seq(Values) /\ Len(Tail(b)) = Len(b) - 1
      /\ \A i \in 1..Len(Tail(b)) : Tail(b)[i] = b[i + 1]
  BY <1>1, HeadTailProperties
<1>5. CASE s = <<>>
  <2>1. Popped(ch).buf = Tail(b) /\ Popped(ch).swait = <<>>
    BY <1>5 DEF Popped, ChanType
  <2>2. p = b /\ q = Tail(b)
    BY <1>1, <1>4, <1>5, <2>1, ValuesOfType, ConcatEmptySeq DEF PendingOf
  <2> QED
    BY <1>3, <2>2
<1>6. CASE s # <<>>
  <2> DEFINE bb == Popped(ch).buf
             m == Len(b)
             n == Len(s)
  <2>1. /\ Head(s) \in Parcel /\ Head(s) = s[1] /\ Tail(s) \in Seq(Parcel)
        /\ Len(Tail(s)) = n - 1 /\ n \in Nat \ {0}
        /\ \A i \in 1..Len(Tail(s)) : Tail(s)[i] = s[i + 1]
    BY <1>1, <1>6, HeadTailProperties, EmptySeq
  <2>2. Head(s).val \in Values
    BY <2>1 DEF Parcel
  <2>3. bb = Append(Tail(b), Head(s).val) /\ Popped(ch).swait = Tail(s)
    BY <1>6 DEF Popped
  <2>4. /\ bb \in Seq(Values) /\ Len(bb) = m
        /\ \A i \in 1..(m - 1) : bb[i] = b[i + 1]
        /\ bb[m] = s[1].val
    BY <1>1, <1>4, <2>1, <2>2, <2>3, AppendProperties
  <2>5. /\ q \in Seq(Values) /\ Len(q) = m + (n - 1)
        /\ \A i \in 1..m : q[i] = bb[i]
        /\ \A i \in 1..(n - 1) : q[m + i] = Tail(s)[i].val
    <3>1. /\ q \in Seq(Values) /\ Len(q) = Len(bb) + Len(Tail(s))
          /\ \A i \in 1..Len(bb) : q[i] = bb[i]
          /\ \A i \in 1..Len(Tail(s)) : q[Len(bb) + i] = Tail(s)[i].val
      BY <1>2, <2>3, ChanParts, Zenon
    <3> QED
      BY <2>1, <2>4, <3>1, Zenon
  <2>6. m \in Nat \ {0} /\ Len(p) = m + n /\ \A i \in 1..(n - 1) : Tail(s)[i] = s[i + 1]
    BY <1>1, <2>1
  <2>7. p \in Seq(Values) /\ (\A i \in 1..m : p[i] = b[i]) /\ \A i \in 1..n : p[m + i] = s[i].val
    BY <1>1
  <2>8. n \in Nat \ {0}
    BY <2>1
  <2> HIDE DEF bb, m, n, p, q, b, s
  <2>9. \A i \in 1..(m - 1) : q[i] = p[i + 1]
    <3>1. \A i \in 1..(m - 1) : i \in 1..m /\ i + 1 \in 1..m
      BY <2>6
    <3> QED
      BY <2>4, <2>5, <2>7, <3>1, Zenon
  <2>10. q[m] = p[m + 1]
    <3>1. m \in 1..m /\ 1 \in 1..n
      BY <2>6, <2>8
    <3> QED
      BY <2>4, <2>5, <2>7, <3>1, Zenon
  <2>11. \A i \in 1..(n - 1) : q[m + i] = p[m + (i + 1)]
    <3>1. \A i \in 1..(n - 1) : i + 1 \in 1..n
      BY <2>8
    <3> QED
      BY <2>5, <2>6, <2>7, <3>1, ZenonT(30)
  <2>12. q = Tail(p)
    BY <2>5, <2>6, <2>7, <2>8, <2>9, <2>10, <2>11, ShiftedValues
  <2> QED
    BY <1>3, <2>12 DEF p, q
<1> QED
  BY <1>5, <1>6

LEMMA PendingParked ==
    ASSUME NEW ch \in ChanType(Coros, Values), NEW c \in Coros, NEW v \in Values
    PROVE  /\ PendingOf(ParkedReceiver(ch, c)) = PendingOf(ch)
           /\ PendingOf(ParkedSender(ch, c, v)) = Append(PendingOf(ch), v)
<1> DEFINE r == [co |-> c, val |-> v]
<1>1. /\ ch.buf \in Seq(Values) /\ ch.swait \in Seq(Parcel) /\ r \in Parcel
      /\ Len(ch.swait) \in Nat
  BY ChanParts, LenProperties DEF Parcel
<1>2. /\ ParkedReceiver(ch, c).buf = ch.buf /\ ParkedReceiver(ch, c).swait = ch.swait
      /\ ParkedSender(ch, c, v).buf = ch.buf
      /\ ParkedSender(ch, c, v).swait = Append(ch.swait, r)
  BY DEF ParkedReceiver, ParkedSender, ChanType
<1>3. ValuesOf(Append(ch.swait, r)) = Append(ValuesOf(ch.swait), v)
  <2> DEFINE t == Append(ch.swait, r)
  <2>1. /\ t \in Seq(Parcel) /\ Len(t) = Len(ch.swait) + 1
        /\ \A i \in 1..Len(ch.swait) : t[i] = ch.swait[i]
        /\ t[Len(ch.swait) + 1] = r
    BY <1>1, AppendProperties
  <2>2. /\ ValuesOf(t) \in Seq(Values) /\ Len(ValuesOf(t)) = Len(ch.swait) + 1
        /\ \A i \in 1..(Len(ch.swait) + 1) : ValuesOf(t)[i] = t[i].val
    BY <2>1, ValuesOfType
  <2>3. /\ ValuesOf(ch.swait) \in Seq(Values) /\ Len(ValuesOf(ch.swait)) = Len(ch.swait)
        /\ \A i \in 1..Len(ch.swait) : ValuesOf(ch.swait)[i] = ch.swait[i].val
    BY <1>1, ValuesOfType
  <2>4. /\ Append(ValuesOf(ch.swait), v) \in Seq(Values)
        /\ Len(Append(ValuesOf(ch.swait), v)) = Len(ch.swait) + 1
        /\ \A i \in 1..Len(ch.swait) : Append(ValuesOf(ch.swait), v)[i] = ch.swait[i].val
        /\ Append(ValuesOf(ch.swait), v)[Len(ch.swait) + 1] = v
    BY <2>3, AppendProperties
  <2>5. ASSUME NEW i \in 1..Len(ValuesOf(t))
        PROVE  ValuesOf(t)[i] = Append(ValuesOf(ch.swait), v)[i]
    <3>1. i \in 1..Len(ch.swait) \/ i = Len(ch.swait) + 1
      BY <1>1, <2>2, <2>5
    <3>2. r.val = v
      OBVIOUS
    <3> QED
      BY <1>1, <2>1, <2>2, <2>4, <3>1, <3>2
  <2> QED
    BY <2>2, <2>4, <2>5, SeqEqual
<1>4. ch.buf \o Append(ValuesOf(ch.swait), v) = Append(ch.buf \o ValuesOf(ch.swait), v)
  <2>1. ValuesOf(ch.swait) \in Seq(Values) /\ <<v>> \in Seq(Values)
    BY <1>1, ValuesOfType
  <2>2. ch.buf \o ValuesOf(ch.swait) \in Seq(Values)
    BY <1>1, <2>1, ConcatProperties
  <2>3. /\ Append(ValuesOf(ch.swait), v) = ValuesOf(ch.swait) \o <<v>>
        /\ Append(ch.buf \o ValuesOf(ch.swait), v) = (ch.buf \o ValuesOf(ch.swait)) \o <<v>>
    BY <2>1, <2>2, AppendIsConcat
  <2>4. \A r1, r2, r3 \in Seq(Values) : (r1 \o r2) \o r3 = r1 \o (r2 \o r3)
    BY ConcatAssociative
  <2>5. ch.buf \o (ValuesOf(ch.swait) \o <<v>>) = (ch.buf \o ValuesOf(ch.swait)) \o <<v>>
    BY <1>1, <2>1, <2>4, Zenon
  <2> QED
    BY <2>3, <2>5, Zenon
<1> QED
  BY <1>2, <1>3, <1>4 DEF PendingOf

\* The queues a channel stands for.
Queue == [k \in Channels |-> Pending(k)]

LEMMA QueueIs == Queue = [k \in Channels |-> PendingOf(chan[k])]
  BY DEF Queue, Pending, PendingOf, ValuesOf

LEMMA QueueInit == Init => Queue = [k \in Channels |-> <<>>]
<1> SUFFICES ASSUME Init PROVE Queue = [k \in Channels |-> <<>>]
  OBVIOUS
<1>1. ASSUME NEW k \in Channels
      PROVE  PendingOf(chan[k]) = <<>>
  <2>1. chan[k] = EmptyChan
    BY DEF Init
  <2>2. EmptyChan.buf = <<>> /\ EmptyChan.swait = <<>> /\ <<>> \in Seq(Values) /\ <<>> \in Seq(Parcel)
    BY DEF EmptyChan
  <2>3. ValuesOf(<<>>) = <<>>
    BY <2>2, ValuesOfType
  <2> QED
    BY <2>1, <2>2, <2>3, ConcatEmptySeq DEF PendingOf
<1> QED
  BY <1>1, QueueIs, Zenon

LEMMA QueueMoves ==
    ASSUME TypeOK, SendersWaitWhenFull, ChanMoves
    PROVE  \/ Queue' = Queue
           \/ \E k \in Channels, v \in Values :
                 Queue' = [Queue EXCEPT ![k] = Append(Queue[k], v)]
           \/ \E k \in Channels :
                 Queue[k] # <<>> /\ Queue' = [Queue EXCEPT ![k] = Tail(Queue[k])]
<1>1. /\ chan \in [Channels -> ChanType(Coros, Values)]
      /\ \A k \in Channels : /\ chan[k] \in ChanType(Coros, Values) /\ Cap[k] \in Nat
                             /\ FullWait(chan[k], Cap[k])
  BY CapAssumption, FullWaits DEF TypeOK
<1>2. /\ Queue = [k \in Channels |-> PendingOf(chan[k])]
      /\ Queue' = [k \in Channels |-> PendingOf(chan'[k])]
  BY DEF Queue, Pending, PendingOf, ValuesOf
<1>3. CASE chan' = chan
  BY <1>2, <1>3
<1>4. ASSUME NEW j \in Channels, NEW x, chan' = [chan EXCEPT ![j] = x]
      PROVE  Queue' = [Queue EXCEPT ![j] = PendingOf(x)]
  BY <1>1, <1>2, <1>4
<1>5. ASSUME NEW j \in Channels
      PROVE  Queue[j] = PendingOf(chan[j])
  BY <1>2
<1>6. ASSUME NEW j \in Channels, NEW v \in Values, Room(chan[j], Cap[j]),
             chan' = [chan EXCEPT ![j] = Pushed(@, v)]
      PROVE  Queue' = [Queue EXCEPT ![j] = Append(Queue[j], v)]
  <2>1. chan[j].swait = <<>>
    BY <1>1, <1>6, PushedFull
  <2>2. PendingOf(Pushed(chan[j], v)) = Append(Queue[j], v)
    BY <1>1, <1>5, <2>1, PendingPushed
  <2>3. Queue' = [Queue EXCEPT ![j] = PendingOf(Pushed(chan[j], v))]
    BY <1>4, <1>6
  <2> QED
    BY <2>2, <2>3
<1>7. ASSUME NEW j \in Channels, chan[j].buf # <<>>, chan' = [chan EXCEPT ![j] = Popped(@)]
      PROVE  Queue[j] # <<>> /\ Queue' = [Queue EXCEPT ![j] = Tail(Queue[j])]
  <2>1. Queue[j] # <<>> /\ PendingOf(Popped(chan[j])) = Tail(Queue[j])
    BY <1>1, <1>5, <1>7, PendingPopped
  <2>2. Queue' = [Queue EXCEPT ![j] = PendingOf(Popped(chan[j]))]
    BY <1>4, <1>7
  <2> QED
    BY <2>1, <2>2
<1>8. ASSUME NEW j \in Channels, NEW c \in Coros,
             chan' = [chan EXCEPT ![j] = ParkedReceiver(@, c)]
      PROVE  Queue' = Queue
  <2>1. Queue' = [Queue EXCEPT ![j] = PendingOf(ParkedReceiver(chan[j], c))]
    BY <1>4, <1>8
  <2>2. PendingOf(ParkedReceiver(chan[j], c)) = Queue[j]
    <3>1. PendingOf(ParkedReceiver(chan[j], c)) = PendingOf(chan[j])
      BY <1>1, ValuesOfType DEF PendingOf, ParkedReceiver, ChanType
    <3> QED
      BY <1>5, <3>1
  <2> QED
    BY <1>2, <2>1, <2>2
<1>9. ASSUME NEW j \in Channels, NEW c \in Coros, NEW v \in Values,
             chan' = [chan EXCEPT ![j] = ParkedSender(@, c, v)]
      PROVE  Queue' = [Queue EXCEPT ![j] = Append(Queue[j], v)]
  <2>1. Queue' = [Queue EXCEPT ![j] = PendingOf(ParkedSender(chan[j], c, v))]
    BY <1>4, <1>9
  <2>2. PendingOf(ParkedSender(chan[j], c, v)) = Append(Queue[j], v)
    BY <1>1, <1>5, PendingParked
  <2> QED
    BY <2>1, <2>2
<1> QED
  BY <1>3, <1>6, <1>7, <1>8, <1>9 DEF ChanMoves

\* A channel implements a FIFO queue: under any programs, workers and
\* capacities every step of the scheduler adds one value at the end of one
\* queue, takes the oldest of one, or leaves them all alone.
THEOREM ChannelsImplementFifo == Spec => ChannelsAreFifo
<1>1. Init => Fifo!Init
  BY QueueInit DEF Fifo!Init, Queue
<1>2. ChanInv /\ [Next]_vars => [Fifo!Next]_Queue
  <2> SUFFICES ASSUME ChanInv, [Next]_vars PROVE [Fifo!Next]_Queue
    OBVIOUS
  <2>1. ChanMoves /\ TypeOK /\ SendersWaitWhenFull
    BY NextChan DEF ChanInv, StealInv
  <2> QED
    BY <2>1, QueueMoves DEF Fifo!Next, Fifo!Send, Fifo!Receive, Queue
<1> QED
  BY <1>1, <1>2, ChannelInvariant, PTL DEF Spec, ChannelsAreFifo, Fifo!Spec, Queue
=============================================================================
