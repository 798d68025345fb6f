-------------------------- MODULE CoroPlacesProofs --------------------------
(* Proofs about where the coroutines of a regular program are: each in one  *)
(* place, counted by the counters, woken for what comes; run_all stops when *)
(* none is left, and a single worker announces real dead-locks only.        *)
EXTENDS CoroSchedProofs, FiniteSetTheorems

-----------------------------------------------------------------------------
(* Lists without repetition.                                                 *)
Listed(s, c) == \E i \in DOMAIN s : s[i] = c
Distinct(s) == \A i, j \in DOMAIN s : s[i] = s[j] => i = j

\* t is s without c, or with c added.
Loses(s, t, c) ==
    /\ Listed(s, c) /\ Distinct(t)
    /\ \A d : Listed(t, d) <=> Listed(s, d) /\ d # c

Gains(s, t, c) ==
    /\ Distinct(t)
    /\ \A d : Listed(t, d) <=> Listed(s, d) \/ d = c

LEMMA AppendGains ==
    ASSUME NEW S, NEW s \in Seq(S), NEW e \in S, Distinct(s), ~Listed(s, e)
    PROVE  Gains(s, Append(s, e), e)
<1>1. PICK n \in Nat : n = Len(s)
  OBVIOUS
<1>2. /\ DOMAIN s = 1..n /\ DOMAIN Append(s, e) = 1..(n + 1)
      /\ \A i \in 1..n : Append(s, e)[i] = s[i]
      /\ Append(s, e)[n + 1] = e
  BY <1>1, AppendProperties
<1>3. \A i \in 1..(n + 1) : i \in 1..n \/ i = n + 1
  OBVIOUS
<1>4. n + 1 \in 1..(n + 1) /\ \A i \in 1..n : i \in 1..(n + 1)
  OBVIOUS
<1> DEFINE t == Append(s, e)
<1> HIDE DEF t
<1>5. /\ DOMAIN s = 1..n /\ DOMAIN t = 1..(n + 1)
      /\ \A i \in 1..n : t[i] = s[i]
      /\ t[n + 1] = e
  BY <1>2 DEF t
<1>6. Distinct(t)
  <2> SUFFICES ASSUME NEW i \in DOMAIN t, NEW j \in DOMAIN t, t[i] = t[j] PROVE i = j
    BY DEF Distinct
  <2>1. CASE i \in 1..n /\ j \in 1..n
    BY <1>5, <2>1 DEF Distinct
  <2>2. CASE i = n + 1 \/ j = n + 1
    BY <1>3, <1>5, <2>2 DEF Listed
  <2> QED
    BY <1>3, <1>5, <2>1, <2>2
<1>7. ASSUME NEW d PROVE Listed(t, d) <=> Listed(s, d) \/ d = e
  BY <1>3, <1>4, <1>5 DEF Listed
<1> QED
  BY <1>6, <1>7 DEF Gains, t

LEMMA TailLoses ==
    ASSUME NEW S, NEW s \in Seq(S), s # <<>>, Distinct(s)
    PROVE  Loses(s, Tail(s), Head(s))
<1>1. PICK n \in Nat : n = Len(s)
  OBVIOUS
<1> DEFINE t == Tail(s)
           h == Head(s)
<1>2. /\ n > 0 /\ DOMAIN s = 1..n /\ DOMAIN t = 1..(n - 1) /\ h = s[1]
      /\ \A i \in 1..(n - 1) : t[i] = s[i + 1]
  BY <1>1
<1> HIDE DEF t, h
<1>3. /\ 1 \in 1..n /\ \A i \in 1..(n - 1) : i + 1 \in 1..n /\ i + 1 # 1
      /\ \A i \in 1..n : i = 1 \/ (i - 1 \in 1..(n - 1) /\ (i - 1) + 1 = i)
      /\ \A i, j \in 1..(n - 1) : i + 1 = j + 1 => i = j
  BY <1>2
<1>4. Distinct(t)
  <2> SUFFICES ASSUME NEW i \in 1..(n - 1), NEW j \in 1..(n - 1), t[i] = t[j] PROVE i = j
    BY <1>2 DEF Distinct
  <2>1. s[i + 1] = s[j + 1] /\ i + 1 \in 1..n /\ j + 1 \in 1..n
    BY <1>2, <1>3
  <2>2. i + 1 = j + 1
    BY <1>2, <2>1 DEF Distinct
  <2> QED
    BY <1>3, <2>2
<1>5. ASSUME NEW d PROVE Listed(t, d) <=> Listed(s, d) /\ d # h
  <2>1. ASSUME Listed(t, d) PROVE Listed(s, d) /\ d # h
    <3>1. PICK i \in 1..(n - 1) : t[i] = d
      BY <1>2, <2>1 DEF Listed
    <3>2. i + 1 \in 1..n /\ i + 1 # 1 /\ s[i + 1] = d
      BY <1>2, <1>3, <3>1
    <3> QED
      BY <1>2, <1>3, <3>2 DEF Listed, Distinct
  <2>2. ASSUME Listed(s, d), d # h PROVE Listed(t, d)
    <3>1. PICK i \in 1..n : s[i] = d
      BY <1>2, <2>2 DEF Listed
    <3>2. i - 1 \in 1..(n - 1) /\ (i - 1) + 1 = i
      BY <1>2, <1>3, <2>2, <3>1
    <3>3. t[i - 1] = d
      BY <1>2, <3>1, <3>2
    <3> QED
      BY <1>2, <3>2, <3>3 DEF Listed
  <2> QED
    BY <2>1, <2>2
<1>6. Listed(s, h)
  BY <1>2, <1>3 DEF Listed
<1> QED
  BY <1>4, <1>5, <1>6 DEF Loses, t, h

\* Any element may leave: the others keep their order.
LEMMA RemoveLoses ==
    ASSUME NEW S, NEW s \in Seq(S), NEW k \in 1..Len(s), Distinct(s)
    PROVE  Loses(s, RemoveAt(s, k), s[k])
<1>1. PICK n \in Nat : n = Len(s)
  OBVIOUS
<1> DEFINE t == RemoveAt(s, k)
<1>2. /\ n > 0 /\ DOMAIN s = 1..n /\ DOMAIN t = 1..(n - 1)
      /\ \A i \in 1..(n - 1) : t[i] = IF i < k THEN s[i] ELSE s[i + 1]
  <2>1. k \in 1..n /\ n > 0 /\ DOMAIN s = 1..n
    BY <1>1
  <2>2. t = SubSeq(s, 1, k - 1) \o SubSeq(s, k + 1, n)
    BY <1>1 DEF RemoveAt
  <2>3. PICK a \in Seq(S), b \in Seq(S) :
           /\ a = SubSeq(s, 1, k - 1) /\ b = SubSeq(s, k + 1, n)
           /\ Len(a) = k - 1 /\ Len(b) = n - k
           /\ \A i \in 1..(k - 1) : a[i] = s[i]
           /\ \A i \in 1..(n - k) : b[i] = s[i + k]
    <3>1. SubSeq(s, 1, k - 1) \in Seq(S) /\ SubSeq(s, k + 1, n) \in Seq(S)
      BY <1>1, <2>1, SubSeqType
    <3>2. Len(SubSeq(s, 1, k - 1)) = k - 1 /\ Len(SubSeq(s, k + 1, n)) = n - k
      BY <1>1, <2>1
    <3>3. \A i \in 1..(k - 1) : SubSeq(s, 1, k - 1)[i] = s[i]
      BY <1>1, <2>1
    <3>4. \A i \in 1..(n - k) : SubSeq(s, k + 1, n)[i] = s[i + k]
      BY <1>1, <2>1
    <3> QED
      BY <3>1, <3>2, <3>3, <3>4
  <2>4. t = a \o b
    BY <2>2, <2>3
  <2>5. /\ Len(t) = n - 1 /\ DOMAIN t = 1..(n - 1)
        /\ \A i \in 1..(n - 1) : t[i] = IF i <= k - 1 THEN a[i] ELSE b[i - (k - 1)]
    <3> HIDE DEF t
    <3>1. Len(a \o b) = (k - 1) + (n - k) /\ (k - 1) + (n - k) = n - 1
      BY <2>1, <2>3
    <3>2. a \o b \in Seq(S) /\ DOMAIN (a \o b) = 1..(n - 1)
      <4>1. PICK u \in Seq(S) : u = a \o b
        BY <2>3, ConcatProperties
      <4> QED
        BY <3>1, <4>1
    <3>3. ASSUME NEW i \in 1..(n - 1)
          PROVE  (a \o b)[i] = IF i <= k - 1 THEN a[i] ELSE b[i - (k - 1)]
      <4>1. i \in 1..(Len(a) + Len(b))
        BY <2>1, <2>3
      <4>2. (a \o b)[i] = IF i <= Len(a) THEN a[i] ELSE b[i - Len(a)]
        BY <4>1, ConcatProperties
      <4> QED
        BY <2>3, <4>2
    <3> QED
      BY <2>4, <3>1, <3>2, <3>3
  <2> HIDE DEF t
  <2>6. ASSUME NEW i \in 1..(n - 1) PROVE t[i] = IF i < k THEN s[i] ELSE s[i + 1]
    <3>1. CASE i < k
      <4>1. i <= k - 1 /\ i \in 1..(k - 1)
        BY <2>1, <3>1
      <4> QED
        BY <2>3, <2>5, <3>1, <4>1
    <3>2. CASE ~(i < k)
      <4>1. ~(i <= k - 1) /\ i - (k - 1) \in 1..(n - k) /\ (i - (k - 1)) + k = i + 1
        BY <2>1, <3>2
      <4> QED
        BY <2>3, <2>5, <3>2, <4>1
    <3> QED
      BY <3>1, <3>2
  <2> QED
    BY <2>1, <2>5, <2>6
<1> HIDE DEF t
<1>3. k \in 1..n
  BY <1>1
<1>4. /\ \A i \in 1..(n - 1) : /\ i < k => i \in 1..n /\ i # k
                               /\ ~(i < k) => i + 1 \in 1..n /\ i + 1 # k
      /\ \A i \in 1..n : i # k => \/ i \in 1..(n - 1) /\ i < k
                                  \/ i - 1 \in 1..(n - 1) /\ ~(i - 1 < k) /\ (i - 1) + 1 = i
      /\ \A i, j \in 1..(n - 1) : /\ i + 1 = j + 1 => i = j
                                  /\ i < k /\ ~(j < k) => i # j + 1
  BY <1>2, <1>3
<1>5. \A i \in 1..(n - 1) : \E j \in 1..n : j # k /\ t[i] = s[j]
  BY <1>2, <1>4
<1>6. \A j \in 1..n : j # k => \E i \in 1..(n - 1) : t[i] = s[j]
  BY <1>2, <1>4
<1>7. Distinct(t)
  <2> SUFFICES ASSUME NEW i \in 1..(n - 1), NEW j \in 1..(n - 1), t[i] = t[j] PROVE i = j
    BY <1>2 DEF Distinct
  <2>1. CASE i < k /\ j < k
    BY <1>2, <1>4, <2>1 DEF Distinct
  <2>2. CASE ~(i < k) /\ ~(j < k)
    BY <1>2, <1>4, <2>2 DEF Distinct
  <2>3. CASE i < k /\ ~(j < k)
    BY <1>2, <1>4, <2>3 DEF Distinct
  <2>4. CASE ~(i < k) /\ j < k
    BY <1>2, <1>4, <2>4 DEF Distinct
  <2> QED
    BY <2>1, <2>2, <2>3, <2>4
<1>8. ASSUME NEW d PROVE Listed(t, d) <=> Listed(s, d) /\ d # s[k]
  <2>1. ASSUME Listed(t, d) PROVE Listed(s, d) /\ d # s[k]
    <3>1. PICK i \in 1..(n - 1) : t[i] = d
      BY <1>2, <2>1 DEF Listed
    <3>2. PICK j \in 1..n : j # k /\ s[j] = d
      BY <1>5, <3>1
    <3> QED
      BY <1>2, <1>3, <3>2 DEF Listed, Distinct
  <2>2. ASSUME Listed(s, d), d # s[k] PROVE Listed(t, d)
    <3>1. PICK j \in 1..n : s[j] = d
      BY <1>2, <2>2 DEF Listed
    <3> QED
      BY <1>2, <1>6, <2>2, <3>1 DEF Listed
  <2> QED
    BY <2>1, <2>2
<1>9. Listed(s, s[k])
  BY <1>2, <1>3 DEF Listed
<1> QED
  BY <1>7, <1>8, <1>9 DEF Loses, t

LEMMA FrontLoses ==
    ASSUME NEW S, NEW s \in Seq(S), s # <<>>, Distinct(s)
    PROVE  Loses(s, Front(s), Last(s))
<1>1. PICK n \in Nat : n = Len(s) /\ n > 0
  OBVIOUS
<1>2. /\ DOMAIN s = 1..n /\ DOMAIN Front(s) = 1..(n - 1) /\ Last(s) = s[n]
      /\ \A i \in 1..(n - 1) : Front(s)[i] = s[i]
  BY <1>1 DEF Front, Last
<1>3. n \in 1..n /\ \A i \in 1..n : i = n \/ i \in 1..(n - 1)
  BY <1>1
<1>4. \A i \in 1..(n - 1) : i \in 1..n /\ i # n
  BY <1>1
<1> DEFINE t == Front(s)
           l == Last(s)
<1>5. /\ DOMAIN s = 1..n /\ DOMAIN t = 1..(n - 1) /\ l = s[n]
      /\ \A i \in 1..(n - 1) : t[i] = s[i]
  BY <1>2
<1> HIDE DEF t, l
<1>6. Distinct(t)
  BY <1>4, <1>5 DEF Distinct
<1>7. ASSUME NEW d PROVE Listed(t, d) <=> Listed(s, d) /\ d # l
  BY <1>3, <1>4, <1>5 DEF Listed, Distinct
<1>8. Listed(s, l)
  BY <1>3, <1>5 DEF Listed
<1> QED
  BY <1>6, <1>7, <1>8 DEF Loses, t, l

\* Where a thread goes.
LEMMA PcBecomes ==
    ASSUME TypeOK, NEW w \in Workers, NEW p, pc' = [pc EXCEPT ![w] = p]
    PROVE  pc'[w] = p
  BY DEF TypeOK

-----------------------------------------------------------------------------
(* Regular programs: what each thread holds at its position.                 *)
IdlePcs == {"off", "main", "sync", "top", "pick", "scan", "steal", "mine", "timer", "none",
            "chkLive", "chkRun", "chkHand", "wait", "fin1", "fin2", "requeued", "running",
            "stopped", "end"}
RunPcs == {"top", "stopped", "chkLive", "chkRun", "chkHand", "wait"}
OnTop == {"exec", "parkSend", "parkRecv", "wake", "woken"}

\* A thread has a coroutine only on its way to it, in it or just after it,
\* with its frame below every ramp, and parks it only from its own frame.
HandShape(w) ==
    /\ pc[w] \in IdlePcs => cur[w] = None
    /\ pc[w] \in RunPcs => wid[w]
    /\ pc[w] \notin {"wake", "woken"} => wakes[w] = <<>>
    /\ cur[w] # None /\ stack[w] # <<>> => stack[w][1] = cur[w]
    /\ cur[w] # None /\ parked[w] =>
          \/ pc[w] \in Fetching \cup {"ub"}
          \/ pc[w] = "suspend" /\ Len(stack[w]) = 1 /\ frame[cur[w]] = "executing"
          \/ pc[w] = "after" /\ frame[cur[w]] = "suspended"
    /\ pc[w] \notin {"destroy", "unlive"}

NotYetYielded(c) == \A h \in 1..(ip[c] - 1) : ~Yields(prog.body[c][h])

\* A ramp that a coroutine started and that still runs.
RampAbove(w, i) ==
    /\ cur[w] # None
    /\ i \in 2..Len(stack[w])
    /\ i < Len(stack[w]) \/ pc[w] \in OnTop

\* It has been spawned inside a body and has not yielded.
RampsRun ==
    \A w \in Workers : \A i \in 2..Len(stack[w]) :
        RampAbove(w, i) => SpawnedInside(prog, stack[w][i]) /\ NotYetYielded(stack[w][i])

\* A body that has not been started is at its first instruction.
Fresh == \A c \in Coros : frame[c] = "none" => ip[c] = 1

\* run_all's place in the main thread, and what it leaves.
Ran == \E i \in 1..(mainIp - 1) : prog.main[i].op = "run"
RunOnly ==
    /\ wid[0] => mainIp \in DOMAIN prog.main /\ prog.main[mainIp].op = "run"
    /\ deadlock => shutdown /\ (wid[0] \/ Ran)
    /\ \A w \in Workers : pc[w] = "stopped" => shutdown

ShapeInv == (\A w \in Workers : HandShape(w)) /\ RampsRun /\ Fresh /\ RunOnly

\* A step of one thread leaves what is the others' alone, and moves the main
\* thread's calls, the flags and the workers' number only forward.
Own(w) ==
    /\ \A v \in Workers : v # w =>
          /\ pc'[v] = pc[v] /\ stack'[v] = stack[v] /\ cur'[v] = cur[v]
          /\ wakes'[v] = wakes[v] /\ parked'[v] = parked[v] /\ next'[v] = next[v]
    /\ prog' = prog /\ wid' = wid
    /\ mainIp' = mainIp \/ (mainIp' = mainIp + 1 /\ ~wid[w])
    /\ shutdown => shutdown'
    /\ deadlock => deadlock'
    /\ deadlock' => deadlock \/ (wid[w] /\ shutdown')
    /\ pc'[w] = "stopped" => shutdown'

-----------------------------------------------------------------------------
LEMMA PickOwn ==
    ASSUME StealInv, NEW w \in Workers, HandShape(w), Pick(w)
    PROVE  Own(w) /\ HandShape(w)'
<1>1. TypeOK /\ ThreadShape(w)
  BY DEF StealInv
<1> USE DEF Own, At, Go, HandShape, ThreadShape, IdlePcs, RunPcs, Fetching, InBody,
        program, queues, counters, flags, coros, shared, waking, search, locals
<1>2. CASE PickNext(w)
  BY <1>1, <1>2 DEF PickNext, TypeOK
<1>3. CASE HandoffTaken(w)
  BY <1>1, <1>3 DEF HandoffTaken, TypeOK
<1>4. CASE PickLocal(w)
  BY <1>1, <1>4 DEF PickLocal, TypeOK
<1>5. CASE PickGlobal(w)
  BY <1>1, <1>5 DEF PickGlobal, TypeOK
<1>6. CASE Uncount(w)
  BY <1>1, <1>6 DEF Uncount, TypeOK
<1>7. CASE Count(w)
  BY <1>1, <1>7 DEF Count, TypeOK
<1>8. CASE ScanTake(w)
  BY <1>1, <1>8 DEF ScanTake, TypeOK
<1>9. CASE ScanMiss(w)
  BY <1>1, <1>9 DEF ScanMiss, TypeOK
<1>10. CASE StealSkip(w)
  BY <1>1, <1>10 DEF StealSkip, Stealing, TypeOK
<1>11. CASE StealLock(w)
  BY <1>1, <1>11 DEF StealLock, Stealing, TypeOK
<1>12. CASE StealMove(w)
  BY <1>1, <1>12 DEF StealMove, TypeOK
<1>13. CASE StealMiss(w)
  BY <1>1, <1>13 DEF StealMiss, TypeOK
<1> QED
  BY <1>2, <1>3, <1>4, <1>5, <1>6, <1>7, <1>8, <1>9, <1>10, <1>11, <1>12, <1>13 DEF Pick

LEMMA IdleOwn ==
    ASSUME StealInv, NEW w \in Workers, HandShape(w), Idle(w)
    PROVE  Own(w) /\ HandShape(w)'
<1>1. TypeOK /\ ThreadShape(w)
  BY DEF StealInv
<1> USE DEF Own, At, Go, LoopHead, HandShape, ThreadShape, IdlePcs, RunPcs, Fetching, InBody,
        program, queues, counters, flags, coros, shared, waking, search, locals
<1>2. CASE LoopTop(w)
  BY <1>1, <1>2 DEF LoopTop, TypeOK
<1>3. CASE SyncTop(w)
  BY <1>1, <1>3 DEF SyncTop, TypeOK
<1>4. CASE TimerSleep(w)
  BY <1>1, <1>4 DEF TimerSleep, TypeOK
<1>5. CASE SyncNone(w)
  BY <1>1, <1>5 DEF SyncNone, TypeOK
<1>6. CASE IdleLock(w)
  BY <1>1, <1>6 DEF IdleLock, TypeOK
<1>7. CASE CheckLive(w)
  BY <1>1, <1>7 DEF CheckLive, TypeOK
<1>8. CASE CheckRunning(w)
  BY <1>1, <1>8 DEF CheckRunning, TypeOK
<1>9. CASE CheckHandoff(w)
  BY <1>1, <1>9 DEF CheckHandoff, TypeOK
<1>10. CASE IdleWait(w)
  BY <1>1, <1>10 DEF IdleWait, TypeOK
<1> QED
  BY <1>2, <1>3, <1>4, <1>5, <1>6, <1>7, <1>8, <1>9, <1>10 DEF Idle

LEMMA LenPositive ==
    ASSUME NEW S, NEW s \in Seq(S), s # <<>>
    PROVE  /\ Len(s) \in Nat /\ Len(s) > 0 /\ Len(s) \in 1..Len(s)
           /\ Len(s) # 1 => Len(s) > 1 /\ Len(s) \in 2..Len(s)
           /\ Len(s) = 1 => ~(Len(s) > 1) /\ Tail(s) = <<>>
<1>1. PICK n \in Nat : n = Len(s)
  OBVIOUS
<1>2. n > 0
  BY <1>1, EmptySeq
<1>3. n \in 1..n /\ (n # 1 => n > 1 /\ n \in 2..n) /\ (n = 1 => ~(n > 1))
  BY <1>2
<1>4. n = 1 => Tail(s) = <<>>
  <2>1. PICK t \in Seq(S) : t = Tail(s) /\ Len(t) = n - 1
    BY <1>1, <1>2, HeadTailProperties
  <2>2. Len(t) = 0 => t = <<>>
    BY EmptySeq
  <2> QED
    BY <2>1, <2>2
<1> QED
  BY <1>1, <1>2, <1>3, <1>4

LEMMA FrontFirst ==
    ASSUME NEW S, NEW s \in Seq(S), s # <<>>
    PROVE  /\ Len(s) = 1 <=> Front(s) = <<>>
           /\ Len(s) # 1 => Front(s)[1] = s[1]
<1>1. PICK n \in Nat : n = Len(s) /\ n > 0
  OBVIOUS
<1>2. Front(s) \in Seq(S) /\ Len(Front(s)) = n - 1
  BY <1>1, LastFront
<1>3. n # 1 => Front(s)[1] = s[1]
  BY <1>1 DEF Front
<1>4. Front(s) = <<>> <=> Len(Front(s)) = 0
  BY <1>2, EmptySeq
<1> QED
  BY <1>1, <1>2, <1>3, <1>4

LEMMA RunOneOwn ==
    ASSUME StealInv, NEW w \in Workers, HandShape(w),
           \/ Resume(w) \/ ResumeUndefined(w) \/ AfterDone(w) \/ Fin1(w)
           \/ Fin2(w) \/ AfterParked(w) \/ AfterRequeue(w) \/ RequeuedCount(w)
           \/ RequeuedStop(w)
    PROVE  Own(w) /\ HandShape(w)'
<1>1. TypeOK /\ ThreadShape(w)
  BY DEF StealInv
<1> USE DEF Own, At, Go, LoopHead, HandShape, ThreadShape, IdlePcs, RunPcs, Fetching, InBody,
        Release, Complete, PushReady,
        program, queues, counters, flags, coros, shared, waking, search, locals
<1>2. CASE Resume(w)
  BY <1>1, <1>2 DEF Resume, TypeOK
<1>3. CASE ResumeUndefined(w)
  BY <1>1, <1>3 DEF ResumeUndefined, TypeOK
<1>4. CASE AfterDone(w)
  BY <1>1, <1>4 DEF AfterDone, TypeOK
<1>5. CASE Fin1(w)
  BY <1>1, <1>5 DEF Fin1, TypeOK
<1>6. CASE Fin2(w)
  BY <1>1, <1>6 DEF Fin2, TypeOK
<1>7. CASE AfterParked(w)
  BY <1>1, <1>7 DEF AfterParked, TypeOK
<1>8. CASE AfterRequeue(w)
  BY <1>1, <1>8 DEF AfterRequeue, TypeOK
<1>9. CASE RequeuedCount(w)
  BY <1>1, <1>9 DEF RequeuedCount, TypeOK
<1>10. CASE RequeuedStop(w)
  BY <1>1, <1>10 DEF RequeuedStop, TypeOK
<1> QED
  BY <1>2, <1>3, <1>4, <1>5, <1>6, <1>7, <1>8, <1>9, <1>10

LEMMA SuspendOwn ==
    ASSUME StealInv, NEW w \in Workers, HandShape(w), Suspend(w)
    PROVE  Own(w) /\ HandShape(w)'
<1>1. TypeOK /\ ThreadShape(w)
  BY DEF StealInv
<1>2. stack[w] \in Seq(Coros) /\ Running(w) = stack[w][Len(stack[w])]
  BY <1>1 DEF TypeOK, Running, Last
<1> USE DEF Own, At, Go, HandShape, ThreadShape, IdlePcs, RunPcs, Fetching, InBody,
        program, queues, counters, flags, coros, shared, waking, search, locals
<1>3. CASE Len(stack[w]) = 1 /\ cur[w] # None
  BY <1>1, <1>2, <1>3 DEF Suspend, TypeOK
<1>4. CASE ~(Len(stack[w]) = 1 /\ cur[w] # None)
  <2>1. pc[w] = "suspend" /\ pc' = [pc EXCEPT ![w] = "spawned"] /\ stack' = stack
    BY <1>4 DEF Suspend
  <2>2. pc'[w] = "spawned" /\ \A v \in Workers : v # w => pc'[v] = pc[v]
    BY <1>1, <2>1 DEF TypeOK
  <2>3. Own(w)
    BY <2>1, <2>2 DEF Suspend
  <2> QED
    BY <1>1, <1>2, <1>4, <2>1, <2>2, <2>3 DEF Suspend
<1> QED
  BY <1>3, <1>4

\* The ramp's frame leaves the stack.
LEMMA ReturnOwn ==
    ASSUME StealInv, NEW w \in Workers, HandShape(w), SpawnReturn(w),
           pc[w] \in {"spawned", "spawnedQ"},
           UNCHANGED <<prog, wid, flags, parked, wakes, next>>
    PROVE  Own(w) /\ HandShape(w)'
<1>1. TypeOK /\ ThreadShape(w) /\ stack[w] \in Seq(Coros) /\ stack[w] # <<>>
  BY DEF StealInv, TypeOK, ThreadShape, InBody
<1> DEFINE s == Front(stack[w])
<1>2. /\ Len(stack[w]) = 1 <=> s = <<>>
      /\ Len(stack[w]) # 1 => s[1] = stack[w][1]
  BY <1>1, FrontFirst
<1>3. /\ stack' = [stack EXCEPT ![w] = s]
      /\ pc' = [pc EXCEPT ![w] = IF s = <<>> THEN "main" ELSE "exec"]
      /\ mainIp' = IF s = <<>> THEN mainIp + 1 ELSE mainIp
      /\ cur' = cur
  BY DEF SpawnReturn, Go
<1> HIDE DEF s
<1>4. s = <<>> => cur[w] = None /\ ~wid[w]
  <2>1. Len(stack[w]) > 1 \/ cur[w] = None
    BY <1>1 DEF ThreadShape
  <2>2. wid[w] => cur[w] # None
    BY <1>1 DEF ThreadShape
  <2>3. Len(stack[w]) = 1 => ~(Len(stack[w]) > 1)
    BY <1>1, LenPositive
  <2> QED
    BY <1>2, <2>1, <2>2, <2>3, Zenon
<1>5. cur[w] # None => ~parked[w]
  BY <1>1 DEF HandShape, Fetching
<1>6. Own(w)
  <2>1. prog' = prog /\ wid' = wid /\ shutdown' = shutdown /\ deadlock' = deadlock
        /\ parked' = parked /\ wakes' = wakes /\ next' = next
    BY DEF flags
  <2>2. pc'[w] # "stopped"
    BY <1>1, <1>3 DEF TypeOK
  <2>3. mainIp' = mainIp \/ (mainIp' = mainIp + 1 /\ ~wid[w])
    BY <1>3, <1>4
  <2>4. \A v \in Workers : v # w => pc'[v] = pc[v] /\ stack'[v] = stack[v] /\ cur'[v] = cur[v]
    BY <1>1, <1>3 DEF TypeOK
  <2> QED
    BY <2>1, <2>2, <2>3, <2>4 DEF Own
<1>7. HandShape(w)'
  <2>1. CASE s = <<>>
    BY <1>1, <1>3, <1>4, <2>1 DEF TypeOK, HandShape, IdlePcs, RunPcs
  <2>2. CASE s # <<>>
    BY <1>1, <1>2, <1>3, <1>5, <2>2 DEF TypeOK, HandShape, IdlePcs, RunPcs
  <2> QED
    BY <2>1, <2>2
<1> QED
  BY <1>6, <1>7

LEMMA SpawnedOwn ==
    ASSUME StealInv, NEW w \in Workers, HandShape(w),
           SpawnedDone(w) \/ SpawnedParked(w) \/ SpawnedReady(w) \/ SpawnedCount(w)
    PROVE  Own(w) /\ HandShape(w)'
<1> USE DEF At, program, queues, counters, flags, coros, shared, waking, search, locals
<1>1. CASE SpawnedDone(w)
  BY <1>1, ReturnOwn DEF SpawnedDone, Complete
<1>2. CASE SpawnedParked(w)
  BY <1>2, ReturnOwn DEF SpawnedParked, SpawnedParkedLive
<1>3. CASE SpawnedCount(w)
  BY <1>3, ReturnOwn DEF SpawnedCount
<1>4. CASE SpawnedReady(w)
  <2>1. TypeOK /\ ThreadShape(w)
    BY DEF StealInv
  <2> QED
    BY <1>4, <2>1 DEF SpawnedReady, PushReady, Go, Own, HandShape, IdlePcs, RunPcs, Fetching, TypeOK
<1> QED
  BY <1>1, <1>2, <1>3, <1>4

\* A ramp in a coroutine never parks the coroutine below it.
LEMMA NeverParksAbove ==
    ASSUME StealInv, Regular(prog), RampsRun, NEW w \in Workers,
           pc[w] \in {"parkSend", "parkRecv"}, cur[w] # None,
           MayPark(Current(Running(w)))
    PROVE  Len(stack[w]) = 1 /\ Running(w) = stack[w][1]
<1>1. TypeOK /\ stack[w] # <<>> /\ stack[w] \in Seq(Coros)
  BY DEF StealInv, TypeOK, ThreadShape, InBody
<1> DEFINE c == Running(w)
<1>3. c = stack[w][Len(stack[w])] /\ c \in Coros
  BY <1>1, RunningType DEF Running, Last
<1> HIDE DEF c
<1>4. ASSUME Len(stack[w]) # 1 PROVE FALSE
  <2>1. Len(stack[w]) \in 2..Len(stack[w])
    BY <1>1, <1>4, LenPositive
  <2>0. RampAbove(w, Len(stack[w]))
    BY <2>1 DEF RampAbove, OnTop
  <2>2. SpawnedInside(prog, c) /\ NotYetYielded(c)
    BY <1>3, <2>0, <2>1 DEF RampsRun
  <2>3. prog.body[c] \in Seq(Instr) /\ ip[c] \in Nat \ {0}
    BY <1>1, <1>3, ProgramsAssumption DEF TypeOK
  <2>4. Current(c).op # "return" /\ MayPark(Current(c))
    BY DEF MayPark, c
  <2>5. ip[c] \in DOMAIN prog.body[c] /\ MayPark(prog.body[c][ip[c]])
    BY <2>3, <2>4 DEF Current
  <2>6. PICK h \in 1..(ip[c] - 1) : Yields(prog.body[c][h])
    BY <1>3, <2>2, <2>5 DEF Regular, RampsNeverPark
  <2> QED
    BY <2>2, <2>6 DEF NotYetYielded
<1> QED
  BY <1>3, <1>4 DEF c

\* A regular program has no cancel.
LEMMA NoCancel ==
    ASSUME StealInv, Regular(prog), NEW w \in Workers, HandShape(w)
    PROVE  ~(CancelNothing(w) \/ CancelDequeue(w) \/ CancelDestroy(w) \/ CancelUncount(w))
<1>1. TypeOK /\ ThreadShape(w)
  BY DEF StealInv
<1>2. ~Executing(w, "cancel")
  <2> SUFFICES ASSUME Executing(w, "cancel") PROVE FALSE
    OBVIOUS
  <2> DEFINE c == Running(w)
  <2>1. c \in Coros
    BY <1>1, RunningType DEF Executing, ThreadShape, InBody, At
  <2>2. prog.body[c] \in Seq(Instr) /\ ip[c] \in Nat \ {0}
    BY <1>1, <2>1, ProgramsAssumption DEF TypeOK
  <2>3. ip[c] \in DOMAIN prog.body[c] /\ prog.body[c][ip[c]].op = "cancel"
    BY <2>2 DEF Executing, Current
  <2> QED
    BY <2>1, <2>3 DEF Regular, NeverCancels
<1>3. ~MainCalls(w, "cancel")
  <2>1. prog.main \in Seq(MainCall) /\ mainIp \in Nat \ {0}
    BY <1>1, ProgramsAssumption DEF TypeOK
  <2> SUFFICES ASSUME MainCalls(w, "cancel") PROVE FALSE
    OBVIOUS
  <2>3. mainIp <= Len(prog.main) /\ prog.main[mainIp].op = "cancel"
    BY DEF MainCalls
  <2>2. mainIp \in DOMAIN prog.main /\ prog.main[mainIp].op = "cancel"
    BY <2>1, <2>3
  <2> QED
    BY <2>2 DEF Regular, NeverCancels
<1>4. pc[w] \notin {"destroy", "unlive"}
  BY DEF HandShape
<1> QED
  BY <1>2, <1>3, <1>4 DEF CancelNothing, CancelDequeue, CancelDequeueCounting, CancelDestroy,
     CancelUncount, Cancelling, At

LEMMA WakeOwn ==
    ASSUME StealInv, NEW w \in Workers, HandShape(w),
           ExecYield(w) \/ ExecAwait(w) \/ WakeNext(w) \/ WakeLocal(w) \/ WakeGlobal(w)
           \/ WokenCount(w)
    PROVE  Own(w) /\ HandShape(w)'
<1>1. TypeOK /\ ThreadShape(w)
  BY DEF StealInv
<1>w. Len(wakes[w]) = 1 => Tail(wakes[w]) = <<>>
  <2>1. wakes[w] \in Seq(Coros)
    BY <1>1 DEF TypeOK
  <2>2. Len(<<>>) # 1
    OBVIOUS
  <2>3. wakes[w] # <<>> \/ Len(wakes[w]) # 1
    BY <2>2
  <2> QED
    BY <2>1, <2>3, LenPositive
<1>p. cur[w] # None /\ pc[w] \in {"exec", "wake", "woken"} => ~parked[w]
  BY DEF HandShape, Fetching
<1>r. ret[w] \in {"exec", "suspend"}
  BY <1>1 DEF TypeOK
<1> USE DEF Own, At, Go, HandShape, ThreadShape, IdlePcs, RunPcs, Fetching, InBody,
        Executing, Waking,
        program, queues, counters, flags, coros, shared, waking, search, locals
<1>2. CASE ExecYield(w)
  BY <1>1, <1>p, <1>2 DEF ExecYield, TypeOK
<1>3. CASE ExecAwait(w)
  <2>1. CASE done[Current(Running(w)).co]
    BY <1>1, <1>p, <1>3, <2>1 DEF ExecAwait, TypeOK
  <2>2. CASE ~done[Current(Running(w)).co]
    BY <1>1, <1>p, <1>3, <2>2 DEF ExecAwait, TypeOK
  <2> QED
    BY <2>1, <2>2
<1>4. CASE WakeNext(w)
  BY <1>1, <1>w, <1>p, <1>r, <1>4 DEF WakeNext, TypeOK
<1>5. CASE WakeLocal(w)
  BY <1>1, <1>p, <1>5 DEF WakeLocal, TypeOK
<1>6. CASE WakeGlobal(w)
  BY <1>1, <1>p, <1>6 DEF WakeGlobal, TypeOK
<1>7. CASE WokenCount(w)
  BY <1>1, <1>p, <1>r, <1>7 DEF WokenCount, TypeOK
<1> QED
  BY <1>2, <1>3, <1>4, <1>5, <1>6, <1>7

LEMMA ReturnBodyOwn ==
    ASSUME StealInv, NEW w \in Workers, HandShape(w), ExecReturn(w)
    PROVE  Own(w) /\ HandShape(w)'
<1>1. TypeOK /\ ThreadShape(w)
  BY DEF StealInv
<1>p. cur[w] # None /\ pc[w] = "exec" => ~parked[w]
  BY DEF HandShape, Fetching
<1> QED
  BY <1>1, <1>p DEF ExecReturn, Executing, Own, At, Go, HandShape, IdlePcs, RunPcs, TypeOK,
        program, queues, counters, flags, coros, shared, waking, search, locals

LEMMA RampOwn ==
    ASSUME StealInv, NEW w \in Workers, HandShape(w), NEW c \in Coros, StartRamp(w, c),
           pc[w] = "exec" \/ (pc[w] = "main" /\ w = 0)
    PROVE  Own(w) /\ HandShape(w)'
<1>1. TypeOK /\ ThreadShape(w) /\ stack[w] \in Seq(Coros)
  BY DEF StealInv, TypeOK
<1>2. /\ stack' = [stack EXCEPT ![w] = Append(stack[w], c)]
      /\ pc' = [pc EXCEPT ![w] = "exec"]
      /\ UNCHANGED <<prog, mainIp, shutdown, deadlock, wid, next, cur, parked, wakes>>
  BY DEF StartRamp, Go, program, flags, waking
<1>3. cur[w] # None => ~parked[w] /\ pc[w] = "exec" /\ stack[w] # <<>>
  BY <1>1 DEF HandShape, ThreadShape, Fetching, IdlePcs, InBody
<1>4. stack[w] # <<>> => Append(stack[w], c)[1] = stack[w][1]
  BY <1>1
<1>5. Own(w)
  BY <1>1, <1>2 DEF Own, TypeOK
<1>6. wakes[w] = <<>>
  BY DEF HandShape
<1>7. stack'[w] = Append(stack[w], c) /\ pc'[w] = "exec"
  BY <1>1, <1>2 DEF TypeOK
<1>8. HandShape(w)'
  BY <1>2, <1>3, <1>4, <1>6, <1>7 DEF HandShape, IdlePcs, RunPcs
<1> QED
  BY <1>5, <1>8

LEMMA SpawnOwn ==
    ASSUME StealInv, NEW w \in Workers, HandShape(w), ExecSpawn(w) \/ (w = 0 /\ MainSpawn)
    PROVE  Own(w) /\ HandShape(w)'
<1>1. TypeOK /\ ThreadShape(w)
  BY DEF StealInv
<1>2. CASE ExecSpawn(w)
  <2>1. Running(w) \in Coros /\ At(w, "exec") /\ Current(Running(w)).op = "spawn"
    BY <1>1, <1>2, RunningType DEF ExecSpawn, Executing, ThreadShape, InBody, At
  <2>2. Current(Running(w)).co \in Coros
    BY <1>1, <2>1, CurrentType
  <2> QED
    BY <1>2, <2>1, <2>2, RampOwn DEF ExecSpawn, At
<1>3. CASE w = 0 /\ MainSpawn
  <2>1. prog.main[mainIp].co \in Coros
    <3>1. prog.main \in Seq(MainCall) /\ mainIp \in Nat \ {0}
      BY <1>1, ProgramsAssumption DEF TypeOK
    <3>2. prog.main[mainIp] \in MainCall /\ prog.main[mainIp].op = "spawn"
      BY <1>3, <3>1 DEF MainSpawn, MainCalls
    <3> QED
      BY <3>2 DEF MainCall
  <2>2. At(w, "main") /\ StartRamp(w, prog.main[mainIp].co)
    BY <1>3 DEF MainSpawn, MainCalls
  <2> QED
    BY <1>3, <2>1, <2>2, RampOwn DEF At
<1> QED
  BY <1>2, <1>3

LEMMA TransferOwn ==
    ASSUME StealInv, NEW w \in Workers, HandShape(w), NEW p, Go(w, p), ChannelFrame,
           pc[w] \in {"exec", "parkSend", "parkRecv"},
           p \in {"exec", "parkSend", "parkRecv", "wake", "suspend"},
           \/ wakes' = wakes
           \/ \E cs : wakes' = [wakes EXCEPT ![w] = cs] /\ (cs = <<>> \/ p = "wake"),
           \/ parked' = parked
           \/ /\ parked' = [parked EXCEPT ![w] = TRUE] /\ p = "suspend" /\ Len(stack[w]) = 1
              /\ frame[cur[w]] = "executing"
    PROVE  Own(w) /\ HandShape(w)'
<1>1. TypeOK /\ ThreadShape(w)
  BY DEF StealInv
<1>2. /\ pc' = [pc EXCEPT ![w] = p] /\ pc'[w] = p
      /\ UNCHANGED <<prog, mainIp, shutdown, deadlock, frame, wid, next, cur, stack>>
  BY <1>1 DEF Go, ChannelFrame, program, flags, TypeOK
<1>3. \A v \in Workers : v # w => wakes'[v] = wakes[v] /\ parked'[v] = parked[v] /\ pc'[v] = pc[v]
  BY <1>1, <1>2 DEF TypeOK
<1>4. Own(w)
  BY <1>2, <1>3 DEF Own
<1>5. cur[w] # None => ~parked[w]
  BY DEF HandShape, Fetching
<1>6. wakes[w] = <<>>
  BY DEF HandShape
<1>7. p # "wake" => wakes'[w] = <<>>
  BY <1>1, <1>6 DEF TypeOK
<1>8. HandShape(w)'
  <2>1. cur'[w] # None /\ stack'[w] # <<>> => stack'[w][1] = cur'[w]
    BY <1>2 DEF HandShape
  <2>2. cur'[w] # None /\ parked'[w] =>
          p = "suspend" /\ Len(stack'[w]) = 1 /\ frame'[cur'[w]] = "executing"
    BY <1>2, <1>5
  <2>3. p \notin IdlePcs \cup RunPcs \cup {"destroy", "unlive"}
    BY DEF IdlePcs, RunPcs
  <2> QED
    BY <1>2, <1>7, <2>1, <2>2, <2>3 DEF HandShape
<1> QED
  BY <1>4, <1>8

\* The coroutine that parks executes its own frame.
LEMMA ParksItself ==
    ASSUME ChanInv, Regular(prog), RampsRun, NEW w \in Workers, HandShape(w),
           pc[w] \in {"parkSend", "parkRecv"}, cur[w] # None,
           MayPark(Current(Running(w)))
    PROVE  Len(stack[w]) = 1 /\ Running(w) = cur[w] /\ frame[cur[w]] = "executing"
<1>1. StealInv /\ stack[w] # <<>> /\ stack[w] \in Seq(Coros)
  BY DEF ChanInv, StealInv, TypeOK, ThreadShape, InBody
<1>2. Len(stack[w]) = 1 /\ Running(w) = stack[w][1]
  BY <1>1, NeverParksAbove
<1>3. cur[w] = stack[w][1]
  BY <1>1 DEF HandShape
<1>4. OnStack(w, 1) /\ 1 \in 1..Len(stack[w])
  BY <1>1, LenPositive DEF OnStack
<1>5. frame[stack[w][1]] = "executing"
  BY <1>4 DEF ChanInv, FramesRun, At
<1> QED
  BY <1>2, <1>3, <1>5

LEMMA ChannelOwn ==
    ASSUME ChanInv, Regular(prog), RampsRun, NEW w \in Workers, HandShape(w),
           ExecSend(w) \/ ParkSend(w) \/ ExecRecv(w) \/ ParkRecv(w)
    PROVE  Own(w) /\ HandShape(w)'
<1>1. StealInv /\ TypeOK
  BY DEF ChanInv, StealInv
<1> DEFINE i == Current(Running(w))
<1>2. CASE ExecSend(w)
  <2>1. pc[w] = "exec" /\ ChannelFrame /\ parked' = parked
    BY <1>2 DEF ExecSend, Executing, At
  <2>2. CASE Room(chan[i.ch], Cap[i.ch])
    <3>1. ThenWake(w, PushWakes(chan[i.ch]), "exec")
      BY <1>2, <2>2 DEF ExecSend
    <3> QED
      BY <1>1, <2>1, <3>1, TransferOwn DEF ThenWake
  <2>3. CASE ~Room(chan[i.ch], Cap[i.ch])
    <3>1. Go(w, "parkSend") /\ wakes' = wakes
      BY <1>2, <2>3 DEF ExecSend, waking
    <3> QED
      BY <1>1, <2>1, <3>1, TransferOwn
  <2> QED
    BY <2>2, <2>3
<1>3. CASE ExecRecv(w)
  <2>1. pc[w] = "exec" /\ ChannelFrame /\ parked' = parked
    BY <1>3 DEF ExecRecv, Executing, At
  <2>2. CASE chan[i.ch].buf # <<>>
    <3>1. ThenWake(w, PopWakes(chan[i.ch]), "exec")
      BY <1>3, <2>2 DEF ExecRecv
    <3> QED
      BY <1>1, <2>1, <3>1, TransferOwn DEF ThenWake
  <2>3. CASE ~(chan[i.ch].buf # <<>>)
    <3>1. Go(w, "parkRecv") /\ wakes' = wakes
      BY <1>3, <2>3 DEF ExecRecv, waking
    <3> QED
      BY <1>1, <2>1, <3>1, TransferOwn
  <2> QED
    BY <2>2, <2>3
<1>4. CASE ParkSend(w)
  <2>1. pc[w] = "parkSend" /\ ChannelFrame /\ i.op = "send"
    BY <1>4 DEF ParkSend, At
  <2>2. CASE Room(chan[i.ch], Cap[i.ch])
    <3>1. ThenWake(w, PushWakes(chan[i.ch]), "suspend") /\ parked' = parked
      BY <1>4, <2>2 DEF ParkSend
    <3> QED
      BY <1>1, <2>1, <3>1, TransferOwn DEF ThenWake
  <2>3. CASE ~Room(chan[i.ch], Cap[i.ch]) /\ cur[w] = None
    <3>1. Go(w, "suspend") /\ wakes' = wakes /\ parked' = parked
      BY <1>4, <2>3 DEF ParkSend, waking
    <3> QED
      BY <1>1, <2>1, <3>1, TransferOwn
  <2>4. CASE ~Room(chan[i.ch], Cap[i.ch]) /\ cur[w] # None
    <3>1. Go(w, "suspend") /\ wakes' = wakes /\ parked' = [parked EXCEPT ![w] = TRUE]
      BY <1>4, <2>4 DEF ParkSend, waking
    <3>2. MayPark(i)
      BY <2>1, <2>4 DEF MayPark, Room
    <3>3. Len(stack[w]) = 1 /\ frame[cur[w]] = "executing"
      BY <2>1, <2>4, <3>2, ParksItself
    <3> QED
      BY <1>1, <2>1, <3>1, <3>3, TransferOwn
  <2> QED
    BY <2>2, <2>3, <2>4
<1>5. CASE ParkRecv(w)
  <2>1. pc[w] = "parkRecv" /\ ChannelFrame /\ i.op = "recv" /\ Go(w, "suspend") /\ wakes' = wakes
    BY <1>5 DEF ParkRecv, ParkRecvLooking, At, waking
  <2>2. CASE parked' = parked
    BY <1>1, <2>1, <2>2, TransferOwn
  <2>3. CASE parked' # parked
    <3>1. cur[w] # None /\ parked' = [parked EXCEPT ![w] = TRUE]
      BY <1>5, <2>3 DEF ParkRecv, ParkRecvLooking
    <3>2. MayPark(i)
      BY <2>1 DEF MayPark
    <3>3. Len(stack[w]) = 1 /\ frame[cur[w]] = "executing"
      BY <2>1, <3>1, <3>2, ParksItself
    <3> QED
      BY <1>1, <2>1, <3>1, <3>3, TransferOwn
  <2> QED
    BY <2>2, <2>3
<1> QED
  BY <1>2, <1>3, <1>4, <1>5

LEMMA MainOwn ==
    ASSUME StealInv, HandShape(0), MainAwait \/ MainEnd
    PROVE  Own(0) /\ HandShape(0)'
<1>1. TypeOK /\ ThreadShape(0)
  BY ZeroIsWorker DEF StealInv
<1> QED
  BY <1>1, ZeroIsWorker
  DEF MainAwait, MainEnd, MainCalls, Own, HandShape, IdlePcs, RunPcs, Fetching, At, Go, TypeOK,
      shared, program, flags, locals, coros, waking

\* Every step of a thread of a regular program.
LEMMA StepOwn ==
    ASSUME ChanInv, Regular(prog), RampsRun, NEW w \in Workers, HandShape(w),
           Step(w) \/ (w = 0 /\ (MainSpawn \/ MainAwait \/ MainEnd))
    PROVE  Own(w) /\ HandShape(w)'
<1>1. StealInv
  BY DEF ChanInv
<1>2. CASE Pick(w)
  BY <1>1, <1>2, PickOwn
<1>3. CASE Idle(w)
  BY <1>1, <1>3, IdleOwn
<1>4. CASE Exec(w)
  <2>1. CASE ExecYield(w) \/ ExecAwait(w) \/ WakeNext(w) \/ WakeLocal(w) \/ WakeGlobal(w)
             \/ WokenCount(w)
    BY <1>1, <2>1, WakeOwn
  <2>2. CASE ExecReturn(w)
    BY <1>1, <2>2, ReturnBodyOwn
  <2>3. CASE ExecSpawn(w)
    BY <1>1, <2>3, SpawnOwn
  <2>4. CASE ExecSend(w) \/ ParkSend(w) \/ ExecRecv(w) \/ ParkRecv(w)
    BY <2>4, ChannelOwn
  <2> QED
    BY <1>1, <1>4, <2>1, <2>2, <2>3, <2>4, NoCancel DEF Exec
<1>5. CASE RunOne(w)
  <2>1. CASE \/ Resume(w) \/ ResumeUndefined(w) \/ AfterDone(w) \/ Fin1(w)
             \/ Fin2(w) \/ AfterParked(w) \/ AfterRequeue(w) \/ RequeuedCount(w)
             \/ RequeuedStop(w)
    BY <1>1, <2>1, RunOneOwn
  <2>2. CASE Suspend(w)
    BY <1>1, <2>2, SuspendOwn
  <2>3. CASE SpawnedDone(w) \/ SpawnedParked(w) \/ SpawnedReady(w) \/ SpawnedCount(w)
    BY <1>1, <2>3, SpawnedOwn
  <2> QED
    BY <1>5, <2>1, <2>2, <2>3 DEF RunOne
<1>6. CASE w = 0 /\ MainSpawn
  BY <1>1, <1>6, SpawnOwn
<1>7. CASE w = 0 /\ (MainAwait \/ MainEnd)
  BY <1>1, <1>7, MainOwn
<1> QED
  BY <1>2, <1>3, <1>4, <1>5, <1>6, <1>7 DEF Step

-----------------------------------------------------------------------------
(* What a step does to the frames and to the ramps.                          *)
Touched(w, c) == \E i \in 1..Len(stack[w]) : OnStack(w, i) /\ stack[w][i] = c

\* It changes the frame of a coroutine that has not started or has ended,
\* that nobody uses, or that it executes, and goes on in no other body.
FramesKept(w) ==
    \A c \in Coros :
        /\ frame'[c] # frame[c] =>
              frame[c] \in {"none", "final"} \/ Untouched(c) \/ Touched(w, c)
        /\ frame'[c] = "none" => frame[c] = "none"
        /\ ip'[c] # ip[c] => Touched(w, c)

RampsKept(w) ==
    \A i \in 2..Len(stack'[w]) :
        RampAbove(w, i)' => (SpawnedInside(prog, stack[w][i]) /\ NotYetYielded(stack[w][i]))'

\* The frame on top of the stack.
LEMMA TopTouched ==
    ASSUME StealInv, NEW w \in Workers, pc[w] \in OnTop \cup {"suspend"}
    PROVE  /\ stack[w] \in Seq(Coros) /\ stack[w] # <<>>
           /\ Running(w) \in Coros /\ Running(w) = stack[w][Len(stack[w])]
           /\ OnStack(w, Len(stack[w])) /\ Touched(w, Running(w))
<1>1. TypeOK /\ stack[w] # <<>> /\ stack[w] \in Seq(Coros)
  BY DEF StealInv, TypeOK, ThreadShape, InBody, OnTop
<1>2. Running(w) \in Coros /\ Running(w) = stack[w][Len(stack[w])]
  BY <1>1, RunningType DEF Running, Last
<1>3. Len(stack[w]) \in 1..Len(stack[w])
  BY <1>1, LenPositive
<1>4. OnStack(w, Len(stack[w]))
  BY <1>3 DEF OnStack, OnTop
<1> QED
  BY <1>1, <1>2, <1>3, <1>4 DEF Touched

\* A step of a thread outside any body.
LEMMA OutsideKept ==
    ASSUME StealInv, NEW w \in Workers,
           \/ Pick(w) \/ Idle(w) \/ ResumeUndefined(w) \/ Fin1(w) \/ Fin2(w) \/ AfterParked(w)
           \/ AfterRequeue(w) \/ RequeuedCount(w) \/ RequeuedStop(w)
           \/ (w = 0 /\ (MainAwait \/ MainEnd))
    PROVE  stack'[w] = <<>> /\ stack[w] = <<>> /\ UNCHANGED <<frame, ip, done>>
<1>1. ThreadShape(w)
  BY DEF StealInv
<1>2. UNCHANGED <<stack, frame>>
  BY CalmPick, CalmIdle, CalmRunOne, CalmMain DEF Calm
<1>3. UNCHANGED <<ip, done>> /\ pc[w] \notin InBody \cup {"destroy", "unlive", "ub"}
  <2> USE DEF At, InBody, Release, PushReady, program, queues, counters, flags, coros, shared,
              waking, search, locals
  <2>1. CASE Pick(w)
    BY <2>1 DEF Pick, PickNext, HandoffTaken, PickLocal, PickGlobal, Uncount, Count, ScanTake,
       ScanMiss, StealSkip, StealLock, Stealing, StealMove, StealMiss
  <2>2. CASE Idle(w)
    BY <2>2 DEF Idle, LoopTop, SyncTop, TimerSleep, SyncNone, IdleLock, CheckLive, CheckRunning,
       CheckHandoff, IdleWait
  <2>3. CASE \/ ResumeUndefined(w) \/ Fin1(w) \/ Fin2(w) \/ AfterParked(w)
             \/ AfterRequeue(w) \/ RequeuedCount(w) \/ RequeuedStop(w)
    BY <2>3 DEF ResumeUndefined, Fin1, Fin2, AfterParked, AfterRequeue, RequeuedCount, RequeuedStop
  <2>4. CASE w = 0 /\ (MainAwait \/ MainEnd)
    BY <2>4 DEF MainAwait, MainEnd, MainCalls
  <2> QED
    BY <2>1, <2>2, <2>3, <2>4
<1>4. stack[w] = <<>>
  BY <1>1, <1>3 DEF ThreadShape
<1> QED
  BY <1>2, <1>3, <1>4

\* A step inside a body that changes no frame, and goes on in the one on top.
LEMMA BodyKept ==
    ASSUME ChanInv, RampsRun, NEW w \in Workers, Own(w), pc[w] \in OnTop, pc'[w] \in PCs,
           UNCHANGED <<stack, cur>>,
           ip' = ip \/ (Advance(w) /\ Current(Running(w)).op # "return"),
           pc'[w] \in OnTop => ip' = ip \/ ~Yields(Current(Running(w)))
    PROVE  RampsKept(w) /\ \A c \in Coros : ip'[c] # ip[c] => Touched(w, c)
<1>1. TypeOK /\ FramesApart /\ stack[w] \in Seq(Coros) /\ prog' = prog
  BY DEF ChanInv, StealInv, TypeOK, Own
<1> DEFINE t == Running(w)
           n == Len(stack[w])
<1>2. t \in Coros /\ t = stack[w][n] /\ OnStack(w, n) /\ Touched(w, t) /\ n \in 1..n
  BY TopTouched DEF ChanInv, OnStack
<1>3. \A c \in Coros : c # t => ip'[c] = ip[c]
  BY <1>1 DEF Advance, TypeOK
<1>4. ASSUME NEW i \in 2..Len(stack'[w]), RampAbove(w, i)'
      PROVE  (SpawnedInside(prog, stack[w][i]) /\ NotYetYielded(stack[w][i]))'
  <2> DEFINE c == stack[w][i]
  <2>1. RampAbove(w, i) /\ i \in 2..n /\ stack'[w][i] = c
    BY <1>4 DEF RampAbove
  <2>2. SpawnedInside(prog, c) /\ NotYetYielded(c)
    BY <2>1 DEF RampsRun
  <2>3. i \in 1..n /\ c \in Coros /\ OnStack(w, i)
    <3>1. i \in 1..n
      BY <1>1, <2>1
    <3>2. c \in Coros
      BY <1>1, <3>1
    <3> QED
      BY <2>1, <3>1, <3>2 DEF OnStack, OnTop
  <2>4. CASE i # n
    <3>1. c # t
      BY <1>1, <1>2, <2>3, <2>4 DEF FramesApart
    <3>2. ip'[c] = ip[c]
      BY <1>3, <2>3, <3>1
    <3> QED
      BY <1>1, <2>1, <2>2, <3>2 DEF NotYetYielded
  <2>5. CASE i = n
    <3>1. pc'[w] \in OnTop /\ c = t
      <4>1. i \in Nat /\ i = Len(stack'[w])
        BY <1>1, <2>1, <2>5
      <4>2. ~(i < Len(stack'[w]))
        BY <4>1
      <4> QED
        BY <1>2, <1>4, <2>5, <4>2 DEF RampAbove
    <3>2. CASE ip' = ip
      BY <1>1, <2>1, <2>2, <3>2 DEF NotYetYielded
    <3>3. CASE Advance(w) /\ Current(t).op # "return" /\ ~Yields(Current(t))
      <4>1. ip[c] \in Nat \ {0} /\ ip'[c] = ip[c] + 1
        BY <1>1, <2>3, <3>1, <3>3 DEF Advance, TypeOK
      <4>2. prog.body[c] \in Seq(Instr)
        BY <1>1, <2>3, ProgramsAssumption DEF TypeOK
      <4>3. ASSUME NEW h \in 1..(ip'[c] - 1) PROVE ~Yields(prog.body[c][h])
        <5>1. h \in 1..(ip[c] - 1) \/ h = ip[c]
          BY <4>1
        <5>2. h = ip[c] => ~Yields(prog.body[c][h])
          <6> SUFFICES ASSUME h = ip[c], Yields(prog.body[c][h]) PROVE FALSE
            OBVIOUS
          <6>1. Current(c) # prog.body[c][h]
            BY <3>1, <3>3
          <6>2. ~(ip[c] <= Len(prog.body[c]))
            BY <6>1 DEF Current
          <6> QED
            BY <3>1, <3>3, <6>2 DEF Current
        <5> QED
          BY <2>2, <5>1, <5>2 DEF NotYetYielded
      <4> QED
        BY <1>1, <2>1, <2>2, <4>3 DEF NotYetYielded
    <3> QED
      BY <3>1, <3>2, <3>3
  <2> QED
    BY <2>4, <2>5
<1> QED
  BY <1>2, <1>3, <1>4 DEF RampsKept

\* The steps inside a body.
LEMMA InsideKept ==
    ASSUME ChanInv, RampsRun, NEW w \in Workers, Own(w), TypeOK',
           \/ ExecYield(w) \/ ExecAwait(w) \/ ExecReturn(w) \/ ExecSend(w) \/ ParkSend(w)
           \/ ExecRecv(w) \/ ParkRecv(w) \/ WakeNext(w) \/ WakeLocal(w) \/ WakeGlobal(w)
           \/ WokenCount(w)
    PROVE  FramesKept(w) /\ RampsKept(w)
<1> USE DEF At, Go, Executing, Waking, ChannelFrame, ThenWake, OnTop,
        program, queues, counters, flags, coros, shared, waking, search, locals
<1>1. TypeOK /\ StealInv
  BY DEF ChanInv, StealInv
<1>2. pc[w] \in OnTop /\ UNCHANGED <<stack, cur>>
  BY DEF ExecYield, ExecAwait, ExecReturn, ExecSend, ParkSend, ExecRecv, ParkRecv, ParkRecvLooking,
     WakeNext, WakeLocal, WakeGlobal, WokenCount
<1>3. pc'[w] \in PCs
  BY DEF TypeOK
<1>4. frame' = frame \/ ExecReturn(w)
  BY DEF ExecYield, ExecAwait, ExecSend, ParkSend, ExecRecv, ParkRecv, ParkRecvLooking,
     WakeNext, WakeLocal, WakeGlobal, WokenCount
<1>5. /\ ip' = ip \/ (Advance(w) /\ Current(Running(w)).op # "return")
      /\ pc'[w] \in OnTop => ip' = ip \/ ~Yields(Current(Running(w)))
  <2>1. CASE ExecYield(w)
    BY <1>1, <2>1 DEF ExecYield, TypeOK
  <2>2. CASE ExecAwait(w)
    BY <1>1, <2>2 DEF ExecAwait, TypeOK, Yields
  <2>3. CASE ExecSend(w)
    BY <1>1, <2>3 DEF ExecSend, TypeOK, Yields
  <2>4. CASE ParkSend(w)
    BY <1>1, <2>4 DEF ParkSend, TypeOK, Yields
  <2>5. CASE ExecRecv(w)
    BY <1>1, <2>5 DEF ExecRecv, TypeOK, Yields
  <2>6. CASE \/ ExecReturn(w) \/ ParkRecv(w) \/ WakeNext(w) \/ WakeLocal(w) \/ WakeGlobal(w)
             \/ WokenCount(w)
    BY <2>6 DEF ExecReturn, ParkRecv, ParkRecvLooking, WakeNext, WakeLocal, WakeGlobal, WokenCount
  <2> QED
    BY <2>1, <2>2, <2>3, <2>4, <2>5, <2>6
<1>6. RampsKept(w) /\ \A c \in Coros : ip'[c] # ip[c] => Touched(w, c)
  BY <1>2, <1>3, <1>5, BodyKept
<1>7. Touched(w, Running(w))
  BY <1>1, <1>2, TopTouched
<1>8. ASSUME NEW c \in Coros
      PROVE  /\ frame'[c] # frame[c] => Touched(w, c)
             /\ frame'[c] = "none" => frame[c] = "none"
  BY <1>1, <1>4, <1>7 DEF ExecReturn, TypeOK
<1> QED
  BY <1>6, <1>8 DEF FramesKept

LEMMA ResumeKept ==
    ASSUME ChanInv, NEW w \in Workers, Own(w), Resume(w)
    PROVE  FramesKept(w) /\ RampsKept(w)
<1>1. TypeOK /\ ThreadShape(w) /\ At(w, "resume")
  BY DEF ChanInv, StealInv, Resume
<1>2. cur[w] \in Coros /\ ip' = ip /\ stack'[w] = <<cur[w]>>
  BY <1>1 DEF Resume, TypeOK, ThreadShape, Fetching, At
<1>3. ASSUME NEW c \in Coros
      PROVE  /\ frame'[c] # frame[c] => Untouched(c)
             /\ frame'[c] = "none" => frame[c] = "none"
  BY <1>1, <1>2 DEF Resume, TypeOK
<1>4. 2..Len(stack'[w]) = {}
  BY <1>2
<1> QED
  BY <1>2, <1>3, <1>4 DEF FramesKept, RampsKept

LEMMA SuspendKept ==
    ASSUME ChanInv, RampsRun, NEW w \in Workers, Own(w), TypeOK', Suspend(w)
    PROVE  FramesKept(w) /\ RampsKept(w)
<1>1. TypeOK /\ StealInv /\ pc[w] = "suspend"
  BY DEF ChanInv, StealInv, Suspend, At
<1>2. Touched(w, Running(w)) /\ Running(w) \in Coros /\ stack[w] \in Seq(Coros)
  BY <1>1, TopTouched
<1>3. /\ ip' = ip /\ prog' = prog /\ cur' = cur /\ pc'[w] \notin OnTop
      /\ stack'[w] = <<>> \/ stack'[w] = stack[w]
  <2>1. ip' = ip /\ prog' = prog /\ cur' = cur
    BY DEF Suspend, program
  <2>2. CASE Len(stack[w]) = 1 /\ cur[w] # None
    <3>1. pc' = [pc EXCEPT ![w] = "after"] /\ stack' = [stack EXCEPT ![w] = <<>>]
      BY <2>2 DEF Suspend, Go
    <3> QED
      BY <1>1, <2>1, <3>1 DEF TypeOK, OnTop
  <2>3. CASE ~(Len(stack[w]) = 1 /\ cur[w] # None)
    <3>1. pc' = [pc EXCEPT ![w] = "spawned"] /\ stack' = stack
      BY <2>3 DEF Suspend, Go
    <3> QED
      BY <1>1, <2>1, <3>1 DEF TypeOK, OnTop
  <2> QED
    BY <2>1, <2>2, <2>3
<1>4. ASSUME NEW c \in Coros
      PROVE  /\ frame'[c] # frame[c] => Touched(w, c)
             /\ frame'[c] = "none" => frame[c] = "none"
  BY <1>1, <1>2 DEF Suspend, TypeOK
<1>5. ASSUME NEW i \in 2..Len(stack'[w]), RampAbove(w, i)'
      PROVE  (SpawnedInside(prog, stack[w][i]) /\ NotYetYielded(stack[w][i]))'
  <2>1. CASE stack'[w] = stack[w]
    <3>1. RampAbove(w, i) /\ i \in 2..Len(stack[w])
      BY <1>3, <1>5, <2>1 DEF RampAbove
    <3> QED
      BY <1>3, <2>1, <3>1 DEF RampsRun, NotYetYielded
  <2>2. CASE stack'[w] = <<>>
    BY <2>2
  <2> QED
    BY <1>3, <2>1, <2>2
<1> QED
  BY <1>3, <1>4, <1>5 DEF FramesKept, RampsKept

\* The ramp on top leaves; what is below goes on.
LEMMA ReturnKept ==
    ASSUME ChanInv, RampsRun, NEW w \in Workers, SpawnReturn(w), prog' = prog, ip' = ip,
           pc[w] \in {"spawned", "spawnedQ"}
    PROVE  RampsKept(w)
<1>1. TypeOK /\ stack[w] \in Seq(Coros) /\ stack[w] # <<>>
  BY DEF ChanInv, StealInv, TypeOK, ThreadShape, InBody
<1>2. stack'[w] = Front(stack[w]) /\ cur' = cur
  BY <1>1 DEF SpawnReturn, TypeOK
<1>3. ASSUME NEW i \in 2..Len(stack'[w])
      PROVE  i \in 2..Len(stack[w]) /\ i < Len(stack[w]) /\ stack'[w][i] = stack[w][i]
  <2>1. PICK s \in Seq(Coros) : s = stack[w] /\ s # <<>>
    BY <1>1
  <2>2. PICK n \in Nat : n = Len(s) /\ n > 0
    BY <2>1, LenPositive
  <2>3. Len(Front(s)) = n - 1 /\ \A j \in 1..(n - 1) : Front(s)[j] = s[j]
    BY <2>2 DEF Front
  <2> QED
    BY <1>2, <1>3, <2>1, <2>2, <2>3
<1>4. ASSUME NEW i \in 2..Len(stack'[w]), RampAbove(w, i)'
      PROVE  (SpawnedInside(prog, stack[w][i]) /\ NotYetYielded(stack[w][i]))'
  <2>1. i \in 2..Len(stack[w]) /\ RampAbove(w, i) /\ stack'[w][i] = stack[w][i]
    BY <1>2, <1>3, <1>4 DEF RampAbove
  <2> QED
    BY <2>1 DEF RampsRun, NotYetYielded
<1> QED
  BY <1>4 DEF RampsKept

LEMMA SpawnedKept ==
    ASSUME ChanInv, RampsRun, NEW w \in Workers, Own(w),
           \/ AfterDone(w) \/ SpawnedDone(w) \/ SpawnedParked(w) \/ SpawnedReady(w)
           \/ SpawnedCount(w)
    PROVE  FramesKept(w) /\ RampsKept(w)
<1>1. TypeOK /\ ThreadShape(w) /\ StealInv
  BY DEF ChanInv, StealInv
<1>2. prog' = prog /\ ip' = ip
  BY DEF Own, AfterDone, SpawnedDone, SpawnedParked, SpawnedParkedLive, SpawnedReady, SpawnedCount,
         Complete, PushReady, coros
<1>3. ASSUME NEW c \in Coros
      PROVE  /\ frame'[c] # frame[c] => frame[c] = "final"
             /\ frame'[c] = "none" => frame[c] = "none"
  <2>1. CASE AfterDone(w) \/ SpawnedDone(w)
    <3>1. PICK d : frame[d] = "final" /\ frame' = [frame EXCEPT ![d] = "destroyed"]
      BY <2>1 DEF AfterDone, SpawnedDone, Complete
    <3> QED
      BY <1>1, <3>1 DEF TypeOK
  <2>2. CASE SpawnedParked(w) \/ SpawnedReady(w) \/ SpawnedCount(w)
    BY <2>2 DEF SpawnedParked, SpawnedParkedLive, SpawnedReady, SpawnedCount, PushReady, coros
  <2> QED
    BY <2>1, <2>2
<1>4. CASE SpawnedDone(w) \/ SpawnedParked(w) \/ SpawnedCount(w)
  <2>1. SpawnReturn(w) /\ pc[w] \in {"spawned", "spawnedQ"}
    BY <1>4 DEF SpawnedDone, SpawnedParked, SpawnedParkedLive, SpawnedCount, At
  <2> QED
    BY <1>2, <1>3, <2>1, ReturnKept DEF FramesKept
<1>5. CASE AfterDone(w)
  <2>1. stack' = stack /\ stack[w] = <<>>
    BY <1>1, <1>5 DEF AfterDone, Release, ThreadShape, InBody, At
  <2>2. 2..Len(stack'[w]) = {}
    BY <2>1
  <2> QED
    BY <1>2, <1>3, <2>2 DEF FramesKept, RampsKept
<1>6. CASE SpawnedReady(w)
  <2>1. stack' = stack /\ cur' = cur /\ pc'[w] \notin OnTop
    BY <1>1, <1>6 DEF SpawnedReady, Go, TypeOK, OnTop
  <2>2. ASSUME NEW i \in 2..Len(stack'[w]), RampAbove(w, i)'
        PROVE  (SpawnedInside(prog, stack[w][i]) /\ NotYetYielded(stack[w][i]))'
    <3>1. RampAbove(w, i) /\ i \in 2..Len(stack[w])
      BY <2>1, <2>2 DEF RampAbove
    <3> QED
      BY <1>2, <2>1, <3>1 DEF RampsRun, NotYetYielded
  <2> QED
    BY <1>2, <1>3, <2>2 DEF FramesKept, RampsKept
<1> QED
  BY <1>4, <1>5, <1>6

\* A ramp that a body starts has run nothing yet.
LEMMA StartKept ==
    ASSUME ChanInv, RampsRun, Fresh, NEW w \in Workers, Own(w), NEW c \in Coros, StartRamp(w, c),
           \/ /\ pc[w] = "exec" /\ Advance(w) /\ Current(Running(w)).op = "spawn"
              /\ c = Current(Running(w)).co
           \/ pc[w] = "main" /\ cur[w] = None /\ ip' = ip
    PROVE  FramesKept(w) /\ RampsKept(w)
<1>1. TypeOK /\ StealInv /\ FramesApart /\ stack[w] \in Seq(Coros) /\ prog' = prog
  BY DEF ChanInv, StealInv, TypeOK, Own
<1>2. /\ stack'[w] = Append(stack[w], c) /\ cur' = cur /\ frame[c] = "none"
      /\ frame' = [frame EXCEPT ![c] = "executing"]
  BY <1>1 DEF StartRamp, TypeOK
<1> DEFINE t == Running(w)
<1>3. pc[w] = "exec" => /\ t \in Coros /\ t = stack[w][Len(stack[w])] /\ OnStack(w, Len(stack[w]))
                        /\ Touched(w, t) /\ frame[t] = "executing"
  <2>1. pc[w] = "exec" => /\ t \in Coros /\ t = stack[w][Len(stack[w])] /\ OnStack(w, Len(stack[w]))
                          /\ Touched(w, t)
    BY <1>1, TopTouched DEF OnTop
  <2> QED
    BY <2>1 DEF ChanInv, FramesRun, OnStack, At
<1>4. ASSUME NEW d \in Coros
      PROVE  /\ frame'[d] # frame[d] => frame[d] = "none"
             /\ frame'[d] = "none" => frame[d] = "none"
             /\ ip'[d] # ip[d] => pc[w] = "exec" /\ d = t
  BY <1>1, <1>2 DEF Advance, TypeOK
<1>5. ASSUME NEW i \in 2..Len(stack'[w]), RampAbove(w, i)'
      PROVE  (SpawnedInside(prog, stack[w][i]) /\ NotYetYielded(stack[w][i]))'
  <2>1. cur[w] # None /\ pc[w] = "exec"
    BY <1>2, <1>5 DEF RampAbove
  <2>2. Advance(w) /\ Current(t).op = "spawn" /\ c = Current(t).co
    BY <2>1
  <2>3. prog.body[t] \in Seq(Instr) /\ ip[t] \in Nat \ {0}
    BY <1>1, <1>3, <2>1, ProgramsAssumption DEF TypeOK
  <2>4. ip[t] \in DOMAIN prog.body[t] /\ prog.body[t][ip[t]] = Current(t)
    BY <2>2, <2>3 DEF Current
  <2>5. (i \in 2..Len(stack[w]) /\ stack'[w][i] = stack[w][i]) \/ stack'[w][i] = c
    <3>1. PICK s \in Seq(Coros) : s = stack[w]
      BY <1>1
    <3>2. ASSUME NEW j \in 2..Len(Append(s, c))
          PROVE  (j \in 2..Len(s) /\ Append(s, c)[j] = s[j]) \/ Append(s, c)[j] = c
      BY <3>2
    <3> QED
      BY <1>2, <1>5, <3>1, <3>2
  <2>6. CASE stack'[w][i] = c
    <3>1. SpawnedInside(prog, c)
      BY <1>3, <2>1, <2>2, <2>4 DEF SpawnedInside
    <3>2. c # t /\ ip'[c] = 1
      BY <1>1, <1>2, <1>3, <1>4, <2>1 DEF Fresh
    <3>3. 1..(ip'[c] - 1) = {}
      BY <3>2
    <3> QED
      BY <1>1, <2>6, <3>1, <3>3 DEF NotYetYielded
  <2>7. CASE i \in 2..Len(stack[w]) /\ stack'[w][i] = stack[w][i]
    <3> DEFINE d == stack[w][i]
           n == Len(stack[w])
    <3>1. i \in 1..n /\ d \in Coros
      <4>1. PICK s \in Seq(Coros) : s = stack[w]
        BY <1>1
      <4>2. i \in 2..Len(s) => i \in 1..Len(s) /\ s[i] \in Coros
        OBVIOUS
      <4> QED
        BY <2>7, <4>1, <4>2
    <3>2. RampAbove(w, i)
      BY <2>1, <2>7, <3>1 DEF RampAbove, OnTop
    <3>3. SpawnedInside(prog, d) /\ NotYetYielded(d)
      BY <2>7, <3>2 DEF RampsRun
    <3>4. CASE d # t
      BY <1>1, <1>4, <2>7, <3>1, <3>3, <3>4 DEF NotYetYielded
    <3>5. CASE d = t
      <4>1. ip'[t] = ip[t] + 1
        BY <1>1, <1>3, <2>1, <2>2 DEF Advance, TypeOK
      <4>2. \A h \in 1..(ip'[t] - 1) : h \in 1..(ip[t] - 1) \/ h = ip[t]
        BY <2>3, <4>1
      <4>3. ~Yields(prog.body[t][ip[t]])
        BY <2>2, <2>4 DEF Yields
      <4> QED
        BY <1>1, <2>7, <3>3, <3>5, <4>2, <4>3 DEF NotYetYielded
    <3> QED
      BY <3>4, <3>5
  <2> QED
    BY <2>5, <2>6, <2>7
<1> QED
  BY <1>3, <1>4, <1>5 DEF FramesKept, RampsKept

LEMMA StepKept ==
    ASSUME ChanInv, ShapeInv, Regular(prog), TypeOK', NEW w \in Workers, Own(w),
           Step(w) \/ (w = 0 /\ (MainSpawn \/ MainAwait \/ MainEnd))
    PROVE  FramesKept(w) /\ RampsKept(w)
<1>1. StealInv /\ TypeOK /\ RampsRun /\ Fresh /\ HandShape(w)
  BY DEF ChanInv, StealInv, ShapeInv
<1>2. CASE \/ Pick(w) \/ Idle(w) \/ ResumeUndefined(w) \/ Fin1(w) \/ Fin2(w) \/ AfterParked(w)
           \/ AfterRequeue(w) \/ RequeuedCount(w) \/ RequeuedStop(w)
           \/ (w = 0 /\ (MainAwait \/ MainEnd))
  <2>1. stack'[w] = <<>> /\ frame' = frame /\ ip' = ip
    BY <1>1, <1>2, OutsideKept
  <2>2. 2..Len(stack'[w]) = {}
    BY <2>1
  <2> QED
    BY <2>1, <2>2 DEF FramesKept, RampsKept
<1>3. CASE \/ ExecYield(w) \/ ExecAwait(w) \/ ExecReturn(w) \/ ExecSend(w) \/ ParkSend(w)
           \/ ExecRecv(w) \/ ParkRecv(w) \/ WakeNext(w) \/ WakeLocal(w) \/ WakeGlobal(w)
           \/ WokenCount(w)
  BY <1>1, <1>3, InsideKept
<1>4. CASE Resume(w)
  BY <1>4, ResumeKept
<1>5. CASE Suspend(w)
  BY <1>1, <1>5, SuspendKept
<1>6. CASE \/ AfterDone(w) \/ SpawnedDone(w) \/ SpawnedParked(w) \/ SpawnedReady(w)
           \/ SpawnedCount(w)
  BY <1>1, <1>6, SpawnedKept
<1>7. CASE ExecSpawn(w)
  <2>1. /\ Running(w) \in Coros /\ pc[w] = "exec" /\ Current(Running(w)).op = "spawn"
        /\ Advance(w) /\ StartRamp(w, Current(Running(w)).co)
    BY <1>1, <1>7, TopTouched DEF ExecSpawn, Executing, At, OnTop
  <2>2. Current(Running(w)).co \in Coros
    BY <1>1, <2>1, CurrentType
  <2> QED
    BY <1>1, <2>1, <2>2, StartKept
<1>8. CASE w = 0 /\ MainSpawn
  <2>1. prog.main[mainIp].co \in Coros
    <3>1. prog.main \in Seq(MainCall) /\ mainIp \in Nat \ {0}
      BY <1>1, ProgramsAssumption DEF TypeOK
    <3>2. prog.main[mainIp] \in MainCall /\ prog.main[mainIp].op = "spawn"
      BY <1>8, <3>1 DEF MainSpawn, MainCalls
    <3> QED
      BY <3>2 DEF MainCall
  <2>2. pc[w] = "main" /\ StartRamp(w, prog.main[mainIp].co) /\ ip' = ip
    BY <1>8 DEF MainSpawn, MainCalls, At
  <2>3. cur[w] = None
    BY <1>1, <2>2 DEF HandShape, IdlePcs
  <2> QED
    BY <1>1, <2>1, <2>2, <2>3, StartKept
<1> QED
  BY <1>1, <1>2, <1>3, <1>4, <1>5, <1>6, <1>7, <1>8, NoCancel DEF Step, Exec, RunOne

\* What one thread does keeps every thread's shape.
LEMMA ShapeStep ==
    ASSUME ChanInv, ShapeInv, TypeOK', NEW w \in Workers, Own(w), HandShape(w)',
           FramesKept(w), RampsKept(w)
    PROVE  ShapeInv'
<1>1. /\ TypeOK /\ FramesRun /\ FramesApart /\ WorkersTogether /\ RampsRun /\ Fresh /\ RunOnly
      /\ \A v \in Workers : HandShape(v) /\ ThreadShape(v)
  BY DEF ChanInv, StealInv, ShapeInv
<1>2. ASSUME NEW c \in Coros, Touched(w, c)
      PROVE  /\ frame[c] \in {"executing", "final", "destroyed"}
             /\ \A v \in Workers : v # w => ~Touched(v, c)
  BY <1>1, <1>2 DEF Touched, FramesRun, FramesApart
<1>3. ASSUME NEW v \in Workers, v # w
      PROVE  HandShape(v)'
  <2>1. /\ pc'[v] = pc[v] /\ stack'[v] = stack[v] /\ cur'[v] = cur[v] /\ wid'[v] = wid[v]
        /\ wakes'[v] = wakes[v] /\ parked'[v] = parked[v] /\ HandShape(v)
    BY <1>1, <1>3 DEF Own
  <2>2. ASSUME cur[v] # None, parked[v], pc[v] \in {"suspend", "after"}
        PROVE  frame'[cur[v]] = frame[cur[v]]
    <3> DEFINE c == cur[v]
    <3>1. c \in Coros /\ stack[v] \in Seq(Coros)
      BY <1>1, <2>2 DEF TypeOK
    <3>2. LookedAtBy(v, c) /\ ~Untouched(c)
      BY <2>2 DEF LookedAtBy, Untouched, Fetching
    <3>3. CASE pc[v] = "suspend"
      <4>1. Len(stack[v]) = 1 /\ frame[c] = "executing"
        BY <2>1, <2>2, <3>3 DEF HandShape, Fetching
      <4>2. stack[v] # <<>>
        BY <1>1, <3>3 DEF ThreadShape, InBody
      <4>3. Touched(v, c)
        <5>1. stack[v][1] = c
          BY <2>1, <2>2, <4>2 DEF HandShape
        <5>2. 1 \in 1..Len(stack[v])
          BY <3>1, <4>2, LenPositive
        <5> QED
          BY <3>3, <5>1, <5>2 DEF Touched, OnStack
      <4> QED
        BY <1>2, <1>3, <3>1, <3>2, <4>1, <4>3 DEF FramesKept
    <3>4. CASE pc[v] = "after"
      <4>1. frame[c] = "suspended"
        BY <2>1, <2>2, <3>4 DEF HandShape, Fetching
      <4> QED
        BY <1>2, <3>1, <3>2, <4>1 DEF FramesKept
    <3> QED
      BY <2>2, <3>3, <3>4
  <2> QED
    BY <2>1, <2>2 DEF HandShape
<1>4. RampsRun'
  <2>1. ASSUME NEW v \in Workers, v # w, NEW i \in 2..Len(stack'[v]), RampAbove(v, i)'
        PROVE  (SpawnedInside(prog, stack[v][i]) /\ NotYetYielded(stack[v][i]))'
    <3>1. /\ pc'[v] = pc[v] /\ stack'[v] = stack[v] /\ cur'[v] = cur[v] /\ prog' = prog
      BY <2>1 DEF Own
    <3>2. i \in 2..Len(stack[v]) /\ RampAbove(v, i)
      BY <2>1, <3>1 DEF RampAbove
    <3>3. SpawnedInside(prog, stack[v][i]) /\ NotYetYielded(stack[v][i])
      BY <1>1, <3>2 DEF RampsRun
    <3>4. i \in 1..Len(stack[v]) /\ stack[v][i] \in Coros
      <4>1. PICK s \in Seq(Coros) : s = stack[v]
        BY <1>1 DEF TypeOK
      <4>2. i \in 2..Len(s) => i \in 1..Len(s) /\ s[i] \in Coros
        OBVIOUS
      <4> QED
        BY <3>2, <4>1, <4>2
    <3>5. Touched(v, stack[v][i])
      BY <3>2, <3>4 DEF Touched, OnStack, RampAbove, OnTop
    <3>6. ip'[stack[v][i]] = ip[stack[v][i]]
      BY <1>2, <2>1, <3>4, <3>5 DEF FramesKept
    <3> QED
      BY <3>1, <3>3, <3>6 DEF NotYetYielded
  <2> QED
    BY <2>1 DEF RampsRun, RampsKept
<1>5. Fresh'
  BY <1>1, <1>2 DEF Fresh, FramesKept
<1>6. RunOnly'
  <2>1. wid'[0] = wid[0] /\ wid[w] = wid[0] /\ prog' = prog /\ mainIp \in Nat \ {0}
    BY <1>1, ZeroIsWorker DEF Own, WorkersTogether, TypeOK
  <2>2. mainIp' = mainIp \/ (mainIp' = mainIp + 1 /\ ~wid[0])
    BY <2>1 DEF Own
  <2>3. Ran => Ran'
    <3>1. \A i \in 1..(mainIp - 1) : i \in 1..(mainIp' - 1)
      BY <2>1, <2>2
    <3> QED
      BY <2>1, <3>1 DEF Ran
  <2>4. wid'[0] => mainIp' \in DOMAIN prog'.main /\ prog'.main[mainIp'].op = "run"
    BY <1>1, <2>1, <2>2 DEF RunOnly
  <2>5. deadlock' => shutdown' /\ (wid'[0] \/ Ran')
    BY <1>1, <2>1, <2>3 DEF RunOnly, Own
  <2>6. \A v \in Workers : pc'[v] = "stopped" => shutdown'
    BY <1>1 DEF RunOnly, Own
  <2> QED
    BY <2>4, <2>5, <2>6 DEF RunOnly
<1> QED
  BY <1>3, <1>4, <1>5, <1>6 DEF ShapeInv

\* run_all begins and ends with every thread outside any body.
LEMMA WorkersShape ==
    ASSUME ChanInv, ShapeInv, Regular(prog), MainRun \/ MainJoin
    PROVE  /\ \A w \in Workers : /\ pc[w] \in {"main", "off", "stopped"}
                                 /\ pc'[w] \in {"main", "off", "top"}
                                 /\ stack[w] = <<>> /\ cur[w] = None /\ wakes[w] = <<>>
           /\ UNCHANGED <<stack, cur, frame, ip, done, wakes, parked, prog>>
           /\ deadlock => deadlock'
           /\ ShapeInv'
<1>1. /\ TypeOK /\ OthersOff /\ Fresh /\ RunOnly /\ WorkersTogether
      /\ \A v \in Workers : HandShape(v) /\ ThreadShape(v)
  BY DEF ChanInv, StealInv, ShapeInv
<1>2. \A w \in Workers : /\ pc[w] \in {"main", "off", "stopped"}
                         /\ pc'[w] \in {"main", "off", "top"}
                         /\ MainJoin => pc[w] = "stopped"
                         /\ MainRun => pc[w] \in {"main", "off"}
  <2>1. CASE MainRun
    <3>1. pc[0] = "main" /\ ~wid[0]
      BY <1>1, <2>1, ZeroIsWorker DEF MainRun, MainCalls, At, ThreadShape
    <3>2. \A w \in Workers : pc[w] \in {"main", "off"} /\ pc'[w] = "top"
      BY <1>1, <2>1, <3>1 DEF MainRun, OthersOff, At
    <3>3. ~MainJoin
      BY <3>1, ZeroIsWorker DEF MainJoin, At
    <3> QED
      BY <3>2, <3>3
  <2>2. CASE MainJoin
    <3>1. \A w \in Workers : pc[w] = "stopped" /\ pc'[w] \in {"main", "off"}
      BY <2>2 DEF MainJoin, At
    <3>2. ~MainRun
      BY <3>1, ZeroIsWorker DEF MainRun, MainCalls, At
    <3> QED
      BY <3>1, <3>2
  <2> QED
    BY <2>1, <2>2
<1>3. UNCHANGED <<stack, cur, frame, ip, done, wakes, parked, prog>>
  BY DEF MainRun, MainJoin, coros, waking, program
<1>4. \A w \in Workers : stack[w] = <<>> /\ cur[w] = None /\ wakes[w] = <<>>
  BY <1>1, <1>2 DEF HandShape, ThreadShape, IdlePcs, InBody
<1>5. ASSUME NEW w \in Workers PROVE HandShape(w)'
  <2>1. pc'[w] = "top" => wid'[w]
    BY <1>2 DEF MainRun, MainJoin
  <2> QED
    BY <1>2, <1>3, <1>4, <1>5, <2>1 DEF HandShape, IdlePcs, RunPcs
<1>6. RampsRun' /\ Fresh'
  BY <1>1, <1>3, <1>4 DEF RampsRun, RampAbove, Fresh
<1>7. prog.main \in Seq(MainCall) /\ mainIp \in Nat \ {0}
  BY <1>1, ProgramsAssumption DEF TypeOK
<1>8. RunOnly' /\ (deadlock => deadlock')
  <2>1. CASE MainRun
    <3>1. /\ mainIp <= Len(prog.main) /\ prog.main[mainIp].op = "run" /\ pc[0] = "main"
          /\ mainIp' = mainIp /\ ~deadlock'
      BY <2>1 DEF MainRun, MainCalls, program, At
    <3>2. mainIp \in DOMAIN prog.main
      BY <1>7, <3>1
    <3>3. ~wid[0]
      BY <1>1, <3>1, ZeroIsWorker DEF ThreadShape
    <3>4. ~Ran
      <4> SUFFICES ASSUME NEW i \in 1..(mainIp - 1), prog.main[i].op = "run" PROVE FALSE
        BY DEF Ran
      <4>1. i \in DOMAIN prog.main /\ i # mainIp
        BY <1>7, <3>1
      <4> QED
        BY <3>1, <3>2, <4>1 DEF Regular, RunsOnce
    <3>5. ~deadlock
      BY <1>1, <3>3, <3>4 DEF RunOnly
    <3>6. \A w \in Workers : pc'[w] # "stopped"
      BY <2>1 DEF MainRun
    <3> QED
      BY <1>3, <3>1, <3>2, <3>5, <3>6 DEF RunOnly
  <2>2. CASE MainJoin
    <3>1. mainIp' = mainIp + 1 /\ UNCHANGED <<shutdown, deadlock>> /\ ~wid'[0]
      BY <2>2, ZeroIsWorker DEF MainJoin, flags
    <3>2. wid[0]
      BY <1>1, <1>2, <2>2, ZeroIsWorker DEF HandShape, RunPcs
    <3>3. Ran'
      <4>1. mainIp \in 1..(mainIp' - 1) /\ prog'.main[mainIp].op = "run"
        BY <1>1, <1>3, <1>7, <3>1, <3>2 DEF RunOnly
      <4> QED
        BY <4>1 DEF Ran
    <3>4. \A w \in Workers : pc'[w] # "stopped"
      BY <2>2 DEF MainJoin
    <3> QED
      BY <1>1, <3>1, <3>3, <3>4 DEF RunOnly
  <2> QED
    BY <2>1, <2>2
<1> QED
  BY <1>2, <1>3, <1>4, <1>5, <1>6, <1>8 DEF ShapeInv

LEMMA StillShape ==
    ASSUME ShapeInv, UNCHANGED <<prog, mainIp, flags, frame, ip, pc, wid, cur, stack, parked, wakes>>
    PROVE  ShapeInv'
<1>1. \A w \in Workers : HandShape(w)'
  BY DEF ShapeInv, HandShape
<1>2. RampsRun' /\ Fresh'
  BY DEF ShapeInv, RampsRun, RampAbove, NotYetYielded, Fresh
<1>3. RunOnly'
  BY DEF ShapeInv, RunOnly, Ran, flags
<1> QED
  BY <1>1, <1>2, <1>3 DEF ShapeInv

\* A dead-lock that was announced stays so: run_all is not called again.
LEMMA NextShape ==
    ASSUME ChanInv, ChanInv', ShapeInv, Regular(prog), [Next]_vars
    PROVE  ShapeInv' /\ prog' = prog /\ (deadlock => deadlock')
<1>1. TypeOK' /\ \A w \in Workers : HandShape(w)
  BY DEF ChanInv, StealInv, ShapeInv
<1>2. ASSUME NEW w \in Workers, Step(w) \/ (w = 0 /\ (MainSpawn \/ MainAwait \/ MainEnd))
      PROVE  ShapeInv' /\ prog' = prog /\ (deadlock => deadlock')
  <2>1. Own(w) /\ HandShape(w)'
    BY <1>1, <1>2, StepOwn DEF ShapeInv
  <2>2. FramesKept(w) /\ RampsKept(w)
    BY <1>1, <1>2, <2>1, StepKept
  <2> QED
    BY <1>1, <2>1, <2>2, ShapeStep DEF Own
<1>3. CASE MainRun \/ MainJoin
  BY <1>3, WorkersShape
<1>4. ASSUME NEW c \in Coros, TimePasses(c)
      PROVE  ShapeInv' /\ prog' = prog /\ (deadlock => deadlock')
  BY <1>4, StillShape DEF TimePasses, program, locals, waking, flags
<1>5. CASE UNCHANGED vars
  BY <1>5, StillShape DEF vars, shared, coros, program, locals, waking, flags
<1> QED
  BY <1>2, <1>3, <1>4, <1>5, ZeroIsWorker DEF Next, Main, Terminated

LEMMA InitShape == Init => ShapeInv
<1> SUFFICES ASSUME Init PROVE ShapeInv
  OBVIOUS
<1>1. \A w \in Workers : /\ pc[w] \in {"main", "off"} /\ cur[w] = None /\ stack[w] = <<>>
                         /\ wakes[w] = <<>> /\ ~wid[w]
  BY DEF Init
<1>2. \A w \in Workers : HandShape(w)
  BY <1>1 DEF HandShape, IdlePcs, RunPcs
<1>3. RampsRun /\ Fresh
  BY <1>1 DEF RampsRun, RampAbove, Fresh, Init
<1>4. RunOnly
  BY <1>1, ZeroIsWorker DEF RunOnly, Init
<1> QED
  BY <1>2, <1>3, <1>4 DEF ShapeInv

-----------------------------------------------------------------------------
(* Lists of coroutines, one for each place, that have nothing in common.     *)
Apart(L) ==
    /\ \A p \in Places : Distinct(L[p])
    /\ \A p, q \in Places : \A c : Listed(L[p], c) /\ Listed(L[q], c) => p = q

Somewhere(L, c) == \E p \in Places : Listed(L[p], c)

\* c goes from one place to another.
LEMMA MovesApart ==
    ASSUME NEW L, NEW M, Apart(L), NEW a \in Places, NEW b \in Places, a # b, NEW c,
           Loses(L[a], M[a], c), Gains(L[b], M[b], c),
           \A p \in Places : p # a /\ p # b => M[p] = L[p]
    PROVE  Apart(M) /\ \A d : Somewhere(M, d) <=> Somewhere(L, d)
<1>1. ASSUME NEW p \in Places, NEW d, Listed(M[p], d)
      PROVE  \/ Listed(L[p], d) /\ (d = c => p = b)
             \/ p = b /\ d = c
  <2>1. CASE p = a
    BY <1>1, <2>1 DEF Loses
  <2>2. CASE p = b
    BY <1>1, <2>2 DEF Gains
  <2>3. CASE p # a /\ p # b
    BY <1>1, <2>3 DEF Loses, Apart
  <2> QED
    BY <2>1, <2>2, <2>3
<1>2. \A p \in Places : Distinct(M[p])
  BY DEF Loses, Gains, Apart
<1>3. ASSUME NEW p \in Places, NEW q \in Places, NEW d, Listed(M[p], d), Listed(M[q], d)
      PROVE  p = q
  BY <1>1, <1>3 DEF Apart
<1>4. ASSUME NEW d PROVE Somewhere(M, d) <=> Somewhere(L, d)
  <2>1. Listed(M[b], c) /\ Listed(L[a], c)
    BY DEF Loses, Gains
  <2>2. ASSUME NEW p \in Places, Listed(L[p], d), d # c PROVE Listed(M[p], d)
    BY <2>2 DEF Loses, Gains
  <2>3. Somewhere(L, d) => Somewhere(M, d)
    BY <2>1, <2>2 DEF Somewhere
  <2>4. Somewhere(M, d) => Somewhere(L, d)
    BY <1>1, <2>1 DEF Somewhere
  <2> QED
    BY <2>3, <2>4
<1> QED
  BY <1>2, <1>3, <1>4 DEF Apart

\* c leaves.
LEMMA LeavesApart ==
    ASSUME NEW L, NEW M, Apart(L), NEW a \in Places, NEW c, Loses(L[a], M[a], c),
           \A p \in Places : p # a => M[p] = L[p]
    PROVE  Apart(M) /\ \A d : Somewhere(M, d) <=> Somewhere(L, d) /\ d # c
<1>1. ASSUME NEW p \in Places, NEW d
      PROVE  Listed(M[p], d) <=> Listed(L[p], d) /\ d # c
  BY DEF Loses, Apart
<1>2. \A p \in Places : Distinct(M[p])
  BY DEF Loses, Apart
<1>3. ASSUME NEW d PROVE Somewhere(M, d) <=> Somewhere(L, d) /\ d # c
  BY <1>1 DEF Somewhere
<1>4. ASSUME NEW p \in Places, NEW q \in Places, NEW d, Listed(M[p], d), Listed(M[q], d)
      PROVE  p = q
  BY <1>1, <1>4 DEF Apart
<1> QED
  BY <1>2, <1>3, <1>4 DEF Apart

\* c comes from nowhere.
LEMMA JoinsApart ==
    ASSUME NEW L, NEW M, Apart(L), NEW b \in Places, NEW c, ~Somewhere(L, c),
           Gains(L[b], M[b], c), \A p \in Places : p # b => M[p] = L[p]
    PROVE  Apart(M) /\ \A d : Somewhere(M, d) <=> Somewhere(L, d) \/ d = c
<1>1. ASSUME NEW p \in Places, NEW d
      PROVE  Listed(M[p], d) <=> Listed(L[p], d) \/ (p = b /\ d = c)
  BY DEF Gains
<1>2. \A p \in Places : Distinct(M[p])
  BY DEF Gains, Apart
<1>3. ASSUME NEW d PROVE Somewhere(M, d) <=> Somewhere(L, d) \/ d = c
  BY <1>1 DEF Somewhere
<1>4. ASSUME NEW p \in Places, NEW q \in Places, NEW d, Listed(M[p], d), Listed(M[q], d)
      PROVE  p = q
  BY <1>1, <1>4 DEF Apart, Somewhere
<1> QED
  BY <1>2, <1>3, <1>4 DEF Apart

\* Some lists are dropped.
LEMMA DropsApart ==
    ASSUME NEW L, NEW M, Apart(L), \A p \in Places : M[p] = L[p] \/ M[p] = <<>>
    PROVE  Apart(M) /\ \A d : Somewhere(M, d) => Somewhere(L, d)
<1>1. ASSUME NEW p \in Places, NEW d, Listed(M[p], d) PROVE Listed(L[p], d)
  BY <1>1 DEF Listed
<1>2. \A p \in Places : Distinct(M[p])
  BY DEF Apart, Distinct
<1>3. ASSUME NEW p \in Places, NEW q \in Places, NEW d, Listed(M[p], d), Listed(M[q], d)
      PROVE  p = q
  BY <1>1, <1>3 DEF Apart
<1> QED
  BY <1>1, <1>2, <1>3 DEF Apart, Somewhere

LEMMA EmptyDistinct == Distinct(<<>>) /\ \A c : ~Listed(<<>>, c)
  BY DEF Distinct, Listed

LEMMA SingleFacts ==
    ASSUME NEW c
    PROVE  Distinct(<<c>>) /\ \A d : Listed(<<c>>, d) <=> d = c
  BY DEF Distinct, Listed

\* A list of one.
LEMMA SingleMoves ==
    ASSUME NEW c
    PROVE  Loses(<<c>>, <<>>, c) /\ Gains(<<>>, <<c>>, c)
  BY EmptyDistinct, SingleFacts DEF Loses, Gains

-----------------------------------------------------------------------------
(* What is in each place.                                                    *)
ThreadKinds == {"local", "wakes", "next", "held"}
ChannelKinds == {"rwait", "swait"}

lists == [p \in Places |-> Content(p)]

LEMMA PlaceCases ==
    ASSUME NEW p \in Places
    PROVE  \/ p = <<"ready", 0>>
           \/ \E v \in Workers : \/ p = <<"local", v>> \/ p = <<"wakes", v>>
                                 \/ p = <<"next", v>> \/ p = <<"held", v>>
           \/ \E k \in Channels : p = <<"rwait", k>> \/ p = <<"swait", k>>
  BY DEF Places

LEMMA PlaceTypes ==
    /\ <<"ready", 0>> \in Places
    /\ \A v \in Workers : /\ <<"local", v>> \in Places /\ <<"wakes", v>> \in Places
                          /\ <<"next", v>> \in Places /\ <<"held", v>> \in Places
    /\ \A k \in Channels : <<"rwait", k>> \in Places /\ <<"swait", k>> \in Places
  BY DEF Places

SendersOf(s) == [i \in DOMAIN s |-> s[i].co]

LEMMA ListIs ==
    /\ lists[<<"ready", 0>>] = ready
    /\ \A v \in Workers :
          /\ lists[<<"local", v>>] = localq[v]
          /\ lists[<<"wakes", v>>] = wakes[v]
          /\ lists[<<"next", v>>] = IF next[v] = None THEN <<>> ELSE <<next[v]>>
          /\ lists[<<"held", v>>] = IF Holds(v) THEN <<cur[v]>> ELSE <<>>
    /\ \A k \in Channels :
          /\ lists[<<"rwait", k>>] = chan[k].rwait
          /\ lists[<<"swait", k>>] = SendersOf(chan[k].swait)
  BY PlaceTypes DEF lists, Content, Single, SendersOf

LEMMA NextListIs ==
    /\ lists'[<<"ready", 0>>] = ready'
    /\ \A v \in Workers :
          /\ lists'[<<"local", v>>] = localq'[v]
          /\ lists'[<<"wakes", v>>] = wakes'[v]
          /\ lists'[<<"next", v>>] = IF next'[v] = None THEN <<>> ELSE <<next'[v]>>
          /\ lists'[<<"held", v>>] = IF Holds(v)' THEN <<cur'[v]>> ELSE <<>>
    /\ \A k \in Channels :
          /\ lists'[<<"rwait", k>>] = chan'[k].rwait
          /\ lists'[<<"swait", k>>] = SendersOf(chan'[k].swait)
  BY PlaceTypes DEF lists, Content, Single, SendersOf

LEMMA SendersOfType ==
    ASSUME NEW s \in Seq(Parcel)
    PROVE  /\ SendersOf(s) \in Seq(Coros) /\ Len(SendersOf(s)) = Len(s)
           /\ \A i \in 1..Len(s) : SendersOf(s)[i] = s[i].co
           /\ s = <<>> <=> SendersOf(s) = <<>>
<1>1. /\ Len(s) \in Nat /\ DOMAIN s = 1..Len(s) /\ \A i \in 1..Len(s) : s[i].co \in Coros
  <2>1. \A i \in 1..Len(s) : s[i] \in Parcel
    BY ElementOfSeq
  <2> QED
    BY <2>1 DEF Parcel
<1>2. SendersOf(s) \in [1..Len(s) -> Coros]
  BY <1>1 DEF SendersOf
<1>3. SendersOf(s) \in Seq(Coros)
  <2>1. Seq(Coros) = UNION {[1..n -> Coros] : n \in Nat}
    BY SeqDef
  <2> QED
    BY <1>1, <1>2, <2>1
<1>4. Len(SendersOf(s)) = Len(s)
  BY <1>1, <1>2, <1>3, LenProperties
<1>5. s = <<>> <=> SendersOf(s) = <<>>
  BY <1>3, <1>4, EmptySeq
<1> QED
  BY <1>1, <1>3, <1>4, <1>5 DEF SendersOf

LEMMA SendersOfAppend ==
    ASSUME NEW s \in Seq(Parcel), NEW c \in Coros, NEW v \in Values
    PROVE  SendersOf(Append(s, [co |-> c, val |-> v])) = Append(SendersOf(s), c)
<1> DEFINE p == [co |-> c, val |-> v]
           t == Append(s, p)
           r == SendersOf(s)
<1>1. p \in Parcel /\ p.co = c
  BY DEF Parcel
<1>2. /\ t \in Seq(Parcel) /\ Len(t) = Len(s) + 1 /\ t[Len(s) + 1] = p
      /\ \A i \in 1..Len(s) : t[i] = s[i]
  BY <1>1, AppendProperties
<1>3. /\ SendersOf(t) \in Seq(Coros) /\ Len(SendersOf(t)) = Len(t)
      /\ \A i \in 1..Len(t) : SendersOf(t)[i] = t[i].co
      /\ r \in Seq(Coros) /\ Len(r) = Len(s) /\ \A i \in 1..Len(s) : r[i] = s[i].co
      /\ Len(s) \in Nat
  BY <1>2, SendersOfType, LenProperties
<1>4. /\ Append(r, c) \in Seq(Coros) /\ Len(Append(r, c)) = Len(r) + 1
      /\ Append(r, c)[Len(r) + 1] = c /\ \A i \in 1..Len(r) : Append(r, c)[i] = r[i]
  BY <1>3, AppendProperties
<1> HIDE DEF p, t, r
<1>5. PICK n \in Nat : n = Len(s)
  BY <1>3
<1>6. \A i \in 1..(n + 1) : i \in 1..n \/ i = n + 1
  BY <1>5
<1>7. \A i \in 1..(n + 1) : SendersOf(t)[i] = Append(r, c)[i]
  BY <1>1, <1>2, <1>3, <1>4, <1>5, <1>6
<1>8. Len(SendersOf(t)) = n + 1 /\ Len(Append(r, c)) = n + 1
  BY <1>2, <1>3, <1>4, <1>5
<1>9. SendersOf(t) = Append(r, c)
  BY <1>3, <1>4, <1>7, <1>8, SeqEqual
<1> QED
  BY <1>9 DEF t, r, p

LEMMA SendersOfTail ==
    ASSUME NEW s \in Seq(Parcel), s # <<>>
    PROVE  /\ SendersOf(Tail(s)) = Tail(SendersOf(s)) /\ SendersOf(s) # <<>>
           /\ Head(SendersOf(s)) = Head(s).co /\ Tail(s) \in Seq(Parcel) /\ Head(s) \in Parcel
<1> DEFINE r == SendersOf(s)
           t == Tail(s)
<1>1. /\ t \in Seq(Parcel) /\ Len(t) = Len(s) - 1 /\ \A i \in 1..Len(t) : t[i] = s[i + 1]
      /\ Head(s) \in Parcel /\ Head(s) = s[1]
  BY HeadTailProperties
<1>2. r \in Seq(Coros) /\ Len(r) = Len(s) /\ r # <<>> /\ \A i \in 1..Len(s) : r[i] = s[i].co
  BY SendersOfType
<1>3. /\ Tail(r) \in Seq(Coros) /\ Len(Tail(r)) = Len(r) - 1
      /\ \A i \in 1..Len(Tail(r)) : Tail(r)[i] = r[i + 1]
      /\ Head(r) = r[1]
  BY <1>2, HeadTailProperties
<1>4. /\ SendersOf(t) \in Seq(Coros) /\ Len(SendersOf(t)) = Len(t)
      /\ \A i \in 1..Len(t) : SendersOf(t)[i] = t[i].co
  BY <1>1, SendersOfType
<1>5. PICK n \in Nat : n = Len(s) /\ n > 0
  BY LenPositive
<1> HIDE DEF r, t
<1>6. \A i \in 1..(n - 1) : i + 1 \in 1..n /\ 1 \in 1..n
  BY <1>5
<1>7. Len(SendersOf(t)) = n - 1 /\ Len(Tail(r)) = n - 1 /\ 1 \in 1..n
  BY <1>1, <1>2, <1>3, <1>4, <1>5
<1>8. \A i \in 1..(n - 1) : SendersOf(t)[i] = Tail(r)[i]
  BY <1>1, <1>2, <1>3, <1>4, <1>5, <1>6, SMTT(30)
<1>9. SendersOf(t) = Tail(r)
  BY <1>3, <1>4, <1>7, <1>8, SeqEqual
<1> QED
  BY <1>1, <1>2, <1>3, <1>5, <1>7, <1>9 DEF r, t

LEMMA ListTypes ==
    ASSUME TypeOK
    PROVE  \A p \in Places : lists[p] \in Seq(Coros)
<1>0. \A c \in Coros : <<c>> \in Seq(Coros)
  BY SingletonType
<1>e. <<>> \in Seq(Coros)
  BY EmptySeq
<1>1. /\ ready \in Seq(Coros)
      /\ \A v \in Workers : /\ localq[v] \in Seq(Coros) /\ wakes[v] \in Seq(Coros)
                            /\ next[v] # None => next[v] \in Coros
                            /\ cur[v] # None => cur[v] \in Coros
      /\ \A k \in Channels : chan[k].rwait \in Seq(Coros) /\ chan[k].swait \in Seq(Parcel)
  BY DEF TypeOK, ChanType, Parcel
<1>2. \A k \in Channels : SendersOf(chan[k].swait) \in Seq(Coros)
  BY <1>1, SendersOfType
<1>3. \A v \in Workers : lists[<<"held", v>>] \in Seq(Coros) /\ lists[<<"next", v>>] \in Seq(Coros)
  <2>1. ASSUME NEW v \in Workers
        PROVE  lists[<<"held", v>>] \in Seq(Coros) /\ lists[<<"next", v>>] \in Seq(Coros)
    <3>1. lists[<<"held", v>>] \in Seq(Coros)
      <4>1. CASE Holds(v)
        <5>1. cur[v] \in Coros /\ lists[<<"held", v>>] = <<cur[v]>>
          BY <1>1, <4>1, ListIs DEF Holds
        <5> QED
          BY <1>0, <5>1
      <4>2. CASE ~Holds(v)
        BY <1>e, <4>2, ListIs
      <4> QED
        BY <4>1, <4>2
    <3>2. lists[<<"next", v>>] \in Seq(Coros)
      <4>1. CASE next[v] = None
        BY <1>e, <4>1, ListIs
      <4>2. CASE next[v] # None
        <5>1. next[v] \in Coros /\ lists[<<"next", v>>] = <<next[v]>>
          BY <1>1, <4>2, ListIs
        <5> QED
          BY <1>0, <5>1
      <4> QED
        BY <4>1, <4>2
    <3> QED
      BY <3>1, <3>2
  <2> QED
    BY <2>1
<1>4. ASSUME NEW p \in Places PROVE lists[p] \in Seq(Coros)
  BY <1>1, <1>2, <1>3, ListIs, PlaceCases, ZenonT(40)
<1> QED
  BY <1>4

-----------------------------------------------------------------------------
(* Which coroutines are alive.                                               *)

\* No two ramps are of one coroutine, and none of one that has not begun or
\* is done.
RampsApart ==
    \A v, w \in Workers : \A i, j :
        RampAt(v, i) /\ RampAt(w, j) /\ stack[v][i] = stack[w][j] => v = w /\ i = j

RampsBegun ==
    \A w \in Workers : \A i :
        RampAt(w, i) => frame[stack[w][i]] # "none" /\ ~done[stack[w][i]]

DoneIsDestroyed == \A c \in Coros : done[c] <=> frame[c] = "destroyed"

\* What a step does to the ramps of a thread: none comes or goes, the n-th
\* leaves, or x comes in the n-th place.
SameRamps(w) ==
    \A i : /\ RampAt(w, i)' <=> RampAt(w, i)
           /\ RampAt(w, i) => stack'[w][i] = stack[w][i]

RampLeaves(w, n) ==
    /\ RampAt(w, n)
    /\ \A i : /\ RampAt(w, i)' <=> RampAt(w, i) /\ i # n
              /\ RampAt(w, i)' => stack'[w][i] = stack[w][i]

RampJoins(w, n, x) ==
    /\ RampAt(w, n)' /\ stack'[w][n] = x
    /\ \A i : i # n => /\ RampAt(w, i)' <=> RampAt(w, i)
                       /\ RampAt(w, i) => stack'[w][i] = stack[w][i]
    /\ ~RampAt(w, n)

StillAlive == \A c \in Coros : Alive(c)' <=> Alive(c)

LEMMA OthersRamps ==
    ASSUME NEW w \in Workers, Own(w), NEW v \in Workers, v # w
    PROVE  SameRamps(v) /\ stack'[v] = stack[v]
  BY DEF Own, SameRamps, RampAt, At

LEMMA InRampIs ==
    /\ \A c : InRamp(c) <=> \E w \in Workers : \E i : RampAt(w, i) /\ stack[w][i] = c
    /\ \A c : InRamp(c)' <=> \E w \in Workers : \E i : RampAt(w, i)' /\ stack'[w][i] = c
  BY DEF InRamp, RampAt

LEMMA RampTypes ==
    ASSUME TypeOK
    PROVE  \A w \in Workers : \A i : RampAt(w, i) => stack[w][i] \in Coros
<1> SUFFICES ASSUME NEW w \in Workers, NEW i, RampAt(w, i) PROVE stack[w][i] \in Coros
  OBVIOUS
<1>1. PICK s \in Seq(Coros) : s = stack[w]
  BY DEF TypeOK
<1>2. i \in DOMAIN s
  BY <1>1 DEF RampAt
<1> QED
  BY <1>1, <1>2

LEMMA AliveStays ==
    ASSUME NEW w \in Workers, Own(w), SameRamps(w), TypeOK, RampsApart, RampsBegun, done' = done,
           \A c \in Coros : frame'[c] = "none" <=> frame[c] = "none"
    PROVE  StillAlive /\ RampsApart' /\ RampsBegun'
<1>0. \A v \in Workers : \A i : RampAt(v, i) => stack[v][i] \in Coros
  BY RampTypes
<1>1. \A v \in Workers : SameRamps(v)
  BY OthersRamps
<1>2. \A c : InRamp(c)' <=> InRamp(c)
  BY <1>1, InRampIs DEF SameRamps
<1>3. StillAlive
  BY <1>2 DEF StillAlive, Alive
<1>4. RampsApart'
  BY <1>1 DEF RampsApart, SameRamps
<1>5. RampsBegun'
  BY <1>0, <1>1 DEF RampsBegun, SameRamps
<1> QED
  BY <1>3, <1>4, <1>5

\* A ramp begins.
LEMMA AliveBegins ==
    ASSUME NEW w \in Workers, Own(w), NEW n, NEW x \in Coros, RampJoins(w, n, x), TypeOK,
           RampsApart, RampsBegun, DoneIsDestroyed, done' = done, frame[x] = "none",
           frame' = [frame EXCEPT ![x] = "executing"]
    PROVE  StillAlive /\ RampsApart' /\ RampsBegun'
<1>0. \A v \in Workers : \A i : RampAt(v, i) => stack[v][i] \in Coros
  BY RampTypes
<1>1. \A v \in Workers : v # w => SameRamps(v)
  BY OthersRamps
<1>2. \A v \in Workers : \A i : RampAt(v, i) => stack[v][i] # x
  BY DEF RampsBegun
<1>3. \A v \in Workers : \A i : RampAt(v, i)' =>
          \/ RampAt(v, i) /\ stack'[v][i] = stack[v][i]
          \/ v = w /\ i = n /\ stack'[v][i] = x
  BY <1>1 DEF SameRamps, RampJoins
<1>4. \A v \in Workers : \A i : RampAt(v, i) => RampAt(v, i)' /\ stack'[v][i] = stack[v][i]
  BY <1>1 DEF SameRamps, RampJoins
<1>5. ASSUME NEW c \in Coros PROVE InRamp(c)' <=> InRamp(c) \/ c = x
  <2>1. InRamp(c)' => InRamp(c) \/ c = x
    BY <1>3, InRampIs
  <2>2. InRamp(c) => InRamp(c)'
    BY <1>4, InRampIs
  <2>3. InRamp(x)'
    BY InRampIs DEF RampJoins
  <2> QED
    BY <2>1, <2>2, <2>3
<1>6. \A c \in Coros : c # x => frame'[c] = frame[c]
  BY DEF TypeOK
<1>7. StillAlive
  BY <1>5, <1>6 DEF StillAlive, Alive
<1>8. RampsApart'
  BY <1>2, <1>3 DEF RampsApart
<1>9. RampsBegun'
  <2>1. ~done[x] /\ frame'[x] = "executing"
    BY DEF DoneIsDestroyed, TypeOK
  <2>2. \A c \in Coros : c # x => frame'[c] = frame[c]
    BY DEF TypeOK
  <2> QED
    BY <1>0, <1>2, <1>3, <2>1, <2>2 DEF RampsBegun
<1> QED
  BY <1>7, <1>8, <1>9

\* A ramp ends with the registration of its coroutine, which then lives.
LEMMA AliveBorn ==
    ASSUME NEW w \in Workers, Own(w), NEW n, RampLeaves(w, n), TypeOK,
           RampsApart, RampsBegun, done' = done,
           \A c \in Coros : frame'[c] = "none" <=> frame[c] = "none"
    PROVE  /\ ~Alive(stack[w][n]) /\ \A c \in Coros : Alive(c)' <=> Alive(c) \/ c = stack[w][n]
           /\ RampsApart' /\ RampsBegun'
<1> DEFINE x == stack[w][n]
<1>0. \A v \in Workers : \A i : RampAt(v, i) => stack[v][i] \in Coros
  BY RampTypes
<1>1. \A v \in Workers : v # w => SameRamps(v)
  BY OthersRamps
<1>2. \A v \in Workers : \A i : RampAt(v, i)' <=> RampAt(v, i) /\ ~(v = w /\ i = n)
  BY <1>1 DEF SameRamps, RampLeaves
<1>3. \A v \in Workers : \A i : RampAt(v, i)' => stack'[v][i] = stack[v][i]
  BY <1>1 DEF SameRamps, RampLeaves
<1>4. RampAt(w, n)
  BY DEF RampLeaves
<1>5. \A v \in Workers : \A i : RampAt(v, i)' => stack[v][i] # x
  BY <1>2, <1>4 DEF RampsApart
<1>6. InRamp(x) /\ frame[x] # "none" /\ ~done[x]
  BY <1>4, InRampIs DEF RampsBegun
<1>7. \A c : InRamp(c)' <=> InRamp(c) /\ c # x
  BY <1>2, <1>3, <1>5, InRampIs
<1>8. ~Alive(x) /\ \A c \in Coros : Alive(c)' <=> Alive(c) \/ c = x
  BY <1>6, <1>7 DEF Alive
<1>9. RampsApart' /\ RampsBegun'
  BY <1>0, <1>2, <1>3 DEF RampsApart, RampsBegun
<1> QED
  BY <1>8, <1>9

\* A ramp that ran the whole body ends: it never lived.
LEMMA AliveUnborn ==
    ASSUME NEW w \in Workers, Own(w), NEW n, RampLeaves(w, n), TypeOK,
           RampsApart, RampsBegun, NEW x \in Coros, x = stack[w][n],
           done' = [done EXCEPT ![x] = TRUE],
           \A c \in Coros : frame'[c] = "none" <=> frame[c] = "none"
    PROVE  StillAlive /\ RampsApart' /\ RampsBegun'
<1>0. \A v \in Workers : \A i : RampAt(v, i) => stack[v][i] \in Coros
  BY RampTypes
<1>1. \A v \in Workers : v # w => SameRamps(v)
  BY OthersRamps
<1>2. \A v \in Workers : \A i : RampAt(v, i)' <=> RampAt(v, i) /\ ~(v = w /\ i = n)
  BY <1>1 DEF SameRamps, RampLeaves
<1>3. \A v \in Workers : \A i : RampAt(v, i)' => stack'[v][i] = stack[v][i]
  BY <1>1 DEF SameRamps, RampLeaves
<1>4. RampAt(w, n)
  BY DEF RampLeaves
<1>5. \A v \in Workers : \A i : RampAt(v, i)' => stack[v][i] # x
  BY <1>2, <1>4 DEF RampsApart
<1>6. InRamp(x)
  BY <1>4, InRampIs
<1>7. \A c : InRamp(c)' <=> InRamp(c) /\ c # x
  BY <1>2, <1>3, <1>5, InRampIs
<1>8. done'[x] /\ \A c \in Coros : c # x => done'[c] = done[c]
  BY DEF TypeOK
<1>9. StillAlive
  BY <1>6, <1>7, <1>8 DEF StillAlive, Alive
<1>10. RampsApart' /\ RampsBegun'
  BY <1>0, <1>2, <1>3, <1>5, <1>8 DEF RampsApart, RampsBegun
<1> QED
  BY <1>9, <1>10

\* A coroutine that lives ends.
LEMMA AliveEnds ==
    ASSUME NEW w \in Workers, Own(w), SameRamps(w), TypeOK,
           RampsApart, RampsBegun, NEW x \in Coros, Alive(x),
           done' = [done EXCEPT ![x] = TRUE],
           \A c \in Coros : frame'[c] = "none" <=> frame[c] = "none"
    PROVE  /\ \A c \in Coros : Alive(c)' <=> Alive(c) /\ c # x
           /\ RampsApart' /\ RampsBegun'
<1>0. \A v \in Workers : \A i : RampAt(v, i) => stack[v][i] \in Coros
  BY RampTypes
<1>1. \A v \in Workers : SameRamps(v)
  BY OthersRamps
<1>2. \A c : InRamp(c)' <=> InRamp(c)
  BY <1>1, InRampIs DEF SameRamps
<1>3. \A v \in Workers : \A i : RampAt(v, i)' => stack[v][i] # x
  BY <1>1, InRampIs DEF SameRamps, Alive
<1>8. done'[x] /\ \A c \in Coros : c # x => done'[c] = done[c]
  BY DEF TypeOK
<1>4. \A c \in Coros : Alive(c)' <=> Alive(c) /\ c # x
  BY <1>2, <1>8 DEF Alive
<1>5. RampsApart' /\ RampsBegun'
  BY <1>0, <1>1, <1>3, <1>8 DEF RampsApart, RampsBegun, SameRamps
<1> QED
  BY <1>4, <1>5

CursAlive == \A w \in Workers : cur[w] # None => Alive(cur[w])
RampInv == RampsApart /\ RampsBegun /\ DoneIsDestroyed

LEMMA EmptyDomain == DOMAIN <<>> = {}
  OBVIOUS

\* A step outside any body.
LEMMA AliveOutside ==
    ASSUME StealInv, RampInv, NEW w \in Workers, Own(w),
           stack'[w] = <<>>, stack[w] = <<>>, UNCHANGED <<frame, done>>
    PROVE  StillAlive /\ RampInv'
<1>1. SameRamps(w)
  BY EmptyDomain DEF SameRamps, RampAt
<1>2. StillAlive /\ RampsApart' /\ RampsBegun'
  BY <1>1, AliveStays DEF RampInv, StealInv
<1>3. DoneIsDestroyed'
  BY DEF RampInv, DoneIsDestroyed
<1> QED
  BY <1>2, <1>3 DEF RampInv

\* A step in a body.
LEMMA AliveInside ==
    ASSUME ChanInv, RampInv, NEW w \in Workers, Own(w), TypeOK',
           \/ ExecYield(w) \/ ExecAwait(w) \/ ExecReturn(w) \/ ExecSend(w) \/ ParkSend(w)
           \/ ExecRecv(w) \/ ParkRecv(w) \/ WakeNext(w) \/ WakeLocal(w) \/ WakeGlobal(w)
           \/ WokenCount(w)
    PROVE  StillAlive /\ RampInv' /\ UNCHANGED <<stack, cur>> /\ pc[w] \in OnTop
<1> USE DEF At, Go, Executing, Waking, ChannelFrame, ThenWake, OnTop,
        program, queues, counters, flags, coros, shared, waking, search, locals
<1>1. TypeOK /\ StealInv
  BY DEF ChanInv, StealInv
<1>2. pc[w] \in OnTop /\ UNCHANGED <<stack, cur, done>>
  BY DEF ExecYield, ExecAwait, ExecReturn, ExecSend, ParkSend, ExecRecv, ParkRecv, ParkRecvLooking,
     WakeNext, WakeLocal, WakeGlobal, WokenCount
<1>3. pc'[w] # "spawnedQ"
  <2>1. pc'[w] \in {"suspend", "exec", "parkSend", "parkRecv", "wake", "woken", ret[w], pc[w]}
    BY <1>1 DEF TypeOK, ExecYield, ExecAwait, ExecReturn, ExecSend, ParkSend, ExecRecv, ParkRecv,
       ParkRecvLooking, WakeNext, WakeLocal, WakeGlobal, WokenCount
  <2> QED
    BY <1>1, <1>2, <2>1 DEF TypeOK
<1>4. frame' = frame \/ ExecReturn(w)
  BY DEF ExecYield, ExecAwait, ExecSend, ParkSend, ExecRecv, ParkRecv, ParkRecvLooking,
     WakeNext, WakeLocal, WakeGlobal, WokenCount
<1>5. ExecReturn(w) => /\ Running(w) \in Coros /\ frame[Running(w)] = "executing"
                       /\ frame' = [frame EXCEPT ![Running(w)] = "final"]
  <2> SUFFICES ASSUME ExecReturn(w)
               PROVE  /\ Running(w) \in Coros /\ frame[Running(w)] = "executing"
                      /\ frame' = [frame EXCEPT ![Running(w)] = "final"]
    OBVIOUS
  <2>1. /\ Running(w) \in Coros /\ Running(w) = stack[w][Len(stack[w])]
        /\ OnStack(w, Len(stack[w]))
    BY <1>1, <1>2, TopTouched
  <2>2. pc[w] = "exec"
    BY DEF ExecReturn
  <2>3. frame[Running(w)] = "executing"
    BY <2>1, <2>2 DEF ChanInv, FramesRun, OnStack
  <2> QED
    BY <2>1, <2>3 DEF ExecReturn
<1>6. SameRamps(w)
  BY <1>2, <1>3 DEF SameRamps, RampAt
<1>7. \A c \in Coros : frame'[c] = "none" <=> frame[c] = "none"
  BY <1>1, <1>4, <1>5 DEF TypeOK
<1>8. StillAlive /\ RampsApart' /\ RampsBegun'
  BY <1>1, <1>2, <1>6, <1>7, AliveStays DEF RampInv
<1>9. DoneIsDestroyed'
  BY <1>1, <1>2, <1>4, <1>5 DEF RampInv, DoneIsDestroyed, TypeOK
<1> QED
  BY <1>2, <1>8, <1>9 DEF RampInv, OnTop

LEMMA AliveResume ==
    ASSUME ChanInv, RampInv, NEW w \in Workers, Own(w), Resume(w)
    PROVE  StillAlive /\ RampInv'
<1>1. TypeOK /\ ThreadShape(w) /\ At(w, "resume")
  BY DEF ChanInv, StealInv, Resume
<1>2. /\ cur[w] \in Coros /\ cur' = cur /\ stack'[w] = <<cur[w]>> /\ stack[w] = <<>>
      /\ done' = done /\ frame[cur[w]] = "suspended"
      /\ frame' = [frame EXCEPT ![cur[w]] = "executing"]
  BY <1>1, NoneAssumption DEF Resume, TypeOK, ThreadShape, Fetching, InBody, At, Untouched
<1>3. DOMAIN stack'[w] = {1}
  BY <1>2
<1>4. SameRamps(w)
  BY <1>2, <1>3, EmptyDomain, NoneAssumption DEF SameRamps, RampAt
<1>5. \A c \in Coros : frame'[c] = "none" <=> frame[c] = "none"
  BY <1>1, <1>2 DEF TypeOK
<1>6. StillAlive /\ RampsApart' /\ RampsBegun'
  BY <1>1, <1>2, <1>4, <1>5, AliveStays DEF RampInv
<1>7. DoneIsDestroyed'
  BY <1>1, <1>2 DEF RampInv, DoneIsDestroyed, TypeOK
<1> QED
  BY <1>6, <1>7 DEF RampInv

LEMMA AliveSuspend ==
    ASSUME ChanInv, RampInv, CursAlive, NEW w \in Workers, HandShape(w), Own(w), Suspend(w)
    PROVE  StillAlive /\ RampInv' /\ frame[Running(w)] \in {"executing", "final"}
<1>1. TypeOK /\ StealInv /\ pc[w] = "suspend" /\ cur' = cur /\ done' = done
  BY DEF ChanInv, StealInv, Suspend, At, coros
<1>2. /\ Running(w) \in Coros /\ Running(w) = stack[w][Len(stack[w])]
      /\ stack[w] \in Seq(Coros) /\ stack[w] # <<>> /\ OnStack(w, Len(stack[w]))
  BY <1>1, TopTouched
<1>3. Len(stack[w]) \in DOMAIN stack[w] /\ (Len(stack[w]) # 1 => Len(stack[w]) > 1)
  BY <1>2, LenPositive
<1>4. ~done[Running(w)]
  <2>1. CASE Len(stack[w]) = 1 /\ cur[w] # None
    BY <1>2, <2>1 DEF HandShape, CursAlive, Alive
  <2>2. CASE ~(Len(stack[w]) = 1 /\ cur[w] # None)
    <3>1. RampAt(w, Len(stack[w]))
      BY <1>1, <1>3, <2>2 DEF RampAt, At
    <3> QED
      BY <1>2, <3>1 DEF RampInv, RampsBegun
  <2> QED
    BY <2>1, <2>2
<1>5. frame[Running(w)] \in {"executing", "final"}
  BY <1>2, <1>4 DEF ChanInv, FramesRun, RampInv, DoneIsDestroyed, OnStack
<1>6. SameRamps(w)
  <2>1. CASE Len(stack[w]) = 1 /\ cur[w] # None
    <3>1. stack'[w] = <<>>
      BY <1>1, <2>1 DEF Suspend, TypeOK
    <3>2. \A i \in DOMAIN stack[w] : ~(i > 1)
      <4>1. DOMAIN stack[w] = 1..1
        BY <1>2, <2>1
      <4> QED
        BY <4>1
    <3>3. \A i : ~RampAt(w, i)
      BY <2>1, <3>2 DEF RampAt
    <3>4. \A i : ~RampAt(w, i)'
      BY <3>1, EmptyDomain DEF RampAt
    <3> QED
      BY <3>3, <3>4 DEF SameRamps
  <2>2. CASE ~(Len(stack[w]) = 1 /\ cur[w] # None)
    <3>1. stack' = stack /\ pc' = [pc EXCEPT ![w] = "spawned"]
      BY <2>2 DEF Suspend, Go
    <3>2. pc'[w] = "spawned"
      BY <1>1, <3>1 DEF TypeOK
    <3> QED
      BY <1>1, <3>1, <3>2 DEF SameRamps, RampAt, At
  <2> QED
    BY <2>1, <2>2
<1>7. \A c \in Coros : /\ frame'[c] = "none" <=> frame[c] = "none"
                       /\ frame'[c] = "destroyed" <=> frame[c] = "destroyed"
  BY <1>1, <1>2, <1>5 DEF Suspend, TypeOK
<1>8. StillAlive /\ RampsApart' /\ RampsBegun'
  BY <1>1, <1>6, <1>7, AliveStays DEF RampInv
<1>9. DoneIsDestroyed'
  BY <1>1, <1>7 DEF RampInv, DoneIsDestroyed
<1> QED
  BY <1>5, <1>8, <1>9 DEF RampInv

LEMMA FrontDomain ==
    ASSUME NEW S, NEW s \in Seq(S), s # <<>>
    PROVE  /\ \A i : i \in DOMAIN Front(s) <=> i \in DOMAIN s /\ i # Len(s)
           /\ \A i \in DOMAIN Front(s) : Front(s)[i] = s[i]
           /\ Len(s) \in DOMAIN s
<1>1. PICK n \in Nat : n = Len(s) /\ n > 0
  BY LenPositive
<1>2. Front(s) \in Seq(S) /\ Len(Front(s)) = n - 1
  BY <1>1, LastFront
<1>3. DOMAIN Front(s) = 1..(n - 1) /\ DOMAIN s = 1..n
  BY <1>1, <1>2
<1>4. \A i \in 1..(n - 1) : Front(s)[i] = s[i]
  BY <1>1 DEF Front
<1>5. n \in 1..n /\ \A i : i \in 1..(n - 1) <=> i \in 1..n /\ i # n
  BY <1>1
<1> QED
  BY <1>1, <1>3, <1>4, <1>5

LEMMA AppendDomain ==
    ASSUME NEW S, NEW s \in Seq(S), NEW e \in S
    PROVE  /\ \A i : i \in DOMAIN Append(s, e) <=> i \in DOMAIN s \/ i = Len(s) + 1
           /\ \A i \in DOMAIN s : Append(s, e)[i] = s[i]
           /\ Append(s, e)[Len(s) + 1] = e /\ Len(s) + 1 \notin DOMAIN s
           /\ s # <<>> => Len(s) + 1 > 1
<1>1. PICK n \in Nat : n = Len(s) /\ (s # <<>> => n > 0)
  BY LenPositive, LenProperties
<1>2. /\ Append(s, e) \in Seq(S) /\ Len(Append(s, e)) = n + 1 /\ Append(s, e)[n + 1] = e
      /\ \A i \in 1..n : Append(s, e)[i] = s[i]
  BY <1>1, AppendProperties
<1>3. DOMAIN Append(s, e) = 1..(n + 1) /\ DOMAIN s = 1..n
  BY <1>1, <1>2
<1>4. n + 1 \notin 1..n /\ \A i : i \in 1..(n + 1) <=> i \in 1..n \/ i = n + 1
  BY <1>1
<1>5. s # <<>> => n + 1 > 1
  BY <1>1
<1> QED
  BY <1>1, <1>2, <1>3, <1>4, <1>5

\* The ramp on top of the stack.
LEMMA SpawnedTop ==
    ASSUME StealInv, NEW w \in Workers, pc[w] \in {"spawned", "spawnedQ"}
    PROVE  /\ stack[w] \in Seq(Coros) /\ stack[w] # <<>> /\ Running(w) \in Coros
           /\ Running(w) = stack[w][Len(stack[w])] /\ Len(stack[w]) \in DOMAIN stack[w]
           /\ Len(stack[w]) > 1 \/ cur[w] = None
<1>1. TypeOK /\ stack[w] # <<>> /\ stack[w] \in Seq(Coros) /\ (Len(stack[w]) > 1 \/ cur[w] = None)
  BY DEF StealInv, TypeOK, ThreadShape, InBody
<1>2. Running(w) \in Coros /\ Running(w) = stack[w][Len(stack[w])]
  BY <1>1, RunningType DEF Running, Last
<1> QED
  BY <1>1, <1>2, FrontDomain

LEMMA RampReturns ==
    ASSUME StealInv, NEW w \in Workers, pc[w] = "spawned", SpawnReturn(w)
    PROVE  RampLeaves(w, Len(stack[w]))
<1> DEFINE n == Len(stack[w])
<1>1. TypeOK /\ stack[w] \in Seq(Coros) /\ stack[w] # <<>> /\ n \in DOMAIN stack[w]
      /\ (n > 1 \/ cur[w] = None)
  BY SpawnedTop DEF StealInv
<1>2. stack'[w] = Front(stack[w]) /\ cur' = cur /\ pc'[w] # "spawnedQ"
  BY <1>1 DEF SpawnReturn, Go, TypeOK
<1>3. /\ \A i : i \in DOMAIN stack'[w] <=> i \in DOMAIN stack[w] /\ i # n
      /\ \A i \in DOMAIN stack'[w] : stack'[w][i] = stack[w][i]
  BY <1>1, <1>2, FrontDomain
<1> HIDE DEF n
<1>4. RampAt(w, n)
  BY <1>1 DEF RampAt, At
<1>5. \A i : (RampAt(w, i)' <=> RampAt(w, i) /\ i # n) /\ (RampAt(w, i)' => stack'[w][i] = stack[w][i])
  BY <1>2, <1>3 DEF RampAt, At
<1> QED
  BY <1>4, <1>5 DEF RampLeaves, n

LEMMA RampRegistered ==
    ASSUME StealInv, NEW w \in Workers, SpawnedReady(w)
    PROVE  RampLeaves(w, Len(stack[w]))
<1> DEFINE n == Len(stack[w])
<1>1. TypeOK /\ n \in DOMAIN stack[w] /\ (n > 1 \/ cur[w] = None) /\ pc[w] = "spawned"
  BY SpawnedTop DEF StealInv, SpawnedReady, At
<1>2. stack' = stack /\ cur' = cur /\ pc'[w] = "spawnedQ"
  BY <1>1 DEF SpawnedReady, Go, TypeOK
<1>3. n = Len(stack'[w])
  BY <1>2
<1> HIDE DEF n
<1>4. RampAt(w, n)
  BY <1>1 DEF RampAt, At
<1>5. \A i : (RampAt(w, i)' <=> RampAt(w, i) /\ i # n) /\ (RampAt(w, i)' => stack'[w][i] = stack[w][i])
  BY <1>1, <1>2, <1>3 DEF RampAt, At
<1> QED
  BY <1>4, <1>5 DEF RampLeaves, n

LEMMA AliveCounted ==
    ASSUME StealInv, RampInv, NEW w \in Workers, Own(w), SpawnedCount(w)
    PROVE  StillAlive /\ RampInv'
<1> DEFINE n == Len(stack[w])
<1>1. TypeOK /\ stack[w] \in Seq(Coros) /\ stack[w] # <<>> /\ pc[w] = "spawnedQ"
  BY SpawnedTop DEF StealInv, SpawnedCount, At
<1>2. /\ stack'[w] = Front(stack[w]) /\ cur' = cur /\ pc'[w] # "spawnedQ" /\ done' = done
      /\ frame' = frame
  BY <1>1 DEF SpawnedCount, SpawnReturn, Go, TypeOK, coros
<1>3. /\ \A i : i \in DOMAIN stack'[w] <=> i \in DOMAIN stack[w] /\ i # n
      /\ \A i \in DOMAIN stack'[w] : stack'[w][i] = stack[w][i]
  BY <1>1, <1>2, FrontDomain
<1>4. SameRamps(w)
  BY <1>1, <1>2, <1>3 DEF SameRamps, RampAt, At
<1>5. StillAlive /\ RampsApart' /\ RampsBegun'
  BY <1>1, <1>2, <1>4, AliveStays DEF RampInv
<1>6. DoneIsDestroyed'
  BY <1>2 DEF RampInv, DoneIsDestroyed
<1> QED
  BY <1>5, <1>6 DEF RampInv

LEMMA AliveStart ==
    ASSUME StealInv, RampInv, NEW w \in Workers, Own(w), NEW c \in Coros, StartRamp(w, c),
           pc[w] = "exec" \/ (pc[w] = "main" /\ cur[w] = None)
    PROVE  StillAlive /\ RampInv'
<1>0. PICK n : n = Len(stack[w]) + 1
  OBVIOUS
<1>1. TypeOK /\ stack[w] \in Seq(Coros) /\ (stack[w] # <<>> \/ cur[w] = None)
  BY DEF StealInv, TypeOK, ThreadShape, InBody
<1>2. /\ stack'[w] = Append(stack[w], c) /\ cur' = cur /\ pc'[w] # "spawnedQ" /\ done' = done
      /\ frame' = [frame EXCEPT ![c] = "executing"] /\ frame[c] = "none" /\ pc[w] # "spawnedQ"
  BY <1>1 DEF StartRamp, Go, TypeOK
<1>3. /\ \A i : i \in DOMAIN stack'[w] <=> i \in DOMAIN stack[w] \/ i = n
      /\ \A i \in DOMAIN stack[w] : stack'[w][i] = stack[w][i]
      /\ stack'[w][n] = c /\ n \notin DOMAIN stack[w] /\ (stack[w] # <<>> => n > 1)
  BY <1>0, <1>1, <1>2, AppendDomain
<1>4. RampJoins(w, n, c)
  <2>1. RampAt(w, n)'
    BY <1>1, <1>2, <1>3 DEF RampAt, At
  <2>2. ~RampAt(w, n)
    BY <1>3 DEF RampAt
  <2>3. \A i : i # n => /\ RampAt(w, i)' <=> RampAt(w, i)
                        /\ RampAt(w, i) => stack'[w][i] = stack[w][i]
    BY <1>2, <1>3 DEF RampAt, At
  <2> QED
    BY <1>3, <2>1, <2>2, <2>3 DEF RampJoins
<1>5. StillAlive /\ RampsApart' /\ RampsBegun'
  BY <1>1, <1>2, <1>4, AliveBegins DEF RampInv
<1>6. DoneIsDestroyed'
  BY <1>1, <1>2 DEF RampInv, DoneIsDestroyed, TypeOK
<1> QED
  BY <1>5, <1>6 DEF RampInv

LEMMA AliveSpawnedDone ==
    ASSUME StealInv, RampInv, NEW w \in Workers, Own(w), SpawnedDone(w)
    PROVE  StillAlive /\ RampInv'
<1>1. TypeOK /\ pc[w] = "spawned" /\ SpawnReturn(w) /\ Running(w) \in Coros
      /\ Running(w) = stack[w][Len(stack[w])]
  BY SpawnedTop DEF StealInv, SpawnedDone, At
<1>2. RampLeaves(w, Len(stack[w]))
  BY <1>1, RampReturns
<1>3. /\ frame[Running(w)] = "final" /\ done' = [done EXCEPT ![Running(w)] = TRUE]
      /\ frame' = [frame EXCEPT ![Running(w)] = "destroyed"]
  BY DEF SpawnedDone, Complete
<1>4. \A c \in Coros : frame'[c] = "none" <=> frame[c] = "none"
  BY <1>1, <1>3 DEF TypeOK
<1>5. StillAlive /\ RampsApart' /\ RampsBegun'
  BY <1>1, <1>2, <1>3, <1>4, AliveUnborn DEF RampInv
<1>6. DoneIsDestroyed'
  BY <1>1, <1>3 DEF RampInv, DoneIsDestroyed, TypeOK
<1> QED
  BY <1>5, <1>6 DEF RampInv

\* A coroutine is registered, ready or parked.
LEMMA AliveSpawned ==
    ASSUME StealInv, RampInv, NEW w \in Workers, Own(w), SpawnedReady(w) \/ SpawnedParked(w)
    PROVE  /\ Running(w) \in Coros /\ frame[Running(w)] = "suspended"
           /\ ~Alive(Running(w))
           /\ \A c \in Coros : Alive(c)' <=> Alive(c) \/ c = Running(w)
           /\ RampInv'
<1>1. TypeOK /\ pc[w] = "spawned" /\ Running(w) \in Coros
      /\ Running(w) = stack[w][Len(stack[w])]
  BY SpawnedTop DEF StealInv, SpawnedReady, SpawnedParked, SpawnedParkedLive, At
<1>2. RampLeaves(w, Len(stack[w]))
  BY <1>1, RampReturns, RampRegistered DEF SpawnedParked, SpawnedParkedLive
<1>3. frame' = frame /\ done' = done /\ frame[Running(w)] = "suspended"
  BY DEF SpawnedReady, PushReady, SpawnedParked, SpawnedParkedLive
<1>4. DoneIsDestroyed'
  BY <1>3 DEF RampInv, DoneIsDestroyed
<1> QED
  BY <1>1, <1>2, <1>3, <1>4, AliveBorn DEF RampInv

\* A coroutine has run its body to the end.
LEMMA AliveDone ==
    ASSUME StealInv, RampInv, CursAlive, NEW w \in Workers, Own(w), AfterDone(w)
    PROVE  /\ cur[w] \in Coros /\ Alive(cur[w]) /\ frame[cur[w]] = "final"
           /\ \A c \in Coros : Alive(c)' <=> Alive(c) /\ c # cur[w]
           /\ RampInv'
<1>1. TypeOK /\ pc[w] = "after" /\ cur[w] \in Coros /\ cur[w] # None
      /\ stack[w] = <<>> /\ stack' = stack
  BY NoneAssumption DEF StealInv, TypeOK, ThreadShape, InBody, Fetching, AfterDone, Release, At
<1>2. /\ frame[cur[w]] = "final" /\ done' = [done EXCEPT ![cur[w]] = TRUE]
      /\ frame' = [frame EXCEPT ![cur[w]] = "destroyed"]
  BY DEF AfterDone, Complete
<1>3. SameRamps(w)
  BY <1>1, EmptyDomain DEF SameRamps, RampAt
<1>4. \A c \in Coros : frame'[c] = "none" <=> frame[c] = "none"
  BY <1>1, <1>2 DEF TypeOK
<1>5. Alive(cur[w])
  BY <1>1 DEF CursAlive
<1>6. (\A c \in Coros : Alive(c)' <=> Alive(c) /\ c # cur[w]) /\ RampsApart' /\ RampsBegun'
  BY <1>1, <1>2, <1>3, <1>4, <1>5, AliveEnds DEF RampInv
<1>7. DoneIsDestroyed'
  BY <1>1, <1>2 DEF RampInv, DoneIsDestroyed, TypeOK
<1> QED
  BY <1>1, <1>2, <1>5, <1>6, <1>7 DEF RampInv

-----------------------------------------------------------------------------
(* What a step does to the places.                                           *)
LEMMA SameApart ==
    ASSUME NEW L, NEW M, Apart(L), \A p \in Places : M[p] = L[p]
    PROVE  Apart(M) /\ \A d : Somewhere(M, d) <=> Somewhere(L, d)
  BY DEF Apart, Somewhere

SameHand(w) == (Holds(w)' <=> Holds(w)) /\ (Holds(w) => cur'[w] = cur[w])

LEMMA ElseSame ==
    ASSUME NEW w \in Workers, Own(w), NEW E,
           ready' = ready \/ <<"ready", 0>> \in E,
           \A v \in Workers : localq'[v] = localq[v] \/ <<"local", v>> \in E,
           wakes'[w] = wakes[w] \/ <<"wakes", w>> \in E,
           next'[w] = next[w] \/ <<"next", w>> \in E,
           SameHand(w) \/ <<"held", w>> \in E,
           \A k \in Channels : chan'[k].rwait = chan[k].rwait \/ <<"rwait", k>> \in E,
           \A k \in Channels : chan'[k].swait = chan[k].swait \/ <<"swait", k>> \in E
    PROVE  \A p \in Places : p \notin E => lists'[p] = lists[p]
<1> SUFFICES ASSUME NEW p \in Places, p \notin E PROVE lists'[p] = lists[p]
  OBVIOUS
<1>1. CASE p = <<"ready", 0>>
  BY <1>1, ListIs, NextListIs
<1>2. ASSUME NEW v \in Workers, p = <<"local", v>> PROVE lists'[p] = lists[p]
  BY <1>2, ListIs, NextListIs
<1>3. ASSUME NEW v \in Workers, p = <<"wakes", v>> PROVE lists'[p] = lists[p]
  BY <1>3, ListIs, NextListIs, ZenonT(40) DEF Own
<1>4. ASSUME NEW v \in Workers, p = <<"next", v>> PROVE lists'[p] = lists[p]
  <2>1. next'[v] = next[v]
    BY <1>4 DEF Own
  <2>2. lists[p] = IF next[v] = None THEN <<>> ELSE <<next[v]>>
    BY <1>4, ListIs
  <2>3. lists'[p] = IF next'[v] = None THEN <<>> ELSE <<next'[v]>>
    BY <1>4, NextListIs
  <2> QED
    BY <2>1, <2>2, <2>3
<1>5. ASSUME NEW v \in Workers, p = <<"held", v>> PROVE lists'[p] = lists[p]
  <2>1. SameHand(v)
    BY <1>5 DEF Own, SameHand, Holds
  <2>2. lists[p] = IF Holds(v) THEN <<cur[v]>> ELSE <<>>
    BY <1>5, ListIs
  <2>3. lists'[p] = IF Holds(v)' THEN <<cur'[v]>> ELSE <<>>
    BY <1>5, NextListIs
  <2> QED
    BY <2>1, <2>2, <2>3 DEF SameHand
<1>6. ASSUME NEW k \in Channels, p = <<"rwait", k>> PROVE lists'[p] = lists[p]
  <2>1. chan'[k].rwait = chan[k].rwait
    BY <1>6
  <2> QED
    BY <1>6, <2>1, ListIs, NextListIs
<1>7. ASSUME NEW k \in Channels, p = <<"swait", k>> PROVE lists'[p] = lists[p]
  <2>1. chan'[k].swait = chan[k].swait
    BY <1>7
  <2>2. lists[p] = SendersOf(chan[k].swait)
    BY <1>7, ListIs
  <2>3. lists'[p] = SendersOf(chan'[k].swait)
    BY <1>7, NextListIs
  <2> QED
    BY <2>1, <2>2, <2>3
<1> QED
  BY <1>1, <1>2, <1>3, <1>4, <1>5, <1>6, <1>7, PlaceCases

\* The step moves none.
StillLists == Apart(lists') /\ \A c : Somewhere(lists', c) <=> Somewhere(lists, c)

LEMMA NoneMoves ==
    ASSUME Apart(lists), NEW w \in Workers, Own(w), SameHand(w),
           ready' = ready, localq' = localq, wakes'[w] = wakes[w], next'[w] = next[w],
           \A k \in Channels : chan'[k].rwait = chan[k].rwait /\ chan'[k].swait = chan[k].swait
    PROVE  StillLists
<1>1. PICK E : E = {}
  OBVIOUS
<1>2. \A p \in Places : p \notin E => lists'[p] = lists[p]
  BY ElseSame, Zenon
<1>3. \A p \in Places : lists'[p] = lists[p]
  BY <1>1, <1>2
<1> QED
  BY <1>3, SameApart DEF StillLists

\* One goes from a to b.
LEMMA OneMoves ==
    ASSUME Apart(lists), NEW a \in Places, NEW b \in Places, a # b, NEW c,
           Loses(lists[a], lists'[a], c), Gains(lists[b], lists'[b], c),
           NEW E, E = {a, b}, \A p \in Places : p \notin E => lists'[p] = lists[p]
    PROVE  StillLists
<1>1. \A p \in Places : p # a /\ p # b => lists'[p] = lists[p]
  OBVIOUS
<1>2. Apart(lists') /\ \A d : Somewhere(lists', d) <=> Somewhere(lists, d)
  BY <1>1, MovesApart
<1> QED
  BY <1>2 DEF StillLists

LEMMA StillPick ==
    ASSUME Apart(lists), StealInv, NEW w \in Workers, HandShape(w), Own(w),
           \/ HandoffTaken(w) \/ PickGlobal(w) \/ Uncount(w) \/ Count(w) \/ ScanMiss(w)
           \/ StealSkip(w) \/ StealLock(w) \/ StealMiss(w)
    PROVE  StillLists
<1>1. TypeOK
  BY DEF StealInv
<1> USE DEF program, queues, counters, flags, coros, shared, waking, search, locals
<1>2. UNCHANGED <<ready, localq, wakes, next, chan, cur, parked>>
  BY DEF HandoffTaken, PickGlobal, Uncount, Count, ScanMiss, StealSkip, StealLock, StealMiss
<1>3. SameHand(w)
  <2> USE DEF SameHand, Holds, Fetching, HandShape, IdlePcs, At, Go
  <2>1. CASE HandoffTaken(w)
    BY <1>1, <1>2, <2>1 DEF HandoffTaken, TypeOK
  <2>2. CASE Uncount(w)
    BY <1>1, <1>2, <2>2 DEF Uncount, TypeOK
  <2>3. CASE Count(w)
    BY <1>1, <1>2, <2>3 DEF Count, TypeOK
  <2>4. CASE PickGlobal(w) \/ ScanMiss(w) \/ StealSkip(w) \/ StealLock(w) \/ StealMiss(w)
    BY <1>2, <2>4 DEF PickGlobal, ScanMiss, StealSkip, StealLock, Stealing, StealMiss
  <2> QED
    BY <2>1, <2>2, <2>3, <2>4
<1> QED
  BY <1>2, <1>3, NoneMoves

LEMMA StillIdle ==
    ASSUME Apart(lists), StealInv, NEW w \in Workers, HandShape(w), Own(w),
           Idle(w) \/ (w = 0 /\ (MainAwait \/ MainEnd))
    PROVE  StillLists
<1>1. TypeOK
  BY DEF StealInv
<1> USE DEF program, queues, counters, flags, coros, shared, waking, search, locals
<1>2. UNCHANGED <<ready, localq, wakes, next, chan, cur, parked>>
  BY DEF Idle, LoopTop, SyncTop, TimerSleep, SyncNone, IdleLock, CheckLive, CheckRunning,
     CheckHandoff, IdleWait, MainAwait, MainEnd
<1>3. cur[w] = None
  BY DEF HandShape, IdlePcs, At, Idle, LoopTop, SyncTop, TimerSleep, SyncNone, IdleLock, CheckLive,
     CheckRunning, CheckHandoff, IdleWait, MainAwait, MainEnd, MainCalls
<1> QED
  BY <1>2, <1>3, NoneMoves DEF SameHand, Holds

LEMMA StillRunOne ==
    ASSUME Apart(lists), StealInv, NEW w \in Workers, HandShape(w), Own(w),
           \/ Resume(w) \/ ResumeUndefined(w) \/ Suspend(w) \/ Fin1(w) \/ Fin2(w)
           \/ AfterParked(w) \/ RequeuedCount(w) \/ RequeuedStop(w) \/ SpawnedDone(w)
           \/ SpawnedCount(w)
    PROVE  StillLists
<1>1. TypeOK
  BY DEF StealInv
<1> USE DEF program, queues, counters, flags, coros, shared, waking, search, locals
<1>2. UNCHANGED <<ready, localq, wakes, next, chan>>
  BY DEF Resume, ResumeUndefined, Suspend, Fin1, Fin2, AfterParked, RequeuedCount, RequeuedStop,
     SpawnedDone, SpawnedCount, Complete, Release, SpawnReturn
<1>3. SameHand(w)
  <2> USE DEF SameHand, Holds, Fetching, HandShape, IdlePcs, At, Go
  <2>1. CASE Resume(w)
    BY <1>1, <2>1 DEF Resume, TypeOK
  <2>2. CASE ResumeUndefined(w)
    BY <1>1, <2>2 DEF ResumeUndefined, TypeOK
  <2>3. CASE Suspend(w)
    <3>1. cur' = cur /\ parked' = parked /\ pc[w] = "suspend" /\ pc'[w] \in {"after", "spawned"}
      <4>1. CASE Len(stack[w]) = 1 /\ cur[w] # None
        BY <1>1, <2>3, <4>1 DEF Suspend, TypeOK
      <4>2. CASE ~(Len(stack[w]) = 1 /\ cur[w] # None)
        BY <1>1, <2>3, <4>2 DEF Suspend, TypeOK
      <4> QED
        BY <4>1, <4>2
    <3> QED
      BY <3>1
  <2>4. CASE Fin1(w) \/ Fin2(w) \/ RequeuedCount(w) \/ RequeuedStop(w)
    BY <2>4 DEF Fin1, Fin2, RequeuedCount, RequeuedStop
  <2>5. CASE AfterParked(w)
    BY <1>1, <2>5 DEF AfterParked, Release, TypeOK
  <2>6. CASE SpawnedDone(w) \/ SpawnedCount(w)
    <3>1. /\ cur' = cur /\ parked' = parked /\ pc[w] \in {"spawned", "spawnedQ"}
          /\ pc'[w] \in {"main", "exec"}
      BY <1>1, <2>6 DEF SpawnedDone, SpawnedCount, Complete, SpawnReturn, TypeOK
    <3> QED
      BY <3>1
  <2> QED
    BY <2>1, <2>2, <2>3, <2>4, <2>5, <2>6
<1> QED
  BY <1>2, <1>3, NoneMoves

\* A channel of which only the buffer changes.
LEMMA BufferOnly ==
    ASSUME TypeOK, NEW k \in Channels, NEW ch,
           chan' = [chan EXCEPT ![k] = ch], ch.rwait = chan[k].rwait, ch.swait = chan[k].swait
    PROVE  \A h \in Channels : chan'[h].rwait = chan[h].rwait /\ chan'[h].swait = chan[h].swait
  BY DEF TypeOK

\* The hand of a thread in a body that does not park.
LEMMA HandInBody ==
    ASSUME TypeOK, NEW w \in Workers, pc[w] \in OnTop \cup {"suspend", "main", "spawned"},
           pc'[w] \notin Fetching \cup {"ub"}, cur'[w] = cur[w], parked'[w] = parked[w]
    PROVE  SameHand(w)
  BY DEF SameHand, Holds, OnTop, Fetching

LEMMA StillBody ==
    ASSUME Apart(lists), ChanInv, NEW w \in Workers, HandShape(w), Own(w),
           ExecYield(w) \/ ExecAwait(w) \/ ExecReturn(w) \/ WokenCount(w) \/ ExecSpawn(w)
           \/ (w = 0 /\ MainSpawn)
    PROVE  StillLists
<1>1. TypeOK /\ ret[w] \in {"exec", "suspend"}
  BY DEF ChanInv, StealInv, TypeOK
<1> USE DEF At, Go, program, queues, counters, flags, coros, shared, waking, search, locals
<1>2. UNCHANGED <<ready, localq, wakes, next, chan, cur, parked>>
  BY DEF ExecYield, ExecAwait, ExecReturn, WokenCount, ExecSpawn, MainSpawn, StartRamp
<1>3. pc[w] \in OnTop \cup {"main"} /\ pc'[w] \notin Fetching \cup {"ub"}
  <2> USE DEF OnTop, Fetching, Executing
  <2>1. CASE ExecYield(w) \/ ExecReturn(w)
    BY <1>1, <2>1 DEF ExecYield, ExecReturn, TypeOK
  <2>2. CASE ExecAwait(w)
    BY <1>1, <2>2 DEF ExecAwait, TypeOK
  <2>3. CASE WokenCount(w)
    BY <1>1, <2>3 DEF WokenCount, TypeOK
  <2>4. CASE ExecSpawn(w) \/ (w = 0 /\ MainSpawn)
    BY <1>1, <2>4 DEF ExecSpawn, MainSpawn, MainCalls, StartRamp, TypeOK
  <2> QED
    BY <2>1, <2>2, <2>3, <2>4
<1>4. SameHand(w)
  BY <1>1, <1>2, <1>3, HandInBody
<1> QED
  BY <1>2, <1>4, NoneMoves

-----------------------------------------------------------------------------
LEMMA Goes ==
    ASSUME Apart(lists), NEW w \in Workers, Own(w), NEW a \in Places, NEW b \in Places, a # b,
           NEW c, Loses(lists[a], lists'[a], c), Gains(lists[b], lists'[b], c),
           NEW E, E = {a, b},
           ready' = ready \/ <<"ready", 0>> \in E,
           \A v \in Workers : localq'[v] = localq[v] \/ <<"local", v>> \in E,
           wakes'[w] = wakes[w] \/ <<"wakes", w>> \in E,
           next'[w] = next[w] \/ <<"next", w>> \in E,
           SameHand(w) \/ <<"held", w>> \in E,
           \A k \in Channels : chan'[k].rwait = chan[k].rwait \/ <<"rwait", k>> \in E,
           \A k \in Channels : chan'[k].swait = chan[k].swait \/ <<"swait", k>> \in E
    PROVE  StillLists
<1>1. \A p \in Places : p \notin E => lists'[p] = lists[p]
  BY ElseSame
<1> QED
  BY <1>1, OneMoves

LEMMA Elsewhere ==
    ASSUME Apart(lists), NEW a \in Places, NEW b \in Places, a # b, NEW c, Listed(lists[a], c)
    PROVE  Distinct(lists[a]) /\ Distinct(lists[b]) /\ ~Listed(lists[b], c) /\ Somewhere(lists, c)
  BY DEF Apart, Somewhere

LEMMA HandFills ==
    ASSUME NEW w \in Workers, ~Holds(w), Holds(w)'
    PROVE  Gains(lists[<<"held", w>>], lists'[<<"held", w>>], cur'[w])
<1>1. lists[<<"held", w>>] = <<>>
  BY ListIs
<1>2. lists'[<<"held", w>>] = <<cur'[w]>>
  BY NextListIs
<1> QED
  BY <1>1, <1>2, SingleMoves

LEMMA HandEmpties ==
    ASSUME NEW w \in Workers, Holds(w), ~Holds(w)'
    PROVE  Loses(lists[<<"held", w>>], lists'[<<"held", w>>], cur[w])
<1>1. lists[<<"held", w>>] = <<cur[w]>>
  BY ListIs
<1>2. lists'[<<"held", w>>] = <<>>
  BY NextListIs
<1> QED
  BY <1>1, <1>2, SingleMoves

LEMMA PickNextMoves ==
    ASSUME Apart(lists), StealInv, NEW w \in Workers, HandShape(w), Own(w), PickNext(w)
    PROVE  StillLists /\ Somewhere(lists, cur'[w])
<1>1. TypeOK
  BY DEF StealInv
<1>2. /\ next[w] # None /\ cur[w] = None /\ cur'[w] = next[w] /\ next'[w] = None
      /\ pc'[w] = "handoff"
  BY <1>1 DEF PickNext, HandShape, IdlePcs, At, Go, TypeOK
<1> DEFINE a == <<"next", w>>
           b == <<"held", w>>
<1>3. a \in Places /\ b \in Places /\ a # b
  BY PlaceTypes
<1>4. Loses(lists[a], lists'[a], next[w])
  <2>1. lists[a] = <<next[w]>> /\ lists'[a] = <<>>
    BY <1>2, ListIs, NextListIs
  <2> QED
    BY <2>1, SingleMoves
<1>5. Gains(lists[b], lists'[b], next[w])
  <2>1. ~Holds(w) /\ Holds(w)'
    BY <1>2 DEF Holds, Fetching
  <2> QED
    BY <1>2, <2>1, HandFills
<1>6. UNCHANGED <<ready, localq, wakes, chan>>
  BY DEF PickNext, queues, waking
<1>7. PICK E : E = {a, b}
  OBVIOUS
<1>8. a \in E /\ b \in E
  BY <1>7
<1>9. StillLists
  BY <1>3, <1>4, <1>5, <1>6, <1>7, <1>8, Goes
<1>10. Listed(lists[a], next[w])
  BY <1>4 DEF Loses
<1> QED
  BY <1>2, <1>3, <1>9, <1>10 DEF Somewhere

LEMMA PickLocalMoves ==
    ASSUME Apart(lists), StealInv, NEW w \in Workers, HandShape(w), Own(w), PickLocal(w)
    PROVE  StillLists /\ Somewhere(lists, cur'[w])
<1>1. TypeOK
  BY DEF StealInv
<1> DEFINE s == localq[w]
           c == Last(s)
<1>2. s \in Seq(Coros) /\ s # <<>> /\ c \in Coros
  BY <1>1, LastFront DEF PickLocal, TypeOK
<1>3. /\ cur[w] = None /\ cur'[w] = c /\ localq' = [localq EXCEPT ![w] = Front(s)]
      /\ pc'[w] = "uncount"
  BY <1>1 DEF PickLocal, HandShape, IdlePcs, At, Go, TypeOK
<1> DEFINE a == <<"local", w>>
           b == <<"held", w>>
<1>4. a \in Places /\ b \in Places /\ a # b
  BY PlaceTypes
<1>5. lists[a] = s /\ lists'[a] = Front(s)
  <2>1. localq'[w] = Front(s)
    BY <1>1, <1>3 DEF TypeOK
  <2> QED
    BY <2>1, ListIs, NextListIs
<1>6. Loses(lists[a], lists'[a], c)
  <2>1. Distinct(s)
    BY <1>4, <1>5 DEF Apart
  <2> QED
    BY <1>2, <1>5, <2>1, FrontLoses
<1>7. Gains(lists[b], lists'[b], c)
  <2>1. ~Holds(w) /\ Holds(w)'
    BY <1>2, <1>3, NoneAssumption DEF Holds, Fetching
  <2> QED
    BY <1>3, <2>1, HandFills
<1>8. UNCHANGED <<ready, wakes, next, chan>>
  BY DEF PickLocal, waking
<1>9. \A v \in Workers : v # w => localq'[v] = localq[v]
  BY <1>1, <1>3 DEF TypeOK
<1>10. PICK E : E = {a, b}
  OBVIOUS
<1>11. a \in E /\ b \in E
  BY <1>10
<1>12. StillLists
  BY <1>4, <1>6, <1>7, <1>8, <1>9, <1>10, <1>11, Goes
<1>13. Listed(lists[a], c)
  BY <1>6 DEF Loses
<1> QED
  BY <1>3, <1>4, <1>12, <1>13 DEF Somewhere

LEMMA ScanTakeMoves ==
    ASSUME Apart(lists), StealInv, NEW w \in Workers, HandShape(w), Own(w), ScanTake(w)
    PROVE  StillLists /\ Somewhere(lists, cur'[w])
<1>1. TypeOK /\ ready \in Seq(Coros)
  BY DEF StealInv, TypeOK
<1>2. PICK i \in 1..Len(ready) : ready' = RemoveAt(ready, i) /\ cur' = [cur EXCEPT ![w] = ready[i]]
  BY DEF ScanTake, Due
<1> DEFINE c == ready[i]
<1>3. /\ cur[w] = None /\ cur'[w] = c /\ c \in Coros /\ pc'[w] = "resume"
  BY <1>1, <1>2, SMTT(30) DEF ScanTake, HandShape, IdlePcs, At, Go, TypeOK
<1> DEFINE a == <<"ready", 0>>
           b == <<"held", w>>
<1>4. a \in Places /\ b \in Places /\ a # b
  BY PlaceTypes
<1>5. lists[a] = ready /\ lists'[a] = RemoveAt(ready, i)
  BY <1>2, ListIs, NextListIs
<1>6. Loses(lists[a], lists'[a], c)
  <2>1. Distinct(ready)
    BY <1>4, <1>5 DEF Apart
  <2> QED
    BY <1>1, <1>5, <2>1, RemoveLoses
<1>7. Gains(lists[b], lists'[b], c)
  <2>1. ~Holds(w) /\ Holds(w)'
    BY <1>3, NoneAssumption DEF Holds, Fetching
  <2> QED
    BY <1>3, <2>1, HandFills
<1>8. UNCHANGED <<localq, wakes, next, chan>>
  BY DEF ScanTake, waking
<1>10. PICK E : E = {a, b}
  OBVIOUS
<1>11. a \in E /\ b \in E
  BY <1>10
<1>12. StillLists
  BY <1>4, <1>6, <1>7, <1>8, <1>10, <1>11, Goes
<1>13. Listed(lists[a], c)
  BY <1>6 DEF Loses
<1> QED
  BY <1>3, <1>4, <1>12, <1>13 DEF Somewhere

LEMMA RequeueMoves ==
    ASSUME Apart(lists), StealInv, NEW w \in Workers, HandShape(w), Own(w), AfterRequeue(w)
    PROVE  StillLists /\ cur'[w] = None
<1>1. TypeOK /\ ThreadShape(w) /\ ready \in Seq(Coros)
  BY DEF StealInv, TypeOK
<1> DEFINE c == cur[w]
<1>3. /\ c \in Coros /\ cur'[w] = None /\ ~parked[w] /\ pc[w] = "after"
      /\ ready' = Append(ready, c)
  BY <1>1, NoneAssumption
  DEF AfterRequeue, PushReady, Release, ThreadShape, Fetching, At, Go, TypeOK
<1> DEFINE a == <<"held", w>>
           b == <<"ready", 0>>
<1>4. a \in Places /\ b \in Places /\ a # b
  BY PlaceTypes
<1>5. lists[b] = ready /\ lists'[b] = Append(ready, c)
  BY <1>3, ListIs, NextListIs
<1>6. Loses(lists[a], lists'[a], c)
  <2>1. Holds(w) /\ ~Holds(w)'
    BY <1>3, NoneAssumption DEF Holds
  <2> QED
    BY <2>1, HandEmpties
<1>7. Gains(lists[b], lists'[b], c)
  <2>1. Listed(lists[a], c)
    BY <1>6 DEF Loses
  <2>2. Distinct(ready) /\ ~Listed(ready, c)
    BY <1>4, <1>5, <2>1, Elsewhere
  <2> QED
    BY <1>1, <1>3, <1>5, <2>2, AppendGains
<1>8. UNCHANGED <<localq, wakes, next, chan>>
  BY DEF AfterRequeue, PushReady, waking
<1>10. PICK E : E = {a, b}
  OBVIOUS
<1>11. a \in E /\ b \in E
  BY <1>10
<1>12. StillLists
  BY <1>4, <1>6, <1>7, <1>8, <1>10, <1>11, Goes
<1> QED
  BY <1>3, <1>12

\* The first wake-up a thread owes is made.
LEMMA WakeLoses ==
    ASSUME Apart(lists), StealInv, NEW w \in Workers, Own(w), Waking(w),
           pc'[w] \in {ret[w], "wake", "woken"}
    PROVE  /\ Head(wakes[w]) \in Coros
           /\ Loses(lists[<<"wakes", w>>], lists'[<<"wakes", w>>], Head(wakes[w]))
           /\ SameHand(w) /\ chan' = chan /\ cur' = cur
<1>1. TypeOK /\ ThreadShape(w)
  BY DEF StealInv
<1> DEFINE s == wakes[w]
<1>2. s \in Seq(Coros) /\ s # <<>> /\ Head(s) \in Coros /\ pc[w] = "wake" /\ wakes'[w] = Tail(s)
  BY <1>1, HeadTail DEF Waking, ThreadShape, At, TypeOK
<1>3. lists[<<"wakes", w>>] = s /\ lists'[<<"wakes", w>>] = Tail(s)
  BY <1>2, ListIs, NextListIs
<1>4. Distinct(s)
  BY <1>3, PlaceTypes DEF Apart
<1>5. Loses(s, Tail(s), Head(s))
  BY <1>2, <1>4, TailLoses
<1>6. SameHand(w)
  <2>1. pc'[w] \notin Fetching \cup {"ub"}
    BY <1>1 DEF Fetching, TypeOK
  <2>2. cur' = cur /\ parked' = parked
    BY DEF Waking
  <2> QED
    BY <1>1, <1>2, <2>1, <2>2, HandInBody DEF OnTop
<1> QED
  BY <1>2, <1>3, <1>5, <1>6 DEF Waking

LEMMA WakeNextMoves ==
    ASSUME Apart(lists), StealInv, NEW w \in Workers, Own(w), WakeNext(w)
    PROVE  StillLists /\ cur' = cur
<1>1. TypeOK /\ Waking(w)
  BY DEF StealInv, WakeNext
<1> DEFINE c == Head(wakes[w])
           a == <<"wakes", w>>
           b == <<"next", w>>
<1>2. pc'[w] \in {ret[w], "wake", "woken"}
  BY <1>1 DEF WakeNext, Go, TypeOK
<1>3. c \in Coros /\ Loses(lists[a], lists'[a], c) /\ SameHand(w) /\ chan' = chan /\ cur' = cur
  BY <1>1, <1>2, WakeLoses
<1>4. a \in Places /\ b \in Places /\ a # b
  BY PlaceTypes
<1>5. next[w] = None /\ next'[w] = c
  BY <1>1 DEF WakeNext, TypeOK
<1>6. Gains(lists[b], lists'[b], c)
  <2>1. lists[b] = <<>> /\ lists'[b] = <<c>>
    <3>1. lists[b] = <<>>
      BY <1>5, ListIs
    <3>2. lists'[b] = <<next'[w]>>
      BY <1>3, <1>5, NoneAssumption, NextListIs
    <3> QED
      BY <1>5, <3>1, <3>2
  <2> QED
    BY <2>1, SingleMoves
<1>8. UNCHANGED <<localq, ready>>
  BY DEF WakeNext, queues
<1>10. PICK E : E = {a, b}
  OBVIOUS
<1>11. a \in E /\ b \in E
  BY <1>10
<1>12. StillLists
  BY <1>3, <1>4, <1>6, <1>8, <1>10, <1>11, Goes
<1> QED
  BY <1>3, <1>12

LEMMA WakeLocalMoves ==
    ASSUME Apart(lists), StealInv, NEW w \in Workers, Own(w), WakeLocal(w)
    PROVE  StillLists /\ cur' = cur
<1>1. TypeOK /\ Waking(w)
  BY DEF StealInv, WakeLocal
<1> DEFINE c == Head(wakes[w])
           s == localq[w]
           a == <<"wakes", w>>
           b == <<"local", w>>
<1>2. pc'[w] \in {ret[w], "wake", "woken"}
  BY <1>1 DEF WakeLocal, Go, TypeOK
<1>3. c \in Coros /\ Loses(lists[a], lists'[a], c) /\ SameHand(w) /\ chan' = chan /\ cur' = cur
  BY <1>1, <1>2, WakeLoses
<1>4. a \in Places /\ b \in Places /\ a # b
  BY PlaceTypes
<1>5. s \in Seq(Coros) /\ localq' = [localq EXCEPT ![w] = Append(s, c)] /\ localq'[w] = Append(s, c)
      /\ \A v \in Workers : v # w => localq'[v] = localq[v]
  BY <1>1 DEF WakeLocal, TypeOK
<1>6. Gains(lists[b], lists'[b], c)
  <2>1. lists[b] = s /\ lists'[b] = Append(s, c)
    BY <1>5, ListIs, NextListIs
  <2>2. Listed(lists[a], c)
    BY <1>3 DEF Loses
  <2>3. Distinct(s) /\ ~Listed(s, c)
    BY <1>4, <2>1, <2>2, Elsewhere
  <2> QED
    BY <1>3, <1>5, <2>1, <2>3, AppendGains
<1>8. UNCHANGED <<next, ready>>
  BY DEF WakeLocal
<1>10. PICK E : E = {a, b}
  OBVIOUS
<1>11. a \in E /\ b \in E
  BY <1>10
<1>12. StillLists
  BY <1>3, <1>4, <1>5, <1>6, <1>8, <1>10, <1>11, Goes
<1> QED
  BY <1>3, <1>12

LEMMA WakeGlobalMoves ==
    ASSUME Apart(lists), StealInv, NEW w \in Workers, Own(w), WakeGlobal(w)
    PROVE  StillLists /\ cur' = cur
<1>1. TypeOK /\ Waking(w)
  BY DEF StealInv, WakeGlobal
<1> DEFINE c == Head(wakes[w])
           a == <<"wakes", w>>
           b == <<"ready", 0>>
<1>2. pc'[w] \in {ret[w], "wake", "woken"}
  BY <1>1 DEF WakeGlobal, Go, TypeOK
<1>3. c \in Coros /\ Loses(lists[a], lists'[a], c) /\ SameHand(w) /\ chan' = chan /\ cur' = cur
  BY <1>1, <1>2, WakeLoses
<1>4. a \in Places /\ b \in Places /\ a # b
  BY PlaceTypes
<1>5. ready \in Seq(Coros) /\ ready' = Append(ready, c)
  BY <1>1 DEF WakeGlobal, TypeOK
<1>6. Gains(lists[b], lists'[b], c)
  <2>1. lists[b] = ready /\ lists'[b] = Append(ready, c)
    BY <1>5, ListIs, NextListIs
  <2>2. Listed(lists[a], c)
    BY <1>3 DEF Loses
  <2>3. Distinct(ready) /\ ~Listed(ready, c)
    BY <1>4, <2>1, <2>2, Elsewhere
  <2> QED
    BY <1>3, <1>5, <2>1, <2>3, AppendGains
<1>8. UNCHANGED <<next, localq>>
  BY DEF WakeGlobal
<1>10. PICK E : E = {a, b}
  OBVIOUS
<1>11. a \in E /\ b \in E
  BY <1>10
<1>12. StillLists
  BY <1>3, <1>4, <1>6, <1>8, <1>10, <1>11, Goes
<1> QED
  BY <1>3, <1>12

-----------------------------------------------------------------------------
(* Channels.                                                                 *)

\* The steps of one thread that transfer or park, with what they change.
Transfer(w) == ExecSend(w) \/ ParkSend(w) \/ ExecRecv(w) \/ ParkRecv(w)

LEMMA TransferFacts ==
    ASSUME StealInv, NEW w \in Workers, HandShape(w), Transfer(w)
    PROVE  /\ Running(w) \in Coros /\ pc[w] \in {"exec", "parkSend", "parkRecv"}
           /\ UNCHANGED <<ready, localq, next, cur>>
           /\ wakes[w] = <<>> /\ lists[<<"wakes", w>>] = <<>>
           /\ cur[w] # None => ~parked[w]
           /\ pc'[w] \in {"exec", "parkSend", "parkRecv", "suspend", "wake"}
           /\ parked' = parked => SameHand(w)
<1>1. TypeOK
  BY DEF StealInv
<1>2. pc[w] \in {"exec", "parkSend", "parkRecv"} /\ ChannelFrame
  BY DEF Transfer, ExecSend, ParkSend, ExecRecv, ParkRecv, ParkRecvLooking, Executing, At
<1>3. Running(w) \in Coros
  BY <1>2, TopTouched DEF OnTop
<1>4. UNCHANGED <<ready, localq, next, cur>>
  BY <1>2 DEF ChannelFrame, queues
<1>5. wakes[w] = <<>>
  BY <1>2 DEF HandShape
<1>6. cur[w] # None => ~parked[w]
  BY <1>2 DEF HandShape, Fetching
<1>7. pc'[w] \in {"exec", "parkSend", "parkRecv", "suspend", "wake"}
  <2>1. CASE ExecSend(w)
    BY <1>1, <2>1 DEF ExecSend, Executing, At, ThenWake, Go, TypeOK
  <2>2. CASE ParkSend(w)
    BY <1>1, <2>2 DEF ParkSend, At, ThenWake, Go, TypeOK
  <2>3. CASE ExecRecv(w)
    BY <1>1, <2>3 DEF ExecRecv, Executing, At, ThenWake, Go, TypeOK
  <2>4. CASE ParkRecv(w)
    BY <1>1, <2>4 DEF ParkRecv, ParkRecvLooking, At, Go, TypeOK
  <2> QED
    BY <2>1, <2>2, <2>3, <2>4 DEF Transfer
<1>8. parked' = parked => SameHand(w)
  BY <1>1, <1>2, <1>4, <1>7, HandInBody DEF OnTop, Fetching
<1> QED
  BY <1>2, <1>3, <1>4, <1>5, <1>6, <1>7, <1>8, ListIs

\* The rest of a channel step that puts ch in place of a channel.
LEMMA ChannelBecomes ==
    ASSUME TypeOK, NEW k \in Channels, NEW ch, chan' = [chan EXCEPT ![k] = ch]
    PROVE  chan'[k] = ch /\ \A h \in Channels : h # k => chan'[h] = chan[h]
  BY DEF TypeOK

LEMMA ChannelParts ==
    ASSUME TypeOK, NEW k \in Channels
    PROVE  /\ chan[k] \in ChanType(Coros, Values)
           /\ chan[k].rwait \in Seq(Coros) /\ chan[k].swait \in Seq(Parcel)
           /\ lists[<<"rwait", k>>] = chan[k].rwait
           /\ lists[<<"swait", k>>] = SendersOf(chan[k].swait)
<1>1. chan[k] \in ChanType(Coros, Values)
  BY DEF TypeOK
<1>2. chan[k].rwait \in Seq(Coros) /\ chan[k].swait \in Seq(Parcel)
  BY <1>1 DEF ChanType, Parcel
<1> QED
  BY <1>1, <1>2, ListIs

\* Nobody was parked there.
LEMMA OnlyBuffer ==
    ASSUME TypeOK, Apart(lists), NEW w \in Workers, Own(w), SameHand(w),
           UNCHANGED <<ready, localq, next>>,
           NEW k \in Channels, NEW ch, chan' = [chan EXCEPT ![k] = ch],
           ch.rwait = chan[k].rwait, ch.swait = chan[k].swait,
           NEW cs, wakes' = [wakes EXCEPT ![w] = cs], cs = <<>>, wakes[w] = <<>>
    PROVE  StillLists
<1>1. \A h \in Channels : chan'[h].rwait = chan[h].rwait /\ chan'[h].swait = chan[h].swait
  BY BufferOnly
<1>2. wakes'[w] = wakes[w]
  BY DEF TypeOK
<1> QED
  BY <1>1, <1>2, NoneMoves

LEMMA SentMoves ==
    ASSUME TypeOK, Apart(lists), NEW w \in Workers, Own(w), SameHand(w),
           UNCHANGED <<ready, localq, next>>, wakes[w] = <<>>,
           NEW k \in Channels, NEW v, chan' = [chan EXCEPT ![k] = Pushed(chan[k], v)],
           wakes' = [wakes EXCEPT ![w] = PushWakes(chan[k])]
    PROVE  StillLists
<1> DEFINE ch == chan[k]
           s == ch.rwait
<1>1. ch \in ChanType(Coros, Values) /\ s \in Seq(Coros) /\ lists[<<"rwait", k>>] = s
  BY ChannelParts
<1>2. Pushed(ch, v).rwait = Rest(s) /\ Pushed(ch, v).swait = ch.swait
  BY <1>1 DEF Pushed, ChanType
<1>3. CASE s = <<>>
  <2>1. PushWakes(ch) = <<>> /\ Rest(s) = s
    BY <1>3 DEF PushWakes, First, Rest
  <2> QED
    BY <1>2, <2>1, OnlyBuffer
<1>4. CASE s # <<>>
  <2> DEFINE c == Head(s)
             a == <<"rwait", k>>
             b == <<"wakes", w>>
  <2>1. PushWakes(ch) = <<c>> /\ Rest(s) = Tail(s)
    BY <1>4 DEF PushWakes, First, Rest
  <2>2. a \in Places /\ b \in Places /\ a # b
    BY PlaceTypes
  <2>3. chan'[k] = Pushed(ch, v) /\ \A h \in Channels : h # k => chan'[h] = chan[h]
    BY ChannelBecomes
  <2>4. chan'[k].rwait = Tail(s) /\ chan'[k].swait = chan[k].swait
    BY <1>2, <2>1, <2>3
  <2>5. wakes'[w] = <<c>>
    BY <2>1 DEF TypeOK
  <2>6. Loses(lists[a], lists'[a], c)
    <3>1. lists'[a] = Tail(s)
      BY <2>4, NextListIs
    <3>2. Distinct(s)
      BY <1>1, <2>2 DEF Apart
    <3> QED
      BY <1>1, <1>4, <3>1, <3>2, TailLoses
  <2>7. Gains(lists[b], lists'[b], c)
    <3>1. lists[b] = <<>> /\ lists'[b] = <<c>>
      BY <2>5, ListIs, NextListIs
    <3> QED
      BY <3>1, SingleMoves
  <2>8. PICK E : E = {a, b}
    OBVIOUS
  <2>9. a \in E /\ b \in E
    BY <2>8
  <2>10. \A h \in Channels : /\ chan'[h].rwait = chan[h].rwait \/ <<"rwait", h>> \in E
                             /\ chan'[h].swait = chan[h].swait \/ <<"swait", h>> \in E
    BY <2>3, <2>4, <2>9
  <2> QED
    BY <2>2, <2>6, <2>7, <2>8, <2>9, <2>10, Goes, ZenonT(40)
<1> QED
  BY <1>3, <1>4

LEMMA ParkedReceiverMoves ==
    ASSUME StealInv, Apart(lists), NEW w \in Workers, Own(w), HandShape(w), ParkRecv(w),
           NEW k \in Channels, cur[w] # None, chan' = [chan EXCEPT ![k] = ParkedReceiver(@, cur[w])],
           parked' = [parked EXCEPT ![w] = TRUE]
    PROVE  StillLists
<1>1. TypeOK /\ cur[w] \in Coros
  BY DEF StealInv, TypeOK
<1>2. /\ UNCHANGED <<ready, localq, next, cur>> /\ ~parked[w] /\ pc[w] = "parkRecv"
      /\ pc'[w] = "suspend" /\ wakes' = wakes
  BY <1>1, TransferFacts DEF Transfer, ParkRecv, ParkRecvLooking, At, Go, TypeOK, waking
<1> DEFINE c == cur[w]
           ch == chan[k]
           s == ch.rwait
           a == <<"held", w>>
           b == <<"rwait", k>>
<1>3. ch \in ChanType(Coros, Values) /\ s \in Seq(Coros) /\ lists[b] = s
  BY <1>1, ChannelParts
<1>4. chan'[k] = ParkedReceiver(ch, c) /\ \A h \in Channels : h # k => chan'[h] = chan[h]
  BY <1>1, ChannelBecomes
<1>5. chan'[k].rwait = Append(s, c) /\ chan'[k].swait = chan[k].swait
  BY <1>3, <1>4 DEF ParkedReceiver, ChanType
<1>6. a \in Places /\ b \in Places /\ a # b
  BY PlaceTypes
<1>7. Loses(lists[a], lists'[a], c)
  <2>1. parked'[w] = TRUE
    BY <1>1 DEF TypeOK
  <2>2. Holds(w) /\ ~Holds(w)'
    BY <1>2, <2>1 DEF Holds, Fetching
  <2> QED
    BY <2>2, HandEmpties
<1>8. Gains(lists[b], lists'[b], c)
  <2>1. lists'[b] = Append(s, c)
    BY <1>5, NextListIs
  <2>2. Listed(lists[a], c)
    BY <1>7 DEF Loses
  <2>3. Distinct(s) /\ ~Listed(s, c)
    BY <1>3, <1>6, <2>2, Elsewhere
  <2> QED
    BY <1>1, <1>3, <2>1, <2>3, AppendGains
<1>9. PICK E : E = {a, b}
  OBVIOUS
<1>10. a \in E /\ b \in E
  BY <1>9
<1>11. \A h \in Channels : /\ chan'[h].rwait = chan[h].rwait \/ <<"rwait", h>> \in E
                           /\ chan'[h].swait = chan[h].swait \/ <<"swait", h>> \in E
  BY <1>4, <1>5, <1>10
<1> QED
  BY <1>2, <1>6, <1>7, <1>8, <1>9, <1>10, <1>11, Goes

LEMMA ParkedSenderMoves ==
    ASSUME StealInv, Apart(lists), NEW w \in Workers, Own(w), HandShape(w), ParkSend(w),
           NEW k \in Channels, NEW v \in Values, cur[w] # None,
           chan' = [chan EXCEPT ![k] = ParkedSender(@, cur[w], v)],
           parked' = [parked EXCEPT ![w] = TRUE], Go(w, "suspend"), wakes' = wakes
    PROVE  StillLists
<1>1. TypeOK /\ cur[w] \in Coros
  BY DEF StealInv, TypeOK
<1>2. /\ UNCHANGED <<ready, localq, next, cur>> /\ ~parked[w] /\ pc[w] = "parkSend"
      /\ pc'[w] = "suspend"
  BY <1>1, TransferFacts DEF Transfer, ParkSend, At, Go, TypeOK
<1> DEFINE c == cur[w]
           ch == chan[k]
           s == ch.swait
           a == <<"held", w>>
           b == <<"swait", k>>
<1>3. ch \in ChanType(Coros, Values) /\ s \in Seq(Parcel) /\ lists[b] = SendersOf(s)
  BY <1>1, ChannelParts
<1>4. chan'[k] = ParkedSender(ch, c, v) /\ \A h \in Channels : h # k => chan'[h] = chan[h]
  BY <1>1, ChannelBecomes
<1>5. chan'[k].swait = Append(s, [co |-> c, val |-> v]) /\ chan'[k].rwait = chan[k].rwait
  BY <1>3, <1>4 DEF ParkedSender, ChanType
<1>6. a \in Places /\ b \in Places /\ a # b
  BY PlaceTypes
<1>7. Loses(lists[a], lists'[a], c)
  <2>1. parked'[w] = TRUE
    BY <1>1 DEF TypeOK
  <2>2. Holds(w) /\ ~Holds(w)'
    BY <1>2, <2>1 DEF Holds, Fetching
  <2> QED
    BY <2>2, HandEmpties
<1>8. Gains(lists[b], lists'[b], c)
  <2>1. lists'[b] = Append(SendersOf(s), c)
    <3>1. lists'[b] = SendersOf(chan'[k].swait)
      BY NextListIs
    <3>2. SendersOf(Append(s, [co |-> c, val |-> v])) = Append(SendersOf(s), c)
      BY <1>1, <1>3, SendersOfAppend
    <3> QED
      BY <1>5, <3>1, <3>2
  <2>2. Listed(lists[a], c)
    BY <1>7 DEF Loses
  <2>3. Distinct(SendersOf(s)) /\ ~Listed(SendersOf(s), c)
    BY <1>3, <1>6, <2>2, Elsewhere
  <2>4. SendersOf(s) \in Seq(Coros)
    BY <1>3, SendersOfType
  <2> QED
    BY <1>1, <1>3, <2>1, <2>3, <2>4, AppendGains
<1>9. PICK E : E = {a, b}
  OBVIOUS
<1>10. a \in E /\ b \in E
  BY <1>9
<1>11. \A h \in Channels : /\ chan'[h].rwait = chan[h].rwait \/ <<"rwait", h>> \in E
                           /\ chan'[h].swait = chan[h].swait \/ <<"swait", h>> \in E
  BY <1>4, <1>5, <1>10
<1> QED
  BY <1>2, <1>6, <1>7, <1>8, <1>9, <1>10, <1>11, Goes

LEMMA TwoFacts ==
    ASSUME NEW S, NEW c \in S, NEW d \in S, c # d
    PROVE  Gains(<<c>>, <<c>> \o <<d>>, d)
<1>1. <<c>> \in Seq(S) /\ Append(<<c>>, d) = <<c>> \o <<d>>
  BY SingletonType, AppendIsConcat
<1>2. Distinct(<<c>>) /\ ~Listed(<<c>>, d)
  BY SingleFacts
<1> QED
  BY <1>1, <1>2, AppendGains

\* The value of a parked sender takes the freed place: the sender is woken,
\* and a parked receiver for the promoted value.
LEMMA PromotedMoves ==
    ASSUME TypeOK, Apart(lists), NEW w \in Workers, Own(w), SameHand(w),
           UNCHANGED <<ready, localq, next>>, wakes[w] = <<>>,
           NEW k \in Channels, chan' = [chan EXCEPT ![k] = Popped(chan[k])],
           chan[k].swait # <<>>, wakes' = [wakes EXCEPT ![w] = PopWakes(chan[k])]
    PROVE  StillLists
<1> DEFINE ch == chan[k]
           r == ch.rwait
           s == ch.swait
           c == Head(s).co
           t == <<"swait", k>>
           a == <<"rwait", k>>
           b == <<"wakes", w>>
<1>1. /\ ch \in ChanType(Coros, Values) /\ r \in Seq(Coros) /\ s \in Seq(Parcel)
      /\ lists[a] = r /\ lists[t] = SendersOf(s)
  BY ChannelParts
<1>2. a \in Places /\ b \in Places /\ t \in Places /\ a # b /\ a # t /\ b # t
  BY PlaceTypes
<1>3. chan'[k] = Popped(ch) /\ \A h \in Channels : h # k => chan'[h] = chan[h]
  BY ChannelBecomes
<1>4. chan'[k].rwait = Rest(r) /\ chan'[k].swait = Tail(s)
  BY <1>3 DEF Popped
<1>5. PopWakes(ch) = <<c>> \o First(r) /\ wakes'[w] = PopWakes(ch)
  BY DEF PopWakes, TypeOK
<1>6. /\ lists'[a] = Rest(r) /\ lists'[t] = Tail(SendersOf(s)) /\ lists'[b] = <<c>> \o First(r)
      /\ lists[b] = <<>>
  <2>1. lists'[t] = SendersOf(Tail(s))
    BY <1>4, NextListIs
  <2>2. SendersOf(Tail(s)) = Tail(SendersOf(s))
    BY <1>1, SendersOfTail
  <2>3. lists'[a] = Rest(r) /\ lists'[b] = <<c>> \o First(r) /\ lists[b] = <<>>
    BY <1>4, <1>5, ListIs, NextListIs
  <2> QED
    BY <2>1, <2>2, <2>3
<1>7. Loses(lists[t], lists'[t], c) /\ c \in Coros
  <2>1. /\ SendersOf(s) \in Seq(Coros) /\ SendersOf(s) # <<>> /\ Head(SendersOf(s)) = c
        /\ c \in Coros
    BY <1>1, SendersOfType, SendersOfTail DEF Parcel
  <2>2. Distinct(SendersOf(s))
    BY <1>1, <1>2 DEF Apart
  <2>3. Loses(SendersOf(s), Tail(SendersOf(s)), Head(SendersOf(s)))
    BY <2>1, <2>2, TailLoses
  <2> QED
    BY <1>1, <1>6, <2>1, <2>3
<1>8. PICK E : E = {a, b, t}
  OBVIOUS
<1>9. a \in E /\ b \in E /\ t \in E
  BY <1>8
<1>10. \A p \in Places : p \notin E => lists'[p] = lists[p]
  <2>1. \A h \in Channels : /\ chan'[h].rwait = chan[h].rwait \/ <<"rwait", h>> \in E
                            /\ chan'[h].swait = chan[h].swait \/ <<"swait", h>> \in E
    BY <1>3, <1>9
  <2> QED
    BY <1>9, <2>1, ElseSame
<1>11. CASE r = <<>>
  <2>1. Rest(r) = r /\ <<c>> \o First(r) = <<c>>
    <3>1. <<c>> \in Seq(Coros)
      BY <1>7, SingletonType
    <3>2. <<c>> \o <<>> = <<c>>
      BY <3>1, ConcatEmptySeq
    <3> QED
      BY <1>11, <3>2 DEF Rest, First
  <2>2. Gains(lists[b], lists'[b], c) /\ lists'[a] = lists[a]
    BY <1>1, <1>6, <2>1, SingleMoves
  <2>3. PICK F : F = {t, b}
    OBVIOUS
  <2>4. \A p \in Places : p \notin F => lists'[p] = lists[p]
    BY <1>8, <1>10, <2>2, <2>3
  <2> HIDE DEF t, b, c
  <2> QED
    BY <1>2, <1>7, <2>2, <2>3, <2>4, OneMoves
<1>12. CASE r # <<>>
  <2> DEFINE d == Head(r)
  <2>1. Rest(r) = Tail(r) /\ First(r) = <<d>> /\ d \in Coros
    BY <1>1, <1>12, HeadTail DEF Rest, First
  <2>2. Loses(lists[a], lists'[a], d)
    <3>1. Distinct(r)
      BY <1>1, <1>2 DEF Apart
    <3>2. Loses(r, Tail(r), d)
      BY <1>1, <1>12, <3>1, TailLoses
    <3> QED
      BY <1>1, <1>6, <2>1, <3>2
  <2>3. lists'[b] = <<c>> \o <<d>>
    BY <1>6, <2>1
  <2>4. \A p \in Places : p # t /\ p # a /\ p # b => lists'[p] = lists[p]
    BY <1>8, <1>10
  <2>6. lists[b] = <<>>
    BY <1>6
  <2> HIDE DEF a, b, c, d, t
  <2>5. a \in Places /\ b \in Places /\ t \in Places /\ a # b /\ a # t /\ b # t /\ t # b
    BY <1>2
  <2>7. PICK M : M = [p \in Places |-> IF p = t THEN lists'[t] ELSE IF p = b THEN <<c>>
                                       ELSE lists[p]]
    OBVIOUS
  <2>8. M[t] = lists'[t] /\ M[b] = <<c>> /\ M[a] = lists[a]
    BY <2>5, <2>7
  <2>9. \A p \in Places : p # t /\ p # b => M[p] = lists[p]
    BY <2>7
  <2>10. Gains(lists[b], M[b], c) /\ Loses(lists[t], M[t], c)
    BY <1>7, <2>6, <2>8, SingleMoves
  <2>11. Apart(M) /\ \A x : Somewhere(M, x) <=> Somewhere(lists, x)
    BY ONLY Apart(lists), <2>5, <2>9, <2>10, MovesApart
  <2>12. c # d
    <3>1. Listed(lists[t], c) /\ Listed(lists[a], d)
      BY <1>7, <2>2 DEF Loses
    <3> QED
      BY <2>5, <3>1 DEF Apart
  <2>13. Gains(M[b], lists'[b], d) /\ Loses(M[a], lists'[a], d)
    BY <1>7, <2>1, <2>2, <2>3, <2>8, <2>12, TwoFacts
  <2>14. \A p \in Places : p # a /\ p # b => lists'[p] = M[p]
    <3>1. ASSUME NEW p \in Places, p # a, p # b PROVE lists'[p] = M[p]
      BY <2>4, <2>8, <2>9, <3>1
    <3> QED
      BY <3>1
  <2>15. PICK L : L = lists'
    OBVIOUS
  <2>16. Apart(M) /\ a \in Places /\ b \in Places /\ a # b
    BY <2>5, <2>11
  <2>17. Loses(M[a], L[a], d)
    BY <2>13, <2>15
  <2>18. Gains(M[b], L[b], d)
    BY <2>13, <2>15
  <2>19. \A p \in Places : p # a /\ p # b => L[p] = M[p]
    BY <2>14, <2>15
  <2>20. Apart(L) /\ \A x : Somewhere(L, x) <=> Somewhere(M, x)
    BY ONLY <2>16, <2>17, <2>18, <2>19, MovesApart, ZenonT(40)
  <2>21. \A x : Somewhere(lists', x) <=> Somewhere(lists, x)
    BY <2>11, <2>15, <2>20
  <2> QED
    BY <2>15, <2>20, <2>21 DEF StillLists
<1> QED
  BY <1>11, <1>12

LEMMA SendStill ==
    ASSUME StealInv, Apart(lists), NEW w \in Workers, Own(w), HandShape(w),
           ExecSend(w) \/ ParkSend(w)
    PROVE  StillLists /\ cur' = cur
<1> DEFINE instr == Current(Running(w))
<1>1. TypeOK /\ Transfer(w)
  BY DEF StealInv, Transfer
<1>2. /\ Running(w) \in Coros /\ UNCHANGED <<ready, localq, next, cur>>
      /\ wakes[w] = <<>> /\ (parked' = parked => SameHand(w))
  BY <1>1, TransferFacts
<1>3. instr.ch \in Channels /\ instr.val \in Values
  <2>1. instr.op = "send"
    BY DEF ExecSend, ParkSend, Executing
  <2> QED
    BY <1>1, <1>2, <2>1, CurrentType
<1>4. PICK k \in Channels : k = instr.ch
  BY <1>3
<1>5. PICK v \in Values : v = instr.val
  BY <1>3
<1>6. \/ /\ chan' = [chan EXCEPT ![k] = Pushed(@, v)] /\ parked' = parked
         /\ wakes' = [wakes EXCEPT ![w] = PushWakes(chan[k])]
      \/ chan' = chan /\ parked' = parked /\ wakes' = wakes
      \/ /\ ParkSend(w) /\ cur[w] # None /\ chan' = [chan EXCEPT ![k] = ParkedSender(@, cur[w], v)]
         /\ parked' = [parked EXCEPT ![w] = TRUE] /\ Go(w, "suspend") /\ wakes' = wakes
  <2>1. CASE ExecSend(w)
    <3> HIDE DEF instr
    <3>1. \/ /\ chan' = [chan EXCEPT ![instr.ch] = Pushed(@, instr.val)]
             /\ wakes' = [wakes EXCEPT ![w] = PushWakes(chan[instr.ch])]
          \/ UNCHANGED <<chan, wakes>>
      BY <2>1 DEF ExecSend, ThenWake, waking, instr
    <3>2. parked' = parked
      BY <2>1 DEF ExecSend
    <3> QED
      BY <1>4, <1>5, <3>1, <3>2
  <2>2. CASE ParkSend(w)
    <3> HIDE DEF instr
    <3>1. \/ /\ chan' = [chan EXCEPT ![instr.ch] = Pushed(@, instr.val)] /\ parked' = parked
             /\ wakes' = [wakes EXCEPT ![w] = PushWakes(chan[instr.ch])]
          \/ UNCHANGED <<chan, parked, wakes>>
          \/ /\ cur[w] # None /\ chan' = [chan EXCEPT ![instr.ch] = ParkedSender(@, cur[w], instr.val)]
             /\ parked' = [parked EXCEPT ![w] = TRUE] /\ Go(w, "suspend") /\ wakes' = wakes
      BY <2>2 DEF ParkSend, ThenWake, waking, instr
    <3> QED
      BY <1>4, <1>5, <2>2, <3>1
  <2> QED
    BY <2>1, <2>2
<1>7. CASE /\ chan' = [chan EXCEPT ![k] = Pushed(@, v)] /\ parked' = parked
           /\ wakes' = [wakes EXCEPT ![w] = PushWakes(chan[k])]
  BY <1>1, <1>2, <1>7, SentMoves
<1>8. CASE chan' = chan /\ parked' = parked /\ wakes' = wakes
  BY <1>2, <1>8, NoneMoves
<1>9. CASE /\ ParkSend(w) /\ cur[w] # None /\ chan' = [chan EXCEPT ![k] = ParkedSender(@, cur[w], v)]
           /\ parked' = [parked EXCEPT ![w] = TRUE] /\ Go(w, "suspend") /\ wakes' = wakes
  BY <1>2, <1>9, ParkedSenderMoves
<1> QED
  BY <1>2, <1>6, <1>7, <1>8, <1>9

LEMMA RecvStill ==
    ASSUME StealInv, Apart(lists), NEW w \in Workers, Own(w), HandShape(w),
           ExecRecv(w) \/ ParkRecv(w)
    PROVE  StillLists /\ cur' = cur
<1> DEFINE instr == Current(Running(w))
<1>1. TypeOK /\ Transfer(w)
  BY DEF StealInv, Transfer
<1>2. /\ Running(w) \in Coros /\ UNCHANGED <<ready, localq, next, cur>>
      /\ wakes[w] = <<>> /\ (parked' = parked => SameHand(w))
  BY <1>1, TransferFacts
<1>3. instr.ch \in Channels
  <2>1. instr.op = "recv"
    BY DEF ExecRecv, ParkRecv, ParkRecvLooking, Executing
  <2> QED
    BY <1>1, <1>2, <2>1, CurrentType
<1>4. PICK k \in Channels : k = instr.ch
  BY <1>3
<1>6. \/ /\ chan' = [chan EXCEPT ![k] = Popped(@)] /\ parked' = parked
         /\ wakes' = [wakes EXCEPT ![w] = PopWakes(chan[k])]
      \/ chan' = chan /\ parked' = parked /\ wakes' = wakes
      \/ /\ ParkRecv(w) /\ cur[w] # None /\ chan' = [chan EXCEPT ![k] = ParkedReceiver(@, cur[w])]
         /\ parked' = [parked EXCEPT ![w] = TRUE]
  <2>1. CASE ExecRecv(w)
    <3> HIDE DEF instr
    <3>1. \/ /\ chan' = [chan EXCEPT ![instr.ch] = Popped(@)]
             /\ wakes' = [wakes EXCEPT ![w] = PopWakes(chan[instr.ch])]
          \/ UNCHANGED <<chan, wakes>>
      BY <2>1 DEF ExecRecv, ThenWake, waking, instr
    <3>2. parked' = parked
      BY <2>1 DEF ExecRecv
    <3> QED
      BY <1>4, <3>1, <3>2
  <2>2. CASE ParkRecv(w)
    <3> HIDE DEF instr
    <3>1. \/ UNCHANGED <<chan, parked, wakes>>
          \/ /\ cur[w] # None /\ chan' = [chan EXCEPT ![instr.ch] = ParkedReceiver(@, cur[w])]
             /\ parked' = [parked EXCEPT ![w] = TRUE]
      BY <2>2 DEF ParkRecv, ParkRecvLooking, waking, instr
    <3> QED
      BY <1>4, <2>2, <3>1
  <2> QED
    BY <2>1, <2>2
<1>7. CASE /\ chan' = [chan EXCEPT ![k] = Popped(@)] /\ parked' = parked
           /\ wakes' = [wakes EXCEPT ![w] = PopWakes(chan[k])]
  <2>1. CASE chan[k].swait = <<>>
    <3>1. PICK ch : ch = Popped(chan[k])
      OBVIOUS
    <3>2. ch.rwait = chan[k].rwait /\ ch.swait = chan[k].swait
      BY <1>1, <2>1, <3>1, ChannelParts DEF Popped, ChanType
    <3>3. PICK cs : cs = PopWakes(chan[k])
      OBVIOUS
    <3>4. cs = <<>>
      BY <2>1, <3>3 DEF PopWakes
    <3>5. chan' = [chan EXCEPT ![k] = ch] /\ wakes' = [wakes EXCEPT ![w] = cs]
      BY <1>7, <3>1, <3>3
    <3> QED
      BY <1>1, <1>2, <1>7, <3>2, <3>4, <3>5, OnlyBuffer, ZenonT(40)
  <2>2. CASE chan[k].swait # <<>>
    <3>1. chan' = [chan EXCEPT ![k] = Popped(chan[k])]
      BY <1>7
    <3> QED
      BY <1>1, <1>2, <1>7, <2>2, <3>1, PromotedMoves
  <2> QED
    BY <1>2, <2>1, <2>2
<1>8. CASE chan' = chan /\ parked' = parked /\ wakes' = wakes
  BY <1>2, <1>8, NoneMoves
<1>9. CASE /\ ParkRecv(w) /\ cur[w] # None /\ chan' = [chan EXCEPT ![k] = ParkedReceiver(@, cur[w])]
           /\ parked' = [parked EXCEPT ![w] = TRUE]
  <2>1. ParkRecv(w) /\ cur[w] # None
    BY <1>9
  <2>2. chan' = [chan EXCEPT ![k] = ParkedReceiver(@, cur[w])]
    BY <1>9
  <2>3. parked' = [parked EXCEPT ![w] = TRUE]
    BY <1>9
  <2>4. StillLists
    BY ONLY StealInv, Apart(lists), w \in Workers, k \in Channels, Own(w), HandShape(w),
            <2>1, <2>2, <2>3, ParkedReceiverMoves
  <2> QED
    BY <1>2, <2>4
<1> QED
  BY <1>2, <1>6, <1>7, <1>8, <1>9

\* A list cut in three: its head, what follows up to half, and the rest.
LEMMA SplitParts ==
    ASSUME NEW S, NEW s \in Seq(S), NEW half \in Nat \ {0}, half <= Len(s), Distinct(s)
    PROVE  \E t, u : /\ t = SubSeq(s, half + 1, Len(s)) /\ u = SubSeq(s, 2, half)
                     /\ Distinct(t) /\ Distinct(u)
                     /\ Listed(s, Head(s)) /\ ~Listed(t, Head(s)) /\ ~Listed(u, Head(s))
                     /\ \A d : ~(Listed(t, d) /\ Listed(u, d))
                     /\ \A d : Listed(s, d) <=> Listed(t, d) \/ Listed(u, d) \/ d = Head(s)
<1>t. PICK t : t = SubSeq(s, half + 1, Len(s))
  OBVIOUS
<1>u. PICK u : u = SubSeq(s, 2, half)
  OBVIOUS
<1>1. PICK n \in Nat : n = Len(s)
  OBVIOUS
<1>2. half <= n /\ n > 0 /\ DOMAIN s = 1..n /\ Head(s) = s[1] /\ \A i \in 1..n : s[i] \in S
  BY <1>1
<1>3. DOMAIN t = 1..(n - half) /\ \A i \in 1..(n - half) : t[i] = s[half + i]
  <2>1. half + 1 \in Int /\ n \in Int /\ \A i \in (half + 1)..n : s[i] \in S
    BY <1>2
  <2>2. /\ t \in Seq(S) /\ Len(t) = (IF half + 1 <= n THEN n - (half + 1) + 1 ELSE 0)
        /\ \A i \in 1..(n - (half + 1) + 1) : t[i] = s[half + 1 + i - 1]
    BY <1>1, <1>t, <2>1, SubSeqProperties
  <2>3. Len(t) = n - half
    BY <1>2, <2>2
  <2>4. DOMAIN t = 1..(n - half)
    BY <2>2, <2>3
  <2> QED
    BY <1>2, <2>2, <2>4
<1>4. DOMAIN u = 1..(half - 1) /\ \A i \in 1..(half - 1) : u[i] = s[i + 1]
  <2>1. 2 \in Int /\ half \in Int /\ \A i \in 2..half : s[i] \in S
    BY <1>2
  <2>2. /\ u \in Seq(S) /\ Len(u) = (IF 2 <= half THEN half - 2 + 1 ELSE 0)
        /\ \A i \in 1..(half - 2 + 1) : u[i] = s[2 + i - 1]
    BY <1>u, <2>1, SubSeqProperties
  <2>3. Len(u) = half - 1
    BY <2>2
  <2>4. DOMAIN u = 1..(half - 1)
    BY <2>2, <2>3
  <2> QED
    BY <2>2, <2>4
<1>5. \A i, j \in 1..n : s[i] = s[j] => i = j
  BY <1>2 DEF Distinct
<1>6. Distinct(t)
  <2>1. ASSUME NEW i \in 1..(n - half), NEW j \in 1..(n - half), t[i] = t[j] PROVE i = j
    <3>1. half + i \in 1..n /\ half + j \in 1..n /\ s[half + i] = s[half + j]
      BY <1>2, <1>3, <2>1
    <3>2. half + i = half + j
      BY <1>5, <3>1
    <3> QED
      BY <3>2
  <2> QED
    BY <1>3, <2>1 DEF Distinct
<1>7. Distinct(u)
  <2>1. ASSUME NEW i \in 1..(half - 1), NEW j \in 1..(half - 1), u[i] = u[j] PROVE i = j
    <3>1. i + 1 \in 1..n /\ j + 1 \in 1..n /\ s[i + 1] = s[j + 1]
      BY <1>2, <1>4, <2>1
    <3>2. i + 1 = j + 1
      BY <1>5, <3>1
    <3> QED
      BY <3>2
  <2> QED
    BY <1>4, <2>1 DEF Distinct
<1>8. 1 \in 1..n /\ Listed(s, Head(s))
  BY <1>2 DEF Listed
<1>9. ASSUME NEW i \in 1..(n - half) PROVE t[i] # s[1] /\ Listed(s, t[i])
  <2>1. half + i \in 1..n /\ half + i # 1 /\ t[i] = s[half + i]
    BY <1>2, <1>3
  <2> QED
    BY <1>2, <1>5, <1>8, <2>1 DEF Listed
<1>10. ASSUME NEW i \in 1..(half - 1) PROVE u[i] # s[1] /\ Listed(s, u[i])
  <2>1. i + 1 \in 1..n /\ i + 1 # 1 /\ u[i] = s[i + 1]
    BY <1>2, <1>4
  <2> QED
    BY <1>2, <1>5, <1>8, <2>1 DEF Listed
<1>11. ASSUME NEW i \in 1..(n - half), NEW j \in 1..(half - 1) PROVE t[i] # u[j]
  <2>1. half + i \in 1..n /\ j + 1 \in 1..n /\ half + i # j + 1
    BY <1>2
  <2>2. t[i] = s[half + i] /\ u[j] = s[j + 1]
    BY <1>3, <1>4
  <2> QED
    BY <1>5, <2>1, <2>2
<1>12. ASSUME NEW i \in 1..n PROVE s[i] = Head(s) \/ Listed(t, s[i]) \/ Listed(u, s[i])
  <2>1. CASE i = 1
    BY <1>2, <2>1
  <2>2. CASE i > half
    <3>1. i - half \in 1..(n - half) /\ half + (i - half) = i
      BY <2>2
    <3>2. t[i - half] = s[i]
      BY <1>3, <3>1
    <3> QED
      BY <1>3, <3>1, <3>2 DEF Listed
  <2>3. CASE i # 1 /\ ~(i > half)
    <3>1. i - 1 \in 1..(half - 1) /\ (i - 1) + 1 = i
      BY <2>3
    <3>2. u[i - 1] = s[i]
      BY <1>4, <3>1
    <3> QED
      BY <1>4, <3>1, <3>2 DEF Listed
  <2> QED
    BY <2>1, <2>2, <2>3
<1>13. ~Listed(t, Head(s)) /\ ~Listed(u, Head(s)) /\ \A d : ~(Listed(t, d) /\ Listed(u, d))
  <2>1. ~Listed(t, Head(s))
    BY <1>2, <1>3, <1>9 DEF Listed
  <2>2. ~Listed(u, Head(s))
    BY <1>2, <1>4, <1>10 DEF Listed
  <2>3. \A d : ~(Listed(t, d) /\ Listed(u, d))
    BY <1>3, <1>4, <1>11 DEF Listed
  <2> QED
    BY <2>1, <2>2, <2>3
<1>14. ASSUME NEW d PROVE Listed(s, d) <=> Listed(t, d) \/ Listed(u, d) \/ d = Head(s)
  <2>1. Listed(s, d) => Listed(t, d) \/ Listed(u, d) \/ d = Head(s)
    BY <1>2, <1>12 DEF Listed
  <2>2. Listed(t, d) => Listed(s, d)
    BY <1>3, <1>9 DEF Listed
  <2>3. Listed(u, d) => Listed(s, d)
    BY <1>4, <1>10 DEF Listed
  <2> QED
    BY <1>8, <2>1, <2>2, <2>3
<1> QED
  BY <1>t, <1>u, <1>6, <1>7, <1>8, <1>13, <1>14

\* One list is dealt out over itself and two empty ones.
LEMMA DealsApart ==
    ASSUME NEW L, NEW M, Apart(L), NEW a \in Places, NEW b \in Places, NEW h \in Places,
           a # b, a # h, b # h, NEW c,
           Distinct(M[a]), Distinct(M[b]), ~Listed(M[a], c), ~Listed(M[b], c),
           \A d : ~(Listed(M[a], d) /\ Listed(M[b], d)),
           \A d : Listed(L[a], d) <=> Listed(M[a], d) \/ Listed(M[b], d) \/ d = c,
           L[b] = <<>>, L[h] = <<>>, M[h] = <<c>>,
           \A p \in Places : p # a /\ p # b /\ p # h => M[p] = L[p]
    PROVE  Apart(M) /\ \A d : Somewhere(M, d) <=> Somewhere(L, d)
<1>1. \A d : ~Listed(L[b], d) /\ ~Listed(L[h], d)
  BY EmptyDistinct
<1>2. Distinct(M[h]) /\ \A d : Listed(M[h], d) <=> d = c
  BY SingleFacts
<1>3. \A p \in Places : Distinct(M[p])
  BY <1>2 DEF Apart
<1>4. ASSUME NEW p \in Places, NEW d, Listed(M[p], d)
      PROVE  \/ p \in {a, b, h} /\ Listed(L[a], d)
             \/ p \notin {a, b, h} /\ Listed(L[p], d)
  BY <1>2, <1>4
<1>5. ASSUME NEW p \in Places, NEW q \in Places, NEW d, Listed(M[p], d), Listed(M[q], d)
      PROVE  p = q
  <2>1. CASE p \in {a, b, h} /\ q \in {a, b, h}
    BY <1>2, <1>5, <2>1
  <2>2. CASE p \notin {a, b, h} /\ q \notin {a, b, h}
    <3>1. Listed(L[p], d) /\ Listed(L[q], d)
      BY <1>4, <1>5, <2>2
    <3> QED
      BY <3>1 DEF Apart
  <2>3. CASE p \in {a, b, h} /\ q \notin {a, b, h}
    <3>1. Listed(L[a], d) /\ Listed(L[q], d)
      BY <1>4, <1>5, <2>3
    <3> QED
      BY <2>3, <3>1 DEF Apart
  <2>4. CASE p \notin {a, b, h} /\ q \in {a, b, h}
    <3>1. Listed(L[a], d) /\ Listed(L[p], d)
      BY <1>4, <1>5, <2>4
    <3> QED
      BY <2>4, <3>1 DEF Apart
  <2> QED
    BY <2>1, <2>2, <2>3, <2>4
<1>6. ASSUME NEW d PROVE Somewhere(M, d) <=> Somewhere(L, d)
  <2>1. Somewhere(M, d) => Somewhere(L, d)
    BY <1>4 DEF Somewhere
  <2>2. ASSUME NEW p \in Places, Listed(L[p], d) PROVE Somewhere(M, d)
    <3>1. CASE p = a
      BY <1>2, <2>2, <3>1 DEF Somewhere
    <3>2. CASE p # a
      <4>1. M[p] = L[p]
        BY <1>1, <2>2, <3>2
      <4> QED
        BY <2>2, <4>1 DEF Somewhere
    <3> QED
      BY <3>1, <3>2
  <2> QED
    BY <2>1, <2>2 DEF Somewhere
<1> QED
  BY <1>3, <1>5, <1>6 DEF Apart

LEMMA StealMoves ==
    ASSUME Apart(lists), StealInv, NEW w \in Workers, HandShape(w), Own(w), StealMove(w)
    PROVE  StillLists /\ Somewhere(lists, cur'[w])
<1>1. /\ TypeOK /\ Victim(w) \in Workers /\ Victim(w) # w /\ localq[Victim(w)] # <<>>
      /\ pc[w] = "mine" /\ wid[w] /\ localq[w] = <<>>
  BY VictimType, ThiefIsNotVictim
     DEF StealInv, MineHoldsVictim, StealMove, At, SearchersEmpty
<1>2. PICK v \in Workers : v = Victim(w)
  BY <1>1
<1>3. PICK s \in Seq(Coros) : s = localq[v] /\ s # <<>>
  BY <1>1, <1>2 DEF TypeOK
<1>4. PICK half \in Nat \ {0} :
        /\ half <= Len(s)
        /\ localq' = [localq EXCEPT ![v] = SubSeq(@, half + 1, Len(@)),
                                    ![w] = @ \o SubSeq(localq[v], 2, half)]
  <2>1. PICK n \in Nat \ {0} : n = Len(s)
    BY <1>3
  <2>2. (n + 1) \div 2 \in Nat \ {0} /\ (n + 1) \div 2 <= n
    BY Z3
  <2> QED
    BY <1>2, <1>3, <2>1, <2>2 DEF StealMove
<1>5. PICK t : t = SubSeq(s, half + 1, Len(s))
  OBVIOUS
<1>6. PICK u : u = SubSeq(s, 2, half)
  OBVIOUS
<1>7. PICK c : c = Head(s)
  OBVIOUS
<1>8. /\ cur[w] = None /\ cur'[w] = c /\ c \in Coros /\ pc'[w] = "uncount"
      /\ UNCHANGED <<ready, wakes, next, chan>>
  <2>1. c \in Coros
    BY <1>3, <1>7, HeadTail
  <2> QED
    BY <1>1, <1>2, <1>3, <1>7, <2>1
       DEF StealMove, HandShape, IdlePcs, At, Go, TypeOK, waking
<1>9. /\ localq'[v] = t /\ localq'[w] = u
      /\ \A x \in Workers : x # v /\ x # w => localq'[x] = localq[x]
  <2>1. u \in Seq(Coros)
    BY <1>3, <1>4, <1>6, SubSeqType
  <2>2. <<>> \o u = u
    BY <2>1, ConcatEmptySeq
  <2> QED
    BY <1>1, <1>2, <1>3, <1>4, <1>5, <1>6, <2>2 DEF TypeOK
<1>10. PICK a : a = <<"local", v>>
  OBVIOUS
<1>11. PICK b : b = <<"local", w>>
  OBVIOUS
<1>12. PICK h : h = <<"held", w>>
  OBVIOUS
<1>13. a \in Places /\ b \in Places /\ h \in Places /\ a # b /\ a # h /\ b # h
  BY <1>1, <1>2, <1>10, <1>11, <1>12, PlaceTypes
<1>14. lists[a] = s /\ lists[b] = <<>> /\ lists'[a] = t /\ lists'[b] = u
  BY <1>1, <1>3, <1>9, <1>10, <1>11, ListIs, NextListIs
<1>15. lists[h] = <<>> /\ lists'[h] = <<c>>
  <2>1. ~Holds(w)
    BY <1>8 DEF Holds
  <2>2. Holds(w)'
    BY <1>8, NoneAssumption DEF Holds, Fetching
  <2>3. lists[h] = <<>>
    BY <1>12, <2>1, ListIs
  <2>4. lists'[h] = <<cur'[w]>>
    BY <1>12, <2>2, NextListIs
  <2> QED
    BY <1>8, <2>3, <2>4
<1>16. Distinct(s)
  BY <1>13, <1>14 DEF Apart
<1>17. /\ Distinct(t) /\ Distinct(u)
       /\ Listed(s, c) /\ ~Listed(t, c) /\ ~Listed(u, c)
       /\ \A d : ~(Listed(t, d) /\ Listed(u, d))
       /\ \A d : Listed(s, d) <=> Listed(t, d) \/ Listed(u, d) \/ d = c
  <2>1. half <= Len(s)
    BY <1>4
  <2>2. \E x, y : /\ x = SubSeq(s, half + 1, Len(s)) /\ y = SubSeq(s, 2, half)
                  /\ Distinct(x) /\ Distinct(y)
                  /\ Listed(s, Head(s)) /\ ~Listed(x, Head(s)) /\ ~Listed(y, Head(s))
                  /\ \A d : ~(Listed(x, d) /\ Listed(y, d))
                  /\ \A d : Listed(s, d) <=> Listed(x, d) \/ Listed(y, d) \/ d = Head(s)
    BY <2>1, <1>16, SplitParts
  <2> QED
    BY <1>5, <1>6, <1>7, <2>2
<1>18. \A p \in Places : p # a /\ p # b /\ p # h => lists'[p] = lists[p]
  <2>1. PICK E : E = {a, b, h}
    OBVIOUS
  <2>2. a \in E /\ b \in E /\ h \in E
    BY <2>1
  <2>3. \A x \in Workers : localq'[x] = localq[x] \/ <<"local", x>> \in E
    BY <1>9, <1>10, <1>11, <2>2
  <2>4. \A p \in Places : p \notin E => lists'[p] = lists[p]
    BY <1>8, <1>12, <2>2, <2>3, ElseSame
  <2> QED
    BY <2>1, <2>4
<1>19. PICK M : M = lists'
  OBVIOUS
<1>20. /\ Distinct(M[a]) /\ Distinct(M[b]) /\ ~Listed(M[a], c) /\ ~Listed(M[b], c)
       /\ \A d : ~(Listed(M[a], d) /\ Listed(M[b], d))
       /\ \A d : Listed(lists[a], d) <=> Listed(M[a], d) \/ Listed(M[b], d) \/ d = c
       /\ lists[b] = <<>> /\ lists[h] = <<>> /\ M[h] = <<c>>
  BY <1>14, <1>15, <1>17, <1>19
<1>21. \A p \in Places : p # a /\ p # b /\ p # h => M[p] = lists[p]
  BY <1>18, <1>19
<1>22. Apart(M) /\ \A d : Somewhere(M, d) <=> Somewhere(lists, d)
  BY ONLY Apart(lists), <1>13, <1>20, <1>21, DealsApart
<1>23. Somewhere(lists, c)
  BY <1>13, <1>14, <1>17 DEF Somewhere
<1> QED
  BY <1>8, <1>19, <1>22, <1>23 DEF StillLists

\* The coroutine that ended leaves, a registered one joins.
Left(c) == Apart(lists') /\ \A d : Somewhere(lists', d) <=> Somewhere(lists, d) /\ d # c
Joined(c) == Apart(lists') /\ \A d : Somewhere(lists', d) <=> Somewhere(lists, d) \/ d = c

LEMMA DoneLeaves ==
    ASSUME Apart(lists), StealInv, NEW w \in Workers, HandShape(w), Own(w), AfterDone(w)
    PROVE  Left(cur[w]) /\ cur'[w] = None
<1>1. TypeOK /\ ThreadShape(w)
  BY DEF StealInv
<1>2. /\ pc[w] = "after" /\ pc'[w] = "fin1" /\ cur[w] # None /\ cur'[w] = None
      /\ frame[cur[w]] = "final" /\ UNCHANGED <<ready, localq, next, wakes, chan>>
  BY <1>1 DEF AfterDone, Complete, Release, At, Go, ThreadShape, TypeOK, queues, waking
<1>3. Holds(w) /\ ~Holds(w)'
  BY <1>2 DEF HandShape, Holds, Fetching
<1>4. PICK a \in Places : a = <<"held", w>>
  BY PlaceTypes
<1>5. Loses(lists[a], lists'[a], cur[w])
  BY <1>3, <1>4, HandEmpties
<1>6. PICK E : E = {a}
  OBVIOUS
<1>7. \A p \in Places : p \notin E => lists'[p] = lists[p]
  <2>1. <<"held", w>> \in E
    BY <1>4, <1>6
  <2> QED
    BY <1>2, <2>1, ElseSame
<1>8. PICK M : M = lists'
  OBVIOUS
<1>9. PICK c : c = cur[w]
  OBVIOUS
<1>10. Loses(lists[a], M[a], c)
  BY <1>5, <1>8, <1>9
<1>11. \A p \in Places : p # a => M[p] = lists[p]
  BY <1>6, <1>7, <1>8
<1>12. Apart(M) /\ \A d : Somewhere(M, d) <=> Somewhere(lists, d) /\ d # c
  <2>1. PICK L : L = lists
    OBVIOUS
  <2>2. Apart(L)
    BY <2>1
  <2>3. Loses(L[a], M[a], c)
    BY <1>10, <2>1
  <2>4. \A p \in Places : p # a => M[p] = L[p]
    BY <1>11, <2>1
  <2>5. Apart(M) /\ \A d : Somewhere(M, d) <=> (Somewhere(L, d) /\ d # c)
    BY ONLY <2>2, a \in Places, <2>3, <2>4, LeavesApart
  <2> QED
    BY <2>1, <2>5
<1> QED
  BY <1>2, <1>8, <1>9, <1>12 DEF Left

\* One joins at b.
LEMMA OneJoins ==
    ASSUME Apart(lists), NEW w \in Workers, Own(w), NEW b \in Places, NEW c, ~Somewhere(lists, c),
           Gains(lists[b], lists'[b], c), NEW E, E = {b},
           ready' = ready \/ <<"ready", 0>> \in E, UNCHANGED <<localq, wakes, next>>, SameHand(w),
           \A k \in Channels : chan'[k].rwait = chan[k].rwait \/ <<"rwait", k>> \in E,
           \A k \in Channels : chan'[k].swait = chan[k].swait \/ <<"swait", k>> \in E
    PROVE  Joined(c)
<1>1. \A p \in Places : p \notin E => lists'[p] = lists[p]
  <2>1. ready' = ready \/ <<"ready", 0>> \in E
    OBVIOUS
  <2>2. /\ \A v \in Workers : localq'[v] = localq[v] \/ <<"local", v>> \in E
        /\ wakes'[w] = wakes[w] \/ <<"wakes", w>> \in E
        /\ next'[w] = next[w] \/ <<"next", w>> \in E
        /\ SameHand(w) \/ <<"held", w>> \in E
    OBVIOUS
  <2> QED
    BY <2>1, <2>2, ElseSame
<1>2. PICK M : M = lists'
  OBVIOUS
<1>3. Gains(lists[b], M[b], c)
  BY <1>2
<1>4. \A p \in Places : p # b => M[p] = lists[p]
  BY <1>1, <1>2
<1>5. Apart(M) /\ \A d : Somewhere(M, d) <=> Somewhere(lists, d) \/ d = c
  BY ONLY Apart(lists), b \in Places, ~Somewhere(lists, c), <1>3, <1>4, JoinsApart
<1> QED
  BY <1>2, <1>5 DEF Joined

LEMMA ReadyJoins ==
    ASSUME Apart(lists), StealInv, NEW w \in Workers, Own(w), SpawnedReady(w),
           NEW c \in Coros, c = Running(w), ~Somewhere(lists, c)
    PROVE  Joined(c) /\ cur' = cur
<1>1. TypeOK /\ ready \in Seq(Coros)
  BY DEF StealInv, TypeOK
<1>2. /\ ready' = Append(ready, c) /\ UNCHANGED <<localq, wakes, next, chan, cur, parked>>
      /\ pc[w] = "spawned" /\ pc'[w] = "spawnedQ"
  BY <1>1 DEF SpawnedReady, PushReady, At, Go, TypeOK, waking
<1>3. SameHand(w)
  BY <1>2 DEF SameHand, Holds, Fetching
<1>4. PICK b \in Places : b = <<"ready", 0>>
  BY PlaceTypes
<1>5. Gains(lists[b], lists'[b], c)
  <2>1. lists[b] = ready /\ lists'[b] = Append(ready, c)
    BY <1>2, <1>4, ListIs, NextListIs
  <2>2. Distinct(ready) /\ ~Listed(ready, c)
    BY <2>1 DEF Apart, Somewhere
  <2> QED
    BY <1>1, <2>1, <2>2, AppendGains
<1>6. PICK E : E = {b}
  OBVIOUS
<1>7. <<"ready", 0>> \in E
  BY <1>4, <1>6
<1>8. \A k \in Channels : /\ chan'[k].rwait = chan[k].rwait \/ <<"rwait", k>> \in E
                          /\ chan'[k].swait = chan[k].swait \/ <<"swait", k>> \in E
  BY <1>2
<1>9. Joined(c)
  BY <1>2, <1>3, <1>5, <1>6, <1>7, <1>8, OneJoins
<1> QED
  BY <1>2, <1>9

LEMMA ParkedJoins ==
    ASSUME Apart(lists), ChanInv, NEW w \in Workers, Own(w), SpawnedParked(w),
           NEW c \in Coros, c = Running(w), ~Somewhere(lists, c)
    PROVE  Joined(c) /\ cur' = cur
<1>1. TypeOK /\ IntentWaits
  BY DEF ChanInv, StealInv
<1> DEFINE i == intent[w]
<1>2. /\ UNCHANGED <<ready, localq, wakes, next, cur, parked>>
      /\ i # NoIntent
      /\ chan' = [chan EXCEPT ![i.ch] = IF i.kind = "recv" THEN ParkedReceiver(@, c)
                                        ELSE ParkedSender(@, c, i.val)]
  BY DEF SpawnedParked, SpawnedParkedLive, waking, queues, SpawnReturn
<1>3. SameHand(w)
  <2>1. w = 0 /\ cur[w] = None
    BY <1>1, <1>2 DEF IntentWaits
  <2> QED
    BY <1>2, <2>1 DEF SameHand, Holds
<1>4. i.ch \in Channels /\ (i.kind # "recv" => i.val \in Values)
  BY <1>1, <1>2 DEF TypeOK, Intents
<1>5. PICK k \in Channels : k = i.ch
  BY <1>4
<1>6. CASE i.kind = "recv"
  <2>1. chan' = [chan EXCEPT ![k] = ParkedReceiver(chan[k], c)]
    BY <1>2, <1>5, <1>6
  <2>2. /\ chan'[k] = ParkedReceiver(chan[k], c)
        /\ \A h \in Channels : h # k => chan'[h] = chan[h]
    BY <1>1, <2>1, ChannelBecomes
  <2>3. PICK s \in Seq(Coros) : s = chan[k].rwait
    BY <1>1, ChannelParts
  <2>4. chan'[k].rwait = Append(s, c) /\ chan'[k].swait = chan[k].swait
    BY <1>1, <2>2, <2>3, ChannelParts DEF ParkedReceiver, ChanType
  <2>5. PICK b \in Places : b = <<"rwait", k>>
    BY PlaceTypes
  <2>6. Gains(lists[b], lists'[b], c)
    <3>1. lists[b] = s /\ lists'[b] = Append(s, c)
      BY <2>3, <2>4, <2>5, ListIs, NextListIs
    <3>2. Distinct(s) /\ ~Listed(s, c)
      BY <3>1 DEF Apart, Somewhere
    <3> QED
      BY <3>1, <3>2, AppendGains
  <2>7. PICK E : E = {b}
    OBVIOUS
  <2>8. <<"rwait", k>> \in E
    BY <2>5, <2>7
  <2>9. \A h \in Channels : /\ chan'[h].rwait = chan[h].rwait \/ <<"rwait", h>> \in E
                            /\ chan'[h].swait = chan[h].swait \/ <<"swait", h>> \in E
    BY <2>2, <2>4, <2>8
  <2>10. Joined(c)
    BY <1>2, <1>3, <2>6, <2>7, <2>9, OneJoins
  <2> QED
    BY <1>2, <2>10
<1>7. CASE i.kind # "recv"
  <2>0. PICK v \in Values : v = i.val
    BY <1>4, <1>7
  <2>1. chan' = [chan EXCEPT ![k] = ParkedSender(chan[k], c, v)]
    BY <1>2, <1>5, <1>7, <2>0
  <2>2. /\ chan'[k] = ParkedSender(chan[k], c, v)
        /\ \A h \in Channels : h # k => chan'[h] = chan[h]
    BY <1>1, <2>1, ChannelBecomes
  <2>3. PICK s \in Seq(Parcel) : s = chan[k].swait
    BY <1>1, ChannelParts
  <2>4. chan'[k].swait = Append(s, [co |-> c, val |-> v]) /\ chan'[k].rwait = chan[k].rwait
    BY <1>1, <2>2, <2>3, ChannelParts DEF ParkedSender, ChanType
  <2>5. PICK b \in Places : b = <<"swait", k>>
    BY PlaceTypes
  <2>6. Gains(lists[b], lists'[b], c)
    <3>1. lists[b] = SendersOf(s) /\ lists'[b] = Append(SendersOf(s), c)
      <4>1. lists[b] = SendersOf(s)
        BY <2>3, <2>5, ListIs
      <4>2. lists'[b] = SendersOf(chan'[k].swait)
        BY <2>5, NextListIs
      <4>3. SendersOf(Append(s, [co |-> c, val |-> v])) = Append(SendersOf(s), c)
        BY SendersOfAppend
      <4> QED
        BY <2>4, <4>1, <4>2, <4>3
    <3>2. Distinct(SendersOf(s)) /\ ~Listed(SendersOf(s), c)
      BY <3>1 DEF Apart, Somewhere
    <3>3. SendersOf(s) \in Seq(Coros)
      BY SendersOfType
    <3> QED
      BY <3>1, <3>2, <3>3, AppendGains
  <2>7. PICK E : E = {b}
    OBVIOUS
  <2>8. <<"swait", k>> \in E
    BY <2>5, <2>7
  <2>9. \A h \in Channels : /\ chan'[h].rwait = chan[h].rwait \/ <<"rwait", h>> \in E
                            /\ chan'[h].swait = chan[h].swait \/ <<"swait", h>> \in E
    BY <2>2, <2>4, <2>8
  <2>10. Joined(c)
    BY <1>2, <1>3, <2>6, <2>7, <2>9, OneJoins
  <2> QED
    BY <1>2, <2>10
<1> QED
  BY <1>6, <1>7

\* A step that changes no list, and one that empties some NEXT slots.
LEMMA ListsKept ==
    ASSUME UNCHANGED <<ready, localq, wakes, chan>>,
           \A v \in Workers : Holds(v)' <=> Holds(v),
           \A v \in Workers : Holds(v) => cur'[v] = cur[v],
           \A v \in Workers : next'[v] = next[v] \/ next'[v] = None
    PROVE  \A p \in Places :
              lists'[p] = lists[p] \/ (lists'[p] = <<>> /\ \E v \in Workers : next'[v] # next[v])
<1> SUFFICES ASSUME NEW p \in Places
             PROVE  lists'[p] = lists[p]
                    \/ (lists'[p] = <<>> /\ \E v \in Workers : next'[v] # next[v])
  OBVIOUS
<1>1. CASE p = <<"ready", 0>>
  BY <1>1, ListIs, NextListIs
<1>2. ASSUME NEW v \in Workers, p = <<"local", v>> PROVE lists'[p] = lists[p]
  BY <1>2, ListIs, NextListIs
<1>3. ASSUME NEW v \in Workers, p = <<"wakes", v>> PROVE lists'[p] = lists[p]
  BY <1>3, ListIs, NextListIs
<1>4. ASSUME NEW v \in Workers, p = <<"next", v>>
      PROVE  lists'[p] = lists[p] \/ (lists'[p] = <<>> /\ next'[v] # next[v])
  <2>2. lists[p] = IF next[v] = None THEN <<>> ELSE <<next[v]>>
    BY <1>4, ListIs
  <2>3. lists'[p] = IF next'[v] = None THEN <<>> ELSE <<next'[v]>>
    BY <1>4, NextListIs
  <2> QED
    BY <2>2, <2>3
<1>5. ASSUME NEW v \in Workers, p = <<"held", v>> PROVE lists'[p] = lists[p]
  <2>1. (Holds(v)' <=> Holds(v)) /\ (Holds(v) => cur'[v] = cur[v])
    OBVIOUS
  <2>2. lists[p] = IF Holds(v) THEN <<cur[v]>> ELSE <<>>
    BY <1>5, ListIs
  <2>3. lists'[p] = IF Holds(v)' THEN <<cur'[v]>> ELSE <<>>
    BY <1>5, NextListIs
  <2> QED
    BY <2>1, <2>2, <2>3
<1>6. ASSUME NEW k \in Channels, p = <<"rwait", k>> PROVE lists'[p] = lists[p]
  BY <1>6, ListIs, NextListIs
<1>7. ASSUME NEW k \in Channels, p = <<"swait", k>> PROVE lists'[p] = lists[p]
  BY <1>7, ListIs, NextListIs
<1> QED
  BY <1>1, <1>2, <1>3, <1>4, <1>5, <1>6, <1>7, PlaceCases

\* Time passes, or nothing happens.
LEMMA StillAll ==
    ASSUME Apart(lists), RampInv,
           UNCHANGED <<ready, localq, wakes, chan, next, cur, parked, pc, frame, done, stack>>
    PROVE  StillLists /\ StillAlive /\ RampInv' /\ (CursAlive => CursAlive')
<1>1. \A v \in Workers : Holds(v)' <=> Holds(v)
  BY DEF Holds
<1>2. \A p \in Places : lists'[p] = lists[p]
  BY <1>1, ListsKept
<1>3. StillLists
  BY <1>2, SameApart DEF StillLists
<1>4. \A w \in Workers : \A i : RampAt(w, i)' <=> RampAt(w, i)
  BY DEF RampAt, At
<1>5. \A c : InRamp(c)' <=> InRamp(c)
  BY <1>4 DEF InRamp
<1>6. StillAlive
  BY <1>5 DEF StillAlive, Alive
<1>7. RampInv'
  BY <1>4 DEF RampInv, RampsApart, RampsBegun, DoneIsDestroyed
<1>8. CursAlive => CursAlive'
  BY <1>5 DEF CursAlive, Alive
<1> QED
  BY <1>3, <1>6, <1>7, <1>8

\* run_all's beginning and its end.
LEMMA StillWorkers ==
    ASSUME Apart(lists), ChanInv, ShapeInv, RampInv, Regular(prog), MainRun \/ MainJoin
    PROVE  /\ Apart(lists') /\ \A c : Somewhere(lists', c) => Somewhere(lists, c)
           /\ MainRun => StillLists
           /\ StillAlive /\ RampInv' /\ CursAlive'
<1>1. /\ \A w \in Workers : stack[w] = <<>> /\ cur[w] = None /\ wakes[w] = <<>>
      /\ UNCHANGED <<stack, cur, frame, done, wakes>>
  BY WorkersShape
<1>2. \A w \in Workers : ~Holds(w) /\ ~Holds(w)'
  BY <1>1 DEF Holds
<1>3. /\ UNCHANGED <<ready, localq, chan>> /\ \A v \in Workers : next'[v] = next[v] \/ next'[v] = None
      /\ MainRun => next' = next
  <2>1. TypeOK
    BY DEF ChanInv, StealInv
  <2> QED
    BY <2>1 DEF MainRun, MainJoin, queues, TypeOK
<1>4. \A p \in Places :
         lists'[p] = lists[p] \/ (lists'[p] = <<>> /\ \E v \in Workers : next'[v] # next[v])
  BY <1>1, <1>2, <1>3, ListsKept
<1>5. Apart(lists') /\ \A c : Somewhere(lists', c) => Somewhere(lists, c)
  <2>1. PICK M : M = lists'
    OBVIOUS
  <2>2. \A p \in Places : M[p] = lists[p] \/ M[p] = <<>>
    BY <1>4, <2>1
  <2>3. Apart(M) /\ \A d : Somewhere(M, d) => Somewhere(lists, d)
    BY <2>2, DropsApart
  <2> QED
    BY <2>1, <2>3
<1>6. MainRun => StillLists
  <2> SUFFICES ASSUME MainRun PROVE StillLists
    OBVIOUS
  <2>1. \A p \in Places : lists'[p] = lists[p]
    BY <1>3, <1>4
  <2> QED
    BY <2>1, SameApart DEF StillLists
<1>7. \A w \in Workers : \A i : ~RampAt(w, i) /\ ~RampAt(w, i)'
  BY <1>1, EmptyDomain DEF RampAt
<1>8. \A c : ~InRamp(c) /\ ~InRamp(c)'
  BY <1>7 DEF InRamp, RampAt
<1>9. StillAlive
  BY <1>1, <1>8 DEF StillAlive, Alive
<1>10. RampInv'
  BY <1>1, <1>7 DEF RampInv, RampsApart, RampsBegun, DoneIsDestroyed
<1>11. CursAlive'
  BY <1>1 DEF CursAlive
<1> QED
  BY <1>5, <1>6, <1>9, <1>10, <1>11

-----------------------------------------------------------------------------
(* The steps of one thread that neither begin nor end a coroutine.           *)
Steady(w) ==
    /\ StillAlive /\ RampInv' /\ StillLists
    /\ cur'[w] = cur[w] \/ cur'[w] = None \/ Somewhere(lists, cur'[w])

\* What is known before a step.
Settled ==
    /\ ChanInv /\ Regular(prog) /\ ShapeInv
    /\ Apart(lists) /\ RampInv /\ CursAlive

LEMMA SteadyPick ==
    ASSUME Settled, NEW w \in Workers, Own(w), Pick(w)
    PROVE  Steady(w)
<1>1. StealInv /\ TypeOK /\ HandShape(w) /\ Apart(lists) /\ RampInv
  BY DEF Settled, ChanInv, StealInv, ShapeInv
<1>2. StillAlive /\ RampInv'
  BY <1>1, OutsideKept, AliveOutside
<1>3. CASE PickNext(w)
  BY <1>1, <1>2, <1>3, PickNextMoves DEF Steady
<1>4. CASE PickLocal(w)
  BY <1>1, <1>2, <1>4, PickLocalMoves DEF Steady
<1>5. CASE ScanTake(w)
  BY <1>1, <1>2, <1>5, ScanTakeMoves DEF Steady
<1>6. CASE StealMove(w)
  BY <1>1, <1>2, <1>6, StealMoves DEF Steady
<1>7. CASE \/ HandoffTaken(w) \/ PickGlobal(w) \/ Uncount(w) \/ Count(w) \/ ScanMiss(w)
           \/ StealSkip(w) \/ StealLock(w) \/ StealMiss(w)
  <2>1. StillLists
    BY <1>1, <1>7, StillPick
  <2>2. cur' = cur
    BY <1>7 DEF HandoffTaken, PickGlobal, Uncount, Count, ScanMiss, StealSkip, StealLock, StealMiss,
                locals
  <2> QED
    BY <1>2, <2>1, <2>2 DEF Steady
<1> QED
  BY <1>3, <1>4, <1>5, <1>6, <1>7 DEF Pick

LEMMA SteadyIdle ==
    ASSUME Settled, NEW w \in Workers, Own(w), Idle(w) \/ (w = 0 /\ (MainAwait \/ MainEnd))
    PROVE  Steady(w)
<1>1. StealInv /\ HandShape(w) /\ Apart(lists) /\ RampInv
  BY DEF Settled, ChanInv, ShapeInv
<1>2. StillAlive /\ RampInv'
  BY <1>1, OutsideKept, AliveOutside
<1>3. StillLists
  BY <1>1, StillIdle
<1>4. cur' = cur
  BY DEF Idle, LoopTop, SyncTop, TimerSleep, SyncNone, IdleLock, CheckLive, CheckRunning,
         CheckHandoff, IdleWait, MainAwait, MainEnd, locals
<1> QED
  BY <1>2, <1>3, <1>4 DEF Steady

LEMMA SteadyExec ==
    ASSUME Settled, TypeOK', NEW w \in Workers, Own(w), Exec(w) \/ (w = 0 /\ MainSpawn)
    PROVE  Steady(w)
<1>1. ChanInv /\ StealInv /\ TypeOK /\ HandShape(w) /\ Apart(lists) /\ RampInv /\ Regular(prog)
  BY DEF Settled, ChanInv, StealInv, ShapeInv
<1>2. CASE \/ ExecYield(w) \/ ExecAwait(w) \/ ExecReturn(w) \/ ExecSend(w) \/ ParkSend(w)
           \/ ExecRecv(w) \/ ParkRecv(w) \/ WakeNext(w) \/ WakeLocal(w) \/ WakeGlobal(w)
           \/ WokenCount(w)
  <2>1. StillAlive /\ RampInv' /\ cur' = cur
    BY <1>1, <1>2, AliveInside
  <2>2. StillLists
    <3>1. CASE ExecYield(w) \/ ExecAwait(w) \/ ExecReturn(w) \/ WokenCount(w)
      BY <1>1, <3>1, StillBody
    <3>2. CASE ExecSend(w) \/ ParkSend(w)
      BY <1>1, <3>2, SendStill
    <3>3. CASE ExecRecv(w) \/ ParkRecv(w)
      BY <1>1, <3>3, RecvStill
    <3>4. CASE WakeNext(w) \/ WakeLocal(w) \/ WakeGlobal(w)
      BY <1>1, <3>4, WakeNextMoves, WakeLocalMoves, WakeGlobalMoves
    <3> QED
      BY <1>2, <3>1, <3>2, <3>3, <3>4
  <2> QED
    BY <2>1, <2>2 DEF Steady
<1>3. CASE ExecSpawn(w) \/ (w = 0 /\ MainSpawn)
  <2>1. PICK c \in Coros : StartRamp(w, c)
    <3>1. CASE ExecSpawn(w)
      <4>1. Running(w) \in Coros /\ Current(Running(w)).op = "spawn"
        BY <1>1, <3>1, TopTouched DEF ExecSpawn, Executing, At, OnTop
      <4> QED
        BY <1>1, <3>1, <4>1, CurrentType DEF ExecSpawn
    <3>2. CASE w = 0 /\ MainSpawn
      <4>1. mainIp \in DOMAIN prog.main /\ prog.main \in Seq(MainCall)
        <5>1. prog.main \in Seq(MainCall) /\ mainIp \in Nat \ {0} /\ mainIp <= Len(prog.main)
          BY <1>1, <3>2, ProgramsAssumption DEF TypeOK, MainSpawn, MainCalls
        <5> QED
          BY <5>1
      <4>2. prog.main[mainIp] \in MainCall /\ prog.main[mainIp].op = "spawn"
        BY <3>2, <4>1 DEF MainSpawn, MainCalls
      <4>3. prog.main[mainIp].co \in Coros
        BY <4>2 DEF MainCall
      <4> QED
        BY <3>2, <4>3 DEF MainSpawn
    <3> QED
      BY <1>3, <3>1, <3>2
  <2>2. pc[w] = "exec" \/ (pc[w] = "main" /\ cur[w] = None)
    BY <1>1, <1>3 DEF ExecSpawn, Executing, MainSpawn, MainCalls, At, HandShape, IdlePcs
  <2>3. StillAlive /\ RampInv'
    BY <1>1, <2>1, <2>2, AliveStart
  <2>4. StillLists
    BY <1>1, <1>3, StillBody
  <2>5. cur' = cur
    BY <2>1 DEF StartRamp
  <2> QED
    BY <2>3, <2>4, <2>5 DEF Steady
<1> QED
  BY <1>1, <1>2, <1>3, NoCancel DEF Exec

LEMMA SteadyRunOne ==
    ASSUME Settled, NEW w \in Workers, Own(w),
           RunOne(w), ~AfterDone(w), ~SpawnedReady(w), ~SpawnedParked(w)
    PROVE  Steady(w)
<1>1. /\ ChanInv /\ StealInv /\ TypeOK /\ HandShape(w) /\ Apart(lists) /\ RampInv /\ CursAlive
  BY DEF Settled, ChanInv, StealInv, ShapeInv
<1>2. CASE AfterRequeue(w)
  BY <1>1, <1>2, OutsideKept, AliveOutside, RequeueMoves DEF Steady
<1>3. CASE \/ Resume(w) \/ ResumeUndefined(w) \/ Suspend(w) \/ Fin1(w) \/ Fin2(w)
           \/ AfterParked(w) \/ RequeuedCount(w) \/ RequeuedStop(w) \/ SpawnedDone(w)
           \/ SpawnedCount(w)
  <2>1. StillLists
    BY <1>1, <1>3, StillRunOne
  <2>2. StillAlive /\ RampInv'
    <3>1. CASE Resume(w)
      BY <1>1, <3>1, AliveResume
    <3>2. CASE Suspend(w)
      BY <1>1, <3>2, AliveSuspend
    <3>3. CASE SpawnedDone(w)
      BY <1>1, <3>3, AliveSpawnedDone
    <3>4. CASE SpawnedCount(w)
      BY <1>1, <3>4, AliveCounted
    <3>5. CASE \/ ResumeUndefined(w) \/ Fin1(w) \/ Fin2(w) \/ AfterParked(w) \/ RequeuedCount(w)
               \/ RequeuedStop(w)
      BY <1>1, <3>5, OutsideKept, AliveOutside
    <3> QED
      BY <1>3, <3>1, <3>2, <3>3, <3>4, <3>5
  <2>3. cur'[w] = cur[w] \/ cur'[w] = None
    BY <1>1, <1>3 DEF Resume, ResumeUndefined, Suspend, Fin1, Fin2, AfterParked, RequeuedCount,
          RequeuedStop, SpawnedDone, SpawnedCount, Release, SpawnReturn, locals, TypeOK
  <2> QED
    BY <2>1, <2>2, <2>3 DEF Steady
<1> QED
  BY <1>2, <1>3 DEF RunOne

\* The places hold coroutines that are alive, each once, and all of them
\* unless a dead-lock was announced.
Placed ==
    /\ Apart(lists) /\ RampInv /\ CursAlive
    /\ \A c : Somewhere(lists, c) => c \in Coros /\ Alive(c)
    /\ ~deadlock => \A c \in Coros : Alive(c) => Somewhere(lists, c)

\* run_all ends by itself only when nothing is left alive.
Finished == wid[0] /\ shutdown /\ ~deadlock => \A c \in Coros : ~Alive(c)

LEMMA SteadyPlaced ==
    ASSUME Placed, TypeOK, NEW w \in Workers, Own(w), Steady(w)
    PROVE  Placed'
<1>1. Apart(lists') /\ \A c : Somewhere(lists', c) <=> Somewhere(lists, c)
  BY DEF Steady, StillLists
<1>2. \A c \in Coros : Alive(c)' <=> Alive(c)
  BY DEF Steady, StillAlive
<1>3. \A c : Somewhere(lists, c) => c \in Coros /\ Alive(c)
  BY DEF Placed
<1>4. CursAlive'
  <2> SUFFICES ASSUME NEW v \in Workers, cur'[v] # None PROVE Alive(cur[v])'
    BY DEF CursAlive
  <2>1. cur'[v] \in Coros /\ Alive(cur'[v])
    <3>1. cur'[v] = cur[v] \/ Somewhere(lists, cur'[v])
      BY DEF Own, Steady
    <3>2. cur[v] # None => cur[v] \in Coros /\ Alive(cur[v])
      BY DEF Placed, CursAlive, TypeOK
    <3> QED
      BY <1>3, <3>1, <3>2
  <2>2. PICK c \in Coros : c = cur'[v]
    BY <2>1
  <2>3. Alive(c)'
    BY <1>2, <2>1, <2>2
  <2> QED
    BY <2>2, <2>3 DEF Alive, InRamp
<1>5. RampInv'
  BY DEF Steady
<1>6. ~deadlock' => ~deadlock
  BY DEF Own
<1>7. \A c : Somewhere(lists', c) => c \in Coros /\ Alive(c)'
  BY <1>1, <1>2, <1>3
<1>8. ~deadlock' => \A c \in Coros : Alive(c)' => Somewhere(lists', c)
  BY <1>1, <1>2, <1>6 DEF Placed
<1> QED
  BY <1>1, <1>4, <1>5, <1>7, <1>8 DEF Placed

LEMMA BornPlaced ==
    ASSUME Placed, ChanInv, NEW w \in Workers, Own(w), SpawnedReady(w) \/ SpawnedParked(w)
    PROVE  /\ Placed'
           /\ Running(w) \in Coros /\ ~Alive(Running(w))
           /\ \A c \in Coros : Alive(c)' <=> Alive(c) \/ c = Running(w)
<1>1. StealInv /\ TypeOK /\ RampInv /\ Apart(lists)
  BY DEF Placed, ChanInv, StealInv
<1>2. PICK x : x = Running(w)
  OBVIOUS
<1>3. /\ x \in Coros /\ ~Alive(x) /\ RampInv'
      /\ \A c \in Coros : Alive(c)' <=> Alive(c) \/ c = x
  BY <1>1, <1>2, AliveSpawned
<1>4. ~Somewhere(lists, x)
  BY <1>3 DEF Placed
<1>5. Joined(x) /\ cur' = cur
  BY <1>1, <1>2, <1>3, <1>4, ReadyJoins, ParkedJoins
<1>6. Apart(lists') /\ \A c : Somewhere(lists', c) <=> Somewhere(lists, c) \/ c = x
  BY <1>5 DEF Joined
<1>7. CursAlive'
  <2> SUFFICES ASSUME NEW v \in Workers, cur'[v] # None PROVE Alive(cur[v])'
    BY DEF CursAlive
  <2>1. PICK c \in Coros : c = cur[v] /\ Alive(c)
    BY <1>1, <1>5 DEF Placed, CursAlive, TypeOK
  <2>2. Alive(c)'
    BY <1>3, <2>1
  <2> QED
    BY <1>5, <2>1, <2>2 DEF Alive, InRamp
<1>8. ~deadlock' => ~deadlock
  BY DEF Own
<1>9. \A c : Somewhere(lists', c) => c \in Coros /\ Alive(c)'
  BY <1>3, <1>6 DEF Placed
<1>10. ~deadlock' => \A c \in Coros : Alive(c)' => Somewhere(lists', c)
  BY <1>3, <1>6, <1>8 DEF Placed
<1>11. Placed'
  BY <1>3, <1>6, <1>7, <1>9, <1>10 DEF Placed
<1> QED
  BY <1>2, <1>3, <1>11

LEMMA GonePlaced ==
    ASSUME Placed, ChanInv, \A v \in Workers : HandShape(v), NEW w \in Workers, Own(w), AfterDone(w)
    PROVE  /\ Placed'
           /\ cur[w] \in Coros /\ Alive(cur[w])
           /\ \A c \in Coros : Alive(c)' <=> Alive(c) /\ c # cur[w]
<1>1. StealInv /\ TypeOK /\ RampInv /\ Apart(lists) /\ CursAlive
  BY DEF Placed, ChanInv, StealInv
<1>2. PICK x : x = cur[w]
  OBVIOUS
<1>3. /\ x \in Coros /\ Alive(x) /\ frame[x] = "final" /\ RampInv'
      /\ \A c \in Coros : Alive(c)' <=> Alive(c) /\ c # x
  BY <1>1, <1>2, AliveDone
<1>4. Left(x) /\ cur'[w] = None
  BY <1>1, <1>2, DoneLeaves
<1>5. Apart(lists') /\ \A c : Somewhere(lists', c) <=> Somewhere(lists, c) /\ c # x
  BY <1>4 DEF Left
<1>6. Holds(w)
  BY <1>2, <1>3, NoneAssumption DEF Holds, HandShape, AfterDone, At, Fetching
<1>7. ASSUME NEW v \in Workers, v # w PROVE cur[v] # x
  <2> SUFFICES ASSUME cur[v] = x PROVE FALSE
    OBVIOUS
  <2>1. Holds(v)
    <3>1. HandShape(v) /\ cur[v] # None
      BY <1>3, NoneAssumption
    <3> QED
      BY <1>3, <3>1 DEF Holds, HandShape, Fetching
  <2>2. PICK a \in Places : a = <<"held", v>>
    BY PlaceTypes
  <2>3. PICK b \in Places : b = <<"held", w>>
    BY PlaceTypes
  <2>4. lists[a] = <<x>>
    BY <2>1, <2>2, ListIs
  <2>5. lists[b] = <<x>>
    BY <1>2, <1>6, <2>3, ListIs
  <2>6. Listed(lists[a], x) /\ Listed(lists[b], x)
    BY <2>4, <2>5, SingleFacts
  <2>7. a = b
    BY <1>1, <2>6 DEF Apart
  <2> QED
    BY <1>7, <2>2, <2>3, <2>7
<1>8. CursAlive'
  <2> SUFFICES ASSUME NEW v \in Workers, cur'[v] # None PROVE Alive(cur[v])'
    BY DEF CursAlive
  <2>1. v # w /\ cur'[v] = cur[v]
    BY <1>4 DEF Own
  <2>2. PICK c \in Coros : c = cur[v] /\ Alive(c) /\ c # x
    BY <1>1, <1>7, <2>1 DEF CursAlive, TypeOK
  <2>3. Alive(c)'
    BY <1>3, <2>2
  <2> QED
    BY <2>1, <2>2, <2>3 DEF Alive, InRamp
<1>9. ~deadlock' => ~deadlock
  BY DEF Own
<1>10. \A c : Somewhere(lists', c) => c \in Coros /\ Alive(c)'
  BY <1>3, <1>5 DEF Placed
<1>11. ~deadlock' => \A c \in Coros : Alive(c)' => Somewhere(lists', c)
  BY <1>3, <1>5, <1>9 DEF Placed
<1>12. Placed'
  BY <1>3, <1>5, <1>8, <1>10, <1>11 DEF Placed
<1> QED
  BY <1>2, <1>3, <1>12

LEMMA WorkersPlaced ==
    ASSUME Placed, Finished, ChanInv, ShapeInv, Regular(prog), MainRun \/ MainJoin
    PROVE  Placed'
<1>1. /\ Apart(lists') /\ \A c : Somewhere(lists', c) => Somewhere(lists, c)
      /\ MainRun => StillLists
      /\ StillAlive /\ RampInv' /\ CursAlive'
  BY StillWorkers DEF Placed
<1>2. ~deadlock' => ~deadlock
  BY WorkersShape
<1>3. MainJoin /\ ~deadlock => \A c \in Coros : ~Alive(c)
  BY ZeroIsWorker DEF ShapeInv, RunOnly, HandShape, MainJoin, At, RunPcs, Finished
<1>4. \A c : Somewhere(lists', c) => c \in Coros /\ Alive(c)'
  BY <1>1 DEF Placed, StillAlive
<1>5. ~deadlock' => \A c \in Coros : Alive(c)' => Somewhere(lists', c)
  BY <1>1, <1>2, <1>3 DEF Placed, StillAlive, StillLists
<1> QED
  BY <1>1, <1>4, <1>5 DEF Placed

LEMMA StillPlaced ==
    ASSUME Placed,
           UNCHANGED <<ready, localq, wakes, chan, next, cur, parked, pc, frame, done, stack,
                       deadlock>>
    PROVE  Placed' /\ StillAlive
<1>1. StillLists /\ StillAlive /\ RampInv' /\ CursAlive'
  BY StillAll DEF Placed
<1> QED
  BY <1>1 DEF Placed, StillLists, StillAlive

LEMMA InitPlaced == Init => Placed /\ Finished
<1> SUFFICES ASSUME Init PROVE Placed /\ Finished
  OBVIOUS
<1>1. \A p \in Places : lists[p] = <<>>
  <2> SUFFICES ASSUME NEW p \in Places PROVE lists[p] = <<>>
    OBVIOUS
  <2>1. \A v \in Workers : localq[v] = <<>> /\ wakes[v] = <<>> /\ next[v] = None /\ ~Holds(v)
    BY DEF Init, Holds
  <2>2. \A k \in Channels : chan[k].rwait = <<>> /\ chan[k].swait = <<>>
    BY DEF Init, EmptyChan
  <2>3. SendersOf(<<>>) = <<>>
    BY EmptyDomain DEF SendersOf
  <2>4. CASE p = <<"ready", 0>>
    BY <2>4, ListIs DEF Init
  <2>5. ASSUME NEW v \in Workers, p = <<"local", v>> \/ p = <<"wakes", v>>
        PROVE  lists[p] = <<>>
    BY <2>1, <2>5, ListIs
  <2>6. ASSUME NEW v \in Workers, p = <<"next", v>> PROVE lists[p] = <<>>
    <3>1. lists[p] = IF next[v] = None THEN <<>> ELSE <<next[v]>>
      BY <2>6, ListIs
    <3> QED
      BY <2>1, <3>1
  <2>7. ASSUME NEW v \in Workers, p = <<"held", v>> PROVE lists[p] = <<>>
    <3>1. lists[p] = IF Holds(v) THEN <<cur[v]>> ELSE <<>>
      BY <2>7, ListIs
    <3> QED
      BY <2>1, <3>1
  <2>8. ASSUME NEW k \in Channels, p = <<"rwait", k>> \/ p = <<"swait", k>>
        PROVE  lists[p] = <<>>
    BY <2>2, <2>3, <2>8, ListIs
  <2> QED
    BY <2>4, <2>5, <2>6, <2>7, <2>8, PlaceCases
<1>2. Apart(lists) /\ \A c : ~Somewhere(lists, c)
  BY <1>1, EmptyDistinct DEF Apart, Somewhere
<1>3. \A c \in Coros : ~Alive(c)
  BY DEF Init, Alive
<1>4. RampInv /\ CursAlive
  BY EmptyDomain DEF RampInv, RampsApart, RampsBegun, DoneIsDestroyed, RampAt, CursAlive, Init
<1> QED
  BY <1>2, <1>3, <1>4 DEF Placed, Finished

-----------------------------------------------------------------------------
(* Counting sets that change at one member.                                  *)
LEMMA OneMember ==
    ASSUME NEW U, IsFiniteSet(U), NEW A \in SUBSET U, NEW B \in SUBSET U, NEW x \in U,
           \A y \in U : y # x => (y \in A <=> y \in B)
    PROVE  /\ Cardinality(A) \in Nat /\ Cardinality(B) \in Nat
           /\ (x \in A <=> x \in B) => Cardinality(B) = Cardinality(A)
           /\ x \notin A /\ x \in B => Cardinality(B) = Cardinality(A) + 1
           /\ x \in A /\ x \notin B => Cardinality(A) = Cardinality(B) + 1
<1>1. IsFiniteSet(A) /\ IsFiniteSet(B)
  BY FS_Subset
<1>2. Cardinality(A) \in Nat /\ Cardinality(B) \in Nat
  BY <1>1, FS_CardinalityType
<1>3. (x \in A <=> x \in B) => B = A
  OBVIOUS
<1>4. ASSUME x \notin A, x \in B PROVE Cardinality(B) = Cardinality(A) + 1
  <2>1. B = A \cup {x}
    BY <1>4
  <2> QED
    BY <1>1, <1>4, <2>1, FS_AddElement
<1>5. ASSUME x \in A, x \notin B PROVE Cardinality(A) = Cardinality(B) + 1
  <2>1. A = B \cup {x}
    BY <1>5
  <2> QED
    BY <1>1, <1>5, <2>1, FS_AddElement
<1> QED
  BY <1>2, <1>3, <1>4, <1>5

LEMMA WorkersFinite == IsFiniteSet(Workers)
  BY NAssumption, FS_Interval DEF Workers

\* One thread goes from one position to another.
LEMMA OneThread ==
    ASSUME NEW w \in Workers, \A v \in Workers : v # w => pc'[v] = pc[v], NEW P
    PROVE  /\ ThreadsAt(P) \in Nat /\ ThreadsAt(P)' \in Nat
           /\ (pc[w] \in P <=> pc'[w] \in P) => ThreadsAt(P)' = ThreadsAt(P)
           /\ pc[w] \notin P /\ pc'[w] \in P => ThreadsAt(P)' = ThreadsAt(P) + 1
           /\ pc[w] \in P /\ pc'[w] \notin P => ThreadsAt(P) = ThreadsAt(P)' + 1
           /\ pc[w] \in P => ThreadsAt(P) >= 1
<1>1. PICK A \in SUBSET Workers : A = {v \in Workers : pc[v] \in P}
  OBVIOUS
<1>2. PICK B \in SUBSET Workers : B = {v \in Workers : pc'[v] \in P}
  OBVIOUS
<1>3. \A y \in Workers : y # w => (y \in A <=> y \in B)
  BY <1>1, <1>2
<1>4. /\ Cardinality(A) \in Nat /\ Cardinality(B) \in Nat
      /\ (w \in A <=> w \in B) => Cardinality(B) = Cardinality(A)
      /\ w \notin A /\ w \in B => Cardinality(B) = Cardinality(A) + 1
      /\ w \in A /\ w \notin B => Cardinality(A) = Cardinality(B) + 1
  BY <1>3, WorkersFinite, OneMember
<1>5. ThreadsAt(P) = Cardinality(A) /\ ThreadsAt(P)' = Cardinality(B)
  BY <1>1, <1>2 DEF ThreadsAt
<1>6. (w \in A <=> pc[w] \in P) /\ (w \in B <=> pc'[w] \in P)
  BY <1>1, <1>2
<1>7. w \in A => Cardinality(A) >= 1
  <2>1. IsFiniteSet(A)
    BY WorkersFinite, FS_Subset
  <2>2. w \in A => Cardinality(A) # 0
    BY <2>1, FS_EmptySet
  <2> QED
    BY <1>4, <2>2
<1> QED
  BY <1>4, <1>5, <1>6, <1>7

-----------------------------------------------------------------------------
(* LIVE.                                                                     *)
AliveSet == {c \in Coros : Alive(c)}
Leaving == {"fin1", "fin2", "unlive"}

LiveCount ==
    /\ IsFiniteSet(AliveSet)
    /\ live = Cardinality(AliveSet) + ThreadsAt(Leaving)

\* The steps that leave LIVE and what it counts alone.
LEMMA LiveLeft ==
    ASSUME Settled, NEW w \in Workers,
           Step(w) \/ (w = 0 /\ (MainSpawn \/ MainAwait \/ MainEnd)),
           ~AfterDone(w), ~SpawnedReady(w), ~SpawnedParked(w), ~Fin2(w)
    PROVE  live' = live /\ (pc[w] \in Leaving <=> pc'[w] \in Leaving)
<1>1. /\ StealInv /\ TypeOK /\ HandShape(w) /\ Regular(prog) /\ ret[w] \in {"exec", "suspend"}
  BY DEF Settled, ChanInv, StealInv, ShapeInv, TypeOK
<1> USE DEF Leaving, At, Go, program, queues, counters, flags, coros, shared, waking, search, locals
<1>2. CASE Pick(w)
  <2>1. CASE PickNext(w) \/ HandoffTaken(w) \/ PickLocal(w) \/ PickGlobal(w) \/ Uncount(w)
    BY <1>1, <2>1 DEF PickNext, HandoffTaken, PickLocal, PickGlobal, Uncount, TypeOK
  <2>2. CASE Count(w) \/ ScanTake(w) \/ ScanMiss(w) \/ StealSkip(w)
    BY <1>1, <2>2 DEF Count, ScanTake, ScanMiss, StealSkip, Stealing, TypeOK
  <2>3. CASE StealLock(w)
    BY <1>1, <2>3 DEF StealLock, Stealing, TypeOK
  <2>4. CASE StealMove(w)
    <3>1. pc[w] = "mine" /\ pc' = [pc EXCEPT ![w] = "uncount"] /\ live' = live
      BY <2>4, Zenon DEF StealMove
    <3> QED
      BY <1>1, <3>1 DEF TypeOK
  <2>5. CASE StealMiss(w)
    BY <1>1, <2>5 DEF StealMiss, TypeOK
  <2> QED
    BY <1>2, <2>1, <2>2, <2>3, <2>4, <2>5 DEF Pick
<1>3. CASE Idle(w)
  <2>1. CASE LoopTop(w) \/ SyncTop(w)
    BY <1>1, <2>1, SMTT(30) DEF LoopTop, SyncTop, TypeOK
  <2>2. CASE TimerSleep(w) \/ SyncNone(w) \/ IdleLock(w)
    BY <1>1, <2>2, SMTT(30) DEF TimerSleep, SyncNone, IdleLock, LoopHead, TypeOK
  <2>3. CASE CheckLive(w) \/ CheckRunning(w)
    BY <1>1, <2>3 DEF CheckLive, CheckRunning, TypeOK
  <2>4. CASE CheckHandoff(w) \/ IdleWait(w)
    BY <1>1, <2>4 DEF CheckHandoff, IdleWait, TypeOK
  <2> QED
    BY <1>3, <2>1, <2>2, <2>3, <2>4 DEF Idle
<1>4. CASE w = 0 /\ (MainSpawn \/ MainAwait \/ MainEnd)
  BY <1>1, <1>4 DEF MainSpawn, MainAwait, MainEnd, MainCalls, StartRamp, TypeOK
<1>5. CASE RunOne(w)
  <2>1. CASE Resume(w) \/ ResumeUndefined(w)
    BY <1>1, <2>1 DEF Resume, ResumeUndefined, TypeOK
  <2>2. CASE Suspend(w)
    <3>1. live' = live /\ pc[w] = "suspend"
      BY <2>2 DEF Suspend
    <3>2. pc' = [pc EXCEPT ![w] = "after"] \/ pc' = [pc EXCEPT ![w] = "spawned"]
      BY <2>2 DEF Suspend
    <3> QED
      BY <1>1, <3>1, <3>2 DEF TypeOK
  <2>3. CASE Fin1(w) \/ AfterParked(w)
    BY <1>1, <2>3 DEF Fin1, AfterParked, Release, LoopHead, TypeOK
  <2>4. CASE AfterRequeue(w) \/ RequeuedCount(w) \/ RequeuedStop(w)
    BY <1>1, <2>4, SMTT(30) DEF AfterRequeue, RequeuedCount, RequeuedStop, Release, LoopHead, TypeOK
  <2>5. CASE SpawnedDone(w) \/ SpawnedCount(w)
    <3>1. live' = live /\ pc[w] \in {"spawned", "spawnedQ"}
      BY <2>5 DEF SpawnedDone, SpawnedCount, Complete
    <3>2. pc' = [pc EXCEPT ![w] = "main"] \/ pc' = [pc EXCEPT ![w] = "exec"]
      BY <2>5 DEF SpawnedDone, SpawnedCount, SpawnReturn
    <3> QED
      BY <1>1, <3>1, <3>2 DEF TypeOK
  <2> QED
    BY <1>5, <2>1, <2>2, <2>3, <2>4, <2>5 DEF RunOne
<1>6. CASE Exec(w)
  <2>1. CASE ExecYield(w) \/ ExecAwait(w) \/ ExecReturn(w)
    BY <1>1, <2>1 DEF ExecYield, ExecAwait, ExecReturn, Executing, TypeOK
  <2>2. CASE ExecSpawn(w)
    BY <1>1, <2>2 DEF ExecSpawn, StartRamp, Executing, TypeOK
  <2>3. CASE ExecSend(w) \/ ParkSend(w) \/ ExecRecv(w) \/ ParkRecv(w)
    <3>1. live' = live
      BY <2>3 DEF ExecSend, ParkSend, ExecRecv, ParkRecv, ParkRecvLooking, ChannelFrame
    <3>2. /\ pc[w] \in {"exec", "parkSend", "parkRecv"}
          /\ pc'[w] \in {"exec", "parkSend", "parkRecv", "suspend", "wake"}
      BY <1>1, <2>3, TransferFacts DEF Transfer
    <3> QED
      BY <3>1, <3>2
  <2>4. CASE WakeNext(w) \/ WakeLocal(w) \/ WakeGlobal(w) \/ WokenCount(w)
    <3>1. live' = live /\ pc[w] \in {"wake", "woken"}
      BY <2>4 DEF WakeNext, WakeLocal, WakeGlobal, Waking, WokenCount
    <3>2. pc'[w] \in {"wake", "woken", ret[w]}
      BY <1>1, <2>4 DEF WakeNext, WakeLocal, WakeGlobal, WokenCount, TypeOK
    <3> QED
      BY <1>1, <3>1, <3>2
  <2> QED
    BY <1>1, <1>6, <2>1, <2>2, <2>3, <2>4, NoCancel DEF Exec
<1> QED
  BY <1>2, <1>3, <1>4, <1>5, <1>6 DEF Step

\* Who broadcasts the shutdown.
LEMMA ShutdownLeft ==
    ASSUME Settled, NEW w \in Workers,
           Step(w) \/ (w = 0 /\ (MainSpawn \/ MainAwait \/ MainEnd)),
           ~Fin2(w), ~CheckLive(w), ~CheckHandoff(w)
    PROVE  shutdown' = shutdown
<1> USE DEF program, queues, counters, flags, coros, shared, waking, search, locals
<1>2. CASE Pick(w)
  BY <1>2 DEF Pick, PickNext, HandoffTaken, PickLocal, PickGlobal, Uncount, Count, ScanTake,
              ScanMiss, StealSkip, StealLock, StealMove, StealMiss
<1>3. CASE Idle(w)
  BY <1>3 DEF Idle, LoopTop, SyncTop, TimerSleep, SyncNone, IdleLock, CheckRunning, IdleWait
<1>4. CASE w = 0 /\ (MainSpawn \/ MainAwait \/ MainEnd)
  BY <1>4 DEF MainSpawn, MainAwait, MainEnd, StartRamp
<1>5. CASE RunOne(w)
  <2>1. CASE Resume(w) \/ ResumeUndefined(w) \/ Suspend(w) \/ Fin1(w) \/ AfterParked(w)
    BY <2>1 DEF Resume, ResumeUndefined, Suspend, Fin1, AfterParked
  <2>2. CASE AfterDone(w) \/ SpawnedDone(w)
    BY <2>2 DEF AfterDone, SpawnedDone, Complete
  <2>3. CASE AfterRequeue(w) \/ SpawnedReady(w)
    BY <2>3 DEF AfterRequeue, SpawnedReady, PushReady
  <2>4. CASE RequeuedCount(w) \/ RequeuedStop(w) \/ SpawnedCount(w) \/ SpawnedParked(w)
    BY <2>4 DEF RequeuedCount, RequeuedStop, SpawnedCount, SpawnedParked, SpawnedParkedLive
  <2> QED
    BY <1>5, <2>1, <2>2, <2>3, <2>4 DEF RunOne
<1>6. CASE Exec(w)
  <2>1. CASE ExecYield(w) \/ ExecAwait(w) \/ ExecReturn(w) \/ ExecSpawn(w)
    BY <2>1 DEF ExecYield, ExecAwait, ExecReturn, ExecSpawn, StartRamp
  <2>2. CASE ExecSend(w) \/ ParkSend(w) \/ ExecRecv(w) \/ ParkRecv(w)
    BY <2>2 DEF ExecSend, ParkSend, ExecRecv, ParkRecv, ParkRecvLooking, ChannelFrame
  <2>3. CASE WakeNext(w) \/ WakeLocal(w) \/ WakeGlobal(w) \/ WokenCount(w)
    BY <2>3 DEF WakeNext, WakeLocal, WakeGlobal, Waking, WokenCount
  <2> QED
    BY <1>6, <2>1, <2>2, <2>3, NoCancel DEF Exec, Settled, ChanInv, ShapeInv
<1> QED
  BY <1>2, <1>3, <1>4, <1>5, <1>6 DEF Step

LEMMA NoneCounted ==
    ASSUME LiveCount, live <= 0
    PROVE  \A c \in Coros : ~Alive(c)
<1>1. PICK m : m = Cardinality(AliveSet)
  OBVIOUS
<1>2. PICK n : n = ThreadsAt(Leaving)
  OBVIOUS
<1>3. m \in Nat
  BY <1>1, FS_CardinalityType DEF LiveCount
<1>4. n \in Nat
  <2>1. PICK A \in SUBSET Workers : A = {v \in Workers : pc[v] \in Leaving}
    OBVIOUS
  <2>2. IsFiniteSet(A)
    BY WorkersFinite, FS_Subset
  <2>3. Cardinality(A) \in Nat
    BY <2>2, FS_CardinalityType
  <2> QED
    BY <1>2, <2>1, <2>3 DEF ThreadsAt
<1>5. live = m + n
  BY <1>1, <1>2 DEF LiveCount
<1>6. m = 0
  BY <1>3, <1>4, <1>5
<1>7. AliveSet = {}
  BY <1>1, <1>6, FS_EmptySet DEF LiveCount
<1> QED
  BY <1>7 DEF AliveSet

LEMMA SteadySet ==
    ASSUME StillAlive
    PROVE  AliveSet' = AliveSet
  BY DEF AliveSet, StillAlive

\* The set of those alive with one more or one less.
LEMMA SetGrows ==
    ASSUME IsFiniteSet(AliveSet), NEW x \in Coros, ~Alive(x),
           \A c \in Coros : Alive(c)' <=> Alive(c) \/ c = x
    PROVE  IsFiniteSet(AliveSet') /\ Cardinality(AliveSet') = Cardinality(AliveSet) + 1
<1>1. x \notin AliveSet /\ AliveSet' = AliveSet \cup {x}
  BY DEF AliveSet
<1> QED
  BY <1>1, FS_AddElement

LEMMA SetShrinks ==
    ASSUME IsFiniteSet(AliveSet), NEW x \in Coros, Alive(x),
           \A c \in Coros : Alive(c)' <=> Alive(c) /\ c # x
    PROVE  IsFiniteSet(AliveSet') /\ Cardinality(AliveSet') = Cardinality(AliveSet) - 1
<1>1. x \in AliveSet /\ AliveSet' = AliveSet \ {x}
  BY DEF AliveSet
<1> QED
  BY <1>1, FS_RemoveElement

PlacesInv == Placed /\ LiveCount /\ Finished

LEMMA PlacesSettled ==
    ASSUME PlacesInv, ChanInv, ShapeInv, Regular(prog)
    PROVE  Settled
  BY DEF PlacesInv, Placed, Settled

LEMMA SteadyCounts ==
    ASSUME PlacesInv, ChanInv, ShapeInv, Regular(prog), NEW w \in Workers, Own(w), Steady(w),
           Step(w) \/ (w = 0 /\ (MainSpawn \/ MainAwait \/ MainEnd)),
           ~AfterDone(w), ~SpawnedReady(w), ~SpawnedParked(w)
    PROVE  PlacesInv'
<1>1. Settled /\ TypeOK
  BY PlacesSettled DEF ChanInv, StealInv
<1>2. Placed'
  BY <1>1, SteadyPlaced DEF PlacesInv
<1>3. AliveSet' = AliveSet /\ StillAlive
  BY SteadySet DEF Steady
<1>4. \A v \in Workers : v # w => pc'[v] = pc[v]
  BY DEF Own
<1>5. PICK m : m = Cardinality(AliveSet)
  OBVIOUS
<1>6. m \in Nat /\ IsFiniteSet(AliveSet) /\ live = m + ThreadsAt(Leaving)
  BY <1>5, FS_CardinalityType DEF PlacesInv, LiveCount
<1>7. LiveCount' /\ (Fin2(w) => live = live' + 1)
  <2>1. CASE ~Fin2(w)
    <3>1. live' = live /\ (pc[w] \in Leaving <=> pc'[w] \in Leaving)
      BY <1>1, <2>1, LiveLeft
    <3>2. ThreadsAt(Leaving)' = ThreadsAt(Leaving)
      BY <1>4, <3>1, OneThread
    <3> QED
      BY <1>3, <1>5, <1>6, <2>1, <3>1, <3>2 DEF LiveCount, Leaving
  <2>2. CASE Fin2(w)
    <3>1. live' = live - 1 /\ pc[w] \in Leaving /\ pc'[w] \notin Leaving
      BY <1>1, <2>2 DEF Fin2, Leaving, At, Go, LoopHead, TypeOK
    <3>2. /\ ThreadsAt(Leaving) = ThreadsAt(Leaving)' + 1
          /\ ThreadsAt(Leaving) \in Nat /\ ThreadsAt(Leaving)' \in Nat
      BY <1>4, <3>1, OneThread
    <3>3. PICK s : s = ThreadsAt(Leaving)
      OBVIOUS
    <3>4. PICK t : t = ThreadsAt(Leaving)'
      OBVIOUS
    <3>5. live' = m + t /\ live = live' + 1
      BY <1>6, <3>1, <3>2, <3>3, <3>4
    <3> QED
      BY <1>3, <1>5, <1>6, <3>4, <3>5 DEF LiveCount, Leaving
  <2> QED
    BY <2>1, <2>2
<1>8. Finished'
  <2> SUFFICES ASSUME wid'[0], shutdown', ~deadlock'
               PROVE  \A c \in Coros : ~Alive(c)'
    BY DEF Finished
  <2>1. wid[0] /\ ~deadlock
    BY DEF Own
  <2>2. \A c \in Coros : ~Alive(c)
    <3>1. CASE shutdown
      BY <2>1, <3>1 DEF PlacesInv, Finished
    <3>2. CASE ~shutdown /\ Fin2(w)
      <4>1. live' <= 0
        BY <1>1, <3>2 DEF Fin2, TypeOK
      <4>2. \A c \in Coros : ~Alive(c)'
        <5>1. LiveCount' /\ live' <= 0
          BY <1>7, <4>1
        <5>2. (LiveCount /\ live <= 0 => \A c \in Coros : ~Alive(c))'
          BY NoneCounted, PTL
        <5> QED
          BY <5>1, <5>2
      <4> QED
        BY <1>3, <4>2 DEF StillAlive
    <3>3. CASE ~shutdown /\ ~Fin2(w)
      <4>1. CASE CheckLive(w)
        <5>1. live <= 0
          BY <3>3, <4>1 DEF CheckLive
        <5> QED
          BY <5>1, NoneCounted DEF PlacesInv
      <4>2. CASE CheckHandoff(w)
        BY <3>3, <4>2 DEF CheckHandoff
      <4>3. CASE ~CheckLive(w) /\ ~CheckHandoff(w)
        BY <1>1, <3>3, <4>3, ShutdownLeft
      <4> QED
        BY <4>1, <4>2, <4>3
    <3> QED
      BY <3>1, <3>2, <3>3
  <2> QED
    BY <1>3, <2>2 DEF StillAlive
<1> QED
  BY <1>2, <1>7, <1>8 DEF PlacesInv

LEMMA BornCounts ==
    ASSUME PlacesInv, ChanInv, NEW w \in Workers, Own(w), SpawnedReady(w) \/ SpawnedParked(w)
    PROVE  PlacesInv'
<1>1. /\ StealInv /\ TypeOK /\ ThreadShape(w) /\ WorkersTogether /\ IntentWaits
      /\ Placed /\ CursAlive
  BY DEF ChanInv, StealInv, PlacesInv, Placed
<1>2. PICK x : x = Running(w)
  OBVIOUS
<1>3. /\ Placed' /\ x \in Coros /\ ~Alive(x)
      /\ \A c \in Coros : Alive(c)' <=> Alive(c) \/ c = x
  BY <1>1, <1>2, BornPlaced
<1>4. IsFiniteSet(AliveSet') /\ Cardinality(AliveSet') = Cardinality(AliveSet) + 1
  BY <1>3, SetGrows DEF PlacesInv, LiveCount
<1>5. /\ live' = live + 1 /\ shutdown' = shutdown /\ wid' = wid
      /\ pc[w] \notin Leaving /\ pc'[w] \notin Leaving /\ \A v \in Workers : v # w => pc'[v] = pc[v]
  <2>1. \A v \in Workers : v # w => pc'[v] = pc[v]
    BY DEF Own
  <2>2. live' = live + 1 /\ shutdown' = shutdown /\ wid' = wid /\ pc[w] = "spawned"
    BY DEF SpawnedReady, PushReady, SpawnedParked, SpawnedParkedLive, flags, At
  <2>3. pc'[w] \in {"main", "exec", "spawnedQ"}
    <3>1. CASE SpawnedReady(w)
      BY <1>1, <3>1 DEF SpawnedReady, Go, TypeOK
    <3>2. CASE SpawnedParked(w)
      <4>1. pc' = [pc EXCEPT ![w] = "main"] \/ pc' = [pc EXCEPT ![w] = "exec"]
        BY <3>2 DEF SpawnedParked, SpawnedParkedLive, SpawnReturn, Go
      <4> QED
        BY <1>1, <4>1 DEF TypeOK
    <3> QED
      BY <3>1, <3>2
  <2> QED
    BY <2>1, <2>2, <2>3 DEF Leaving
<1>6. ThreadsAt(Leaving)' = ThreadsAt(Leaving) /\ ThreadsAt(Leaving) \in Nat
  BY <1>5, OneThread
<1>7. LiveCount'
  <2>1. PICK m : m = Cardinality(AliveSet)
    OBVIOUS
  <2>2. PICK t : t = ThreadsAt(Leaving)
    OBVIOUS
  <2>3. live = m + t /\ m \in Nat /\ t \in Nat
    BY <1>6, <2>1, <2>2, FS_CardinalityType DEF PlacesInv, LiveCount
  <2>4. live' = (m + 1) + t
    BY <1>5, <2>3
  <2> QED
    BY <1>4, <1>6, <2>1, <2>2, <2>4 DEF LiveCount, Leaving
<1>8. Finished'
  <2> SUFFICES ASSUME wid'[0], shutdown', ~deadlock'
               PROVE  FALSE
    BY DEF Finished
  <2>1. wid[0] /\ ~deadlock /\ shutdown
    BY <1>5 DEF Own
  <2>2. \A c \in Coros : ~Alive(c)
    BY <2>1 DEF PlacesInv, Finished
  <2>3. CASE SpawnedParked(w)
    BY <1>1, <2>1, <2>3 DEF SpawnedParked, SpawnedParkedLive, IntentWaits
  <2>4. CASE SpawnedReady(w)
    <3>1. wid[w] /\ stack[w] # <<>>
      BY <1>1, <2>1, <2>4, SpawnedTop DEF SpawnedReady, At, WorkersTogether
    <3>2. cur[w] # None
      BY <1>1, <3>1 DEF ThreadShape
    <3> QED
      BY <1>1, <2>2, <3>2 DEF CursAlive, TypeOK
  <2> QED
    BY <2>3, <2>4
<1> QED
  BY <1>3, <1>7, <1>8 DEF PlacesInv

LEMMA GoneCounts ==
    ASSUME PlacesInv, ChanInv, ShapeInv, NEW w \in Workers, Own(w), AfterDone(w)
    PROVE  PlacesInv'
<1>1. TypeOK /\ Placed /\ \A v \in Workers : HandShape(v)
  BY DEF ChanInv, StealInv, PlacesInv, ShapeInv
<1>2. PICK x : x = cur[w]
  OBVIOUS
<1>3. /\ Placed' /\ x \in Coros /\ Alive(x)
      /\ \A c \in Coros : Alive(c)' <=> Alive(c) /\ c # x
  BY <1>1, <1>2, GonePlaced
<1>4. IsFiniteSet(AliveSet') /\ Cardinality(AliveSet') = Cardinality(AliveSet) - 1
  BY <1>3, SetShrinks DEF PlacesInv, LiveCount
<1>5. /\ live' = live /\ shutdown' = shutdown /\ wid' = wid
      /\ pc[w] \notin Leaving /\ pc'[w] \in Leaving /\ \A v \in Workers : v # w => pc'[v] = pc[v]
  <2>1. \A v \in Workers : v # w => pc'[v] = pc[v]
    BY DEF Own
  <2>2. live' = live /\ shutdown' = shutdown /\ wid' = wid /\ pc[w] = "after" /\ pc'[w] = "fin1"
    BY <1>1 DEF AfterDone, Complete, Release, flags, counters, At, Go, TypeOK
  <2> QED
    BY <2>1, <2>2 DEF Leaving
<1>6. ThreadsAt(Leaving)' = ThreadsAt(Leaving) + 1 /\ ThreadsAt(Leaving) \in Nat
  BY <1>5, OneThread
<1>7. LiveCount'
  <2>1. PICK m : m = Cardinality(AliveSet)
    OBVIOUS
  <2>2. PICK t : t = ThreadsAt(Leaving)
    OBVIOUS
  <2>3. live = m + t /\ m \in Nat /\ t \in Nat
    BY <1>6, <2>1, <2>2, FS_CardinalityType DEF PlacesInv, LiveCount
  <2>4. live' = (m - 1) + (t + 1)
    BY <1>5, <2>3
  <2> QED
    BY <1>4, <1>6, <2>1, <2>2, <2>4 DEF LiveCount, Leaving
<1>8. Finished'
  BY <1>3, <1>5 DEF Finished, PlacesInv, Own
<1> QED
  BY <1>3, <1>7, <1>8 DEF PlacesInv

\* No thread is leaving before and after.
LEMMA NobodyLeaves ==
    ASSUME \A v \in Workers : pc[v] \in Leaving <=> pc'[v] \in Leaving,
           StillAlive, live' = live, LiveCount
    PROVE  LiveCount'
<1>1. AliveSet' = AliveSet
  BY SteadySet
<1>2. {v \in Workers : pc[v] \in Leaving} = {v \in Workers : pc'[v] \in Leaving}
  OBVIOUS
<1> QED
  BY <1>1, <1>2 DEF LiveCount, ThreadsAt, Leaving

LEMMA WorkersCounts ==
    ASSUME PlacesInv, ChanInv, ShapeInv, Regular(prog), MainRun \/ MainJoin
    PROVE  PlacesInv'
<1>1. Placed'
  BY WorkersPlaced DEF PlacesInv
<1>2. StillAlive
  BY StillWorkers DEF PlacesInv, Placed
<1>3. \A v \in Workers : pc[v] \notin Leaving /\ pc'[v] \notin Leaving
  BY WorkersShape DEF Leaving
<1>4. live' = live
  BY DEF MainRun, MainJoin, counters
<1>5. LiveCount'
  BY <1>2, <1>3, <1>4, NobodyLeaves DEF PlacesInv
<1>6. Finished'
  <2>1. TypeOK
    BY DEF ChanInv, StealInv
  <2> QED
    BY <2>1, ZeroIsWorker DEF Finished, MainRun, MainJoin
<1> QED
  BY <1>1, <1>5, <1>6 DEF PlacesInv

LEMMA StillCounts ==
    ASSUME PlacesInv,
           UNCHANGED <<ready, localq, wakes, chan, next, cur, parked, pc, frame, done, stack,
                       deadlock, shutdown, wid, live>>
    PROVE  PlacesInv'
<1>1. Placed' /\ StillAlive
  BY StillPlaced DEF PlacesInv
<1>2. LiveCount'
  BY <1>1, NobodyLeaves DEF PlacesInv
<1>3. Finished'
  BY <1>1 DEF PlacesInv, Finished, StillAlive
<1> QED
  BY <1>1, <1>2, <1>3 DEF PlacesInv

LEMMA NextPlaces ==
    ASSUME ChanInv, ChanInv', ShapeInv, Regular(prog), PlacesInv, [Next]_vars
    PROVE  PlacesInv'
<1>1. Settled /\ TypeOK' /\ \A v \in Workers : HandShape(v)
  BY PlacesSettled DEF ChanInv, StealInv, ShapeInv
<1>2. ASSUME NEW w \in Workers, Step(w) \/ (w = 0 /\ (MainSpawn \/ MainAwait \/ MainEnd))
      PROVE  PlacesInv'
  <2>1. Own(w)
    BY <1>1, <1>2, StepOwn DEF ShapeInv
  <2>2. CASE AfterDone(w)
    BY <2>1, <2>2, GoneCounts
  <2>3. CASE SpawnedReady(w) \/ SpawnedParked(w)
    BY <2>1, <2>3, BornCounts
  <2>4. CASE ~AfterDone(w) /\ ~SpawnedReady(w) /\ ~SpawnedParked(w)
    <3>1. Steady(w)
      <4>1. CASE Pick(w)
        BY <1>1, <2>1, <4>1, SteadyPick
      <4>2. CASE Idle(w) \/ (w = 0 /\ (MainAwait \/ MainEnd))
        BY <1>1, <2>1, <4>2, SteadyIdle
      <4>3. CASE Exec(w) \/ (w = 0 /\ MainSpawn)
        BY <1>1, <2>1, <4>3, SteadyExec
      <4>4. CASE RunOne(w)
        BY <1>1, <2>1, <2>4, <4>4, SteadyRunOne
      <4> QED
        BY <1>2, <4>1, <4>2, <4>3, <4>4 DEF Step
    <3> QED
      BY <1>2, <2>1, <2>4, <3>1, SteadyCounts
  <2> QED
    BY <2>2, <2>3, <2>4
<1>3. CASE MainRun \/ MainJoin
  BY <1>3, WorkersCounts
<1>4. ASSUME NEW c \in Coros, TimePasses(c) PROVE PlacesInv'
  BY <1>4, StillCounts DEF TimePasses, queues, counters, flags, locals, waking
<1>5. CASE UNCHANGED vars
  BY <1>5, StillCounts DEF vars, shared, queues, counters, flags, coros, locals, waking
<1> QED
  BY <1>2, <1>3, <1>4, <1>5, ZeroIsWorker DEF Next, Main, Terminated

LEMMA InitPlaces == Init => PlacesInv
<1> SUFFICES ASSUME Init PROVE PlacesInv
  OBVIOUS
<1>1. Placed /\ Finished
  BY InitPlaced
<1>2. AliveSet = {}
  BY DEF AliveSet, Alive, Init
<1>3. {w \in Workers : pc[w] \in Leaving} = {}
  BY DEF Init, Leaving
<1>4. LiveCount
  <2>1. live = 0
    BY DEF Init
  <2> QED
    BY <1>2, <1>3, <2>1, FS_EmptySet DEF LiveCount, ThreadsAt
<1> QED
  BY <1>1, <1>4 DEF PlacesInv

-----------------------------------------------------------------------------
\* The program does not change.
LEMMA SameProgram ==
    ASSUME [Next]_vars
    PROVE  prog' = prog
<1> USE DEF program, shared
<1>1. ASSUME NEW w \in Workers, Step(w) PROVE prog' = prog
  <2>1. CASE Pick(w)
    BY <2>1 DEF Pick, PickNext, HandoffTaken, PickLocal, PickGlobal, Uncount, Count, ScanTake,
                ScanMiss, StealSkip, StealLock, StealMove, StealMiss
  <2>2. CASE Idle(w)
    BY <2>2 DEF Idle, LoopTop, SyncTop, TimerSleep, SyncNone, IdleLock, CheckLive, CheckRunning,
                CheckHandoff, IdleWait
  <2>3. CASE RunOne(w)
    <3>1. CASE Resume(w) \/ ResumeUndefined(w) \/ Suspend(w) \/ Fin1(w) \/ Fin2(w)
      BY <3>1 DEF Resume, ResumeUndefined, Suspend, Fin1, Fin2
    <3>2. CASE AfterDone(w) \/ AfterParked(w) \/ AfterRequeue(w)
      BY <3>2 DEF AfterDone, AfterParked, AfterRequeue, PushReady, Complete
    <3>3. CASE RequeuedCount(w) \/ RequeuedStop(w) \/ SpawnedDone(w)
      BY <3>3 DEF RequeuedCount, RequeuedStop, SpawnedDone, Complete
    <3>4. CASE SpawnedParked(w) \/ SpawnedReady(w) \/ SpawnedCount(w)
      BY <3>4 DEF SpawnedParked, SpawnedParkedLive, SpawnedReady, PushReady, SpawnedCount
    <3> QED
      BY <2>3, <3>1, <3>2, <3>3, <3>4 DEF RunOne
  <2>4. CASE Exec(w)
    <3>1. CASE ExecYield(w) \/ ExecAwait(w) \/ ExecReturn(w) \/ ExecSpawn(w)
      BY <3>1 DEF ExecYield, ExecAwait, ExecReturn, ExecSpawn, StartRamp
    <3>2. CASE ExecSend(w) \/ ParkSend(w) \/ ExecRecv(w) \/ ParkRecv(w)
      BY <3>2 DEF ExecSend, ParkSend, ExecRecv, ParkRecv, ParkRecvLooking, ChannelFrame
    <3>3. CASE WakeNext(w) \/ WakeLocal(w) \/ WakeGlobal(w) \/ WokenCount(w)
      BY <3>3 DEF WakeNext, WakeLocal, WakeGlobal, Waking, WokenCount
    <3>4. CASE CancelNothing(w) \/ CancelDequeue(w) \/ CancelDestroy(w) \/ CancelUncount(w)
      BY <3>4 DEF CancelNothing, CancelDequeue, CancelDequeueCounting, CancelDestroy, CancelUncount,
                  CancelReturn
    <3> QED
      BY <2>4, <3>1, <3>2, <3>3, <3>4 DEF Exec
  <2> QED
    BY <1>1, <2>1, <2>2, <2>3, <2>4 DEF Step
<1>2. CASE Main
  BY <1>2 DEF Main, MainSpawn, StartRamp, MainRun, MainJoin, MainAwait, MainEnd
<1>3. ASSUME NEW c \in Coros, TimePasses(c) PROVE prog' = prog
  BY <1>3 DEF TimePasses
<1>4. CASE UNCHANGED vars
  BY <1>4 DEF vars
<1> QED
  BY <1>1, <1>2, <1>3, <1>4 DEF Next, Terminated

-----------------------------------------------------------------------------
(* RUNNING.                                                                  *)
RunningCount == running = Cardinality({w \in Workers : Counted(w)})

\* What a step of w does to RUNNING and to w's share in it.
RunningKept(w) == running' = running /\ (Counted(w)' <=> Counted(w))
RunningMore(w) == running' = running + 1 /\ ~Counted(w) /\ Counted(w)'
RunningLess(w) == running' = running - 1 /\ Counted(w) /\ ~Counted(w)'

LEMMA RunningStep ==
    ASSUME RunningCount, NEW w \in Workers, Own(w),
           RunningKept(w) \/ RunningMore(w) \/ RunningLess(w)
    PROVE  RunningCount'
<1>1. PICK A \in SUBSET Workers : A = {v \in Workers : Counted(v)}
  OBVIOUS
<1>2. PICK B \in SUBSET Workers : B = {v \in Workers : Counted(v)'}
  OBVIOUS
<1>3. \A y \in Workers : y # w => (Counted(y)' <=> Counted(y))
  BY DEF Own, Counted
<1>4. \A y \in Workers : y # w => (y \in A <=> y \in B)
  BY <1>1, <1>2, <1>3
<1>5. /\ Cardinality(A) \in Nat /\ Cardinality(B) \in Nat
      /\ (w \in A <=> w \in B) => Cardinality(B) = Cardinality(A)
      /\ w \notin A /\ w \in B => Cardinality(B) = Cardinality(A) + 1
      /\ w \in A /\ w \notin B => Cardinality(A) = Cardinality(B) + 1
  BY <1>4, WorkersFinite, OneMember
<1>6. (w \in A <=> Counted(w)) /\ (w \in B <=> Counted(w)')
  BY <1>1, <1>2
<1>7. running = Cardinality(A)
  BY <1>1 DEF RunningCount
<1>8. running' = Cardinality(B)
  BY <1>5, <1>6, <1>7 DEF RunningKept, RunningMore, RunningLess
<1> QED
  BY <1>2, <1>8 DEF RunningCount

LEMMA RunningOf ==
    ASSUME Settled, NEW w \in Workers,
           Step(w) \/ (w = 0 /\ (MainSpawn \/ MainAwait \/ MainEnd))
    PROVE  RunningKept(w) \/ RunningMore(w) \/ RunningLess(w)
<1>1. /\ StealInv /\ TypeOK /\ HandShape(w) /\ ThreadShape(w) /\ Regular(prog)
      /\ ret[w] \in {"exec", "suspend"}
  BY DEF Settled, ChanInv, StealInv, ShapeInv, TypeOK
<1> USE DEF RunningKept, RunningMore, RunningLess, Counted, At, Go,
            program, queues, counters, flags, coros, shared, waking, search, locals
<1>2. CASE Pick(w)
  <2> USE DEF HandShape, IdlePcs, ThreadShape, Fetching
  <2>1. CASE PickNext(w)
    BY <1>1, <2>1 DEF PickNext, TypeOK
  <2>2. CASE HandoffTaken(w)
    BY <1>1, <2>2 DEF HandoffTaken, TypeOK
  <2>3. CASE PickLocal(w)
    BY <1>1, <2>3 DEF PickLocal, TypeOK
  <2>4. CASE PickGlobal(w) \/ ScanMiss(w) \/ StealSkip(w) \/ StealLock(w) \/ StealMiss(w)
    <3>1. UNCHANGED <<running, cur>> /\ pc[w] \in {"pick", "scan", "steal"}
      BY <2>4 DEF PickGlobal, ScanMiss, StealSkip, StealLock, Stealing, StealMiss
    <3>2. pc'[w] \in {"scan", "steal", "mine", "timer", "none"}
      BY <1>1, <2>4 DEF PickGlobal, ScanMiss, StealSkip, StealLock, Stealing, StealMiss, TypeOK
    <3> QED
      BY <1>1, <3>1, <3>2
  <2>5. CASE Uncount(w)
    BY <1>1, <2>5 DEF Uncount, TypeOK
  <2>6. CASE Count(w)
    BY <1>1, <2>6 DEF Count, TypeOK
  <2>7. CASE ScanTake(w)
    <3>1. PICK i \in 1..Len(ready) : cur' = [cur EXCEPT ![w] = ready[i]]
      BY <2>7 DEF ScanTake, Due
    <3>2. ready[i] # None
      <4>1. ready \in Seq(Coros)
        BY <1>1 DEF TypeOK
      <4>2. ready[i] \in Coros
        BY <4>1
      <4> QED
        BY <4>2, NoneAssumption
    <3> QED
      BY <1>1, <2>7, <3>1, <3>2 DEF ScanTake, TypeOK
  <2>8. CASE StealMove(w)
    BY <1>1, <2>8 DEF StealMove, TypeOK
  <2> QED
    BY <1>2, <2>1, <2>2, <2>3, <2>4, <2>5, <2>6, <2>7, <2>8 DEF Pick
<1>3. CASE Idle(w)
  <2>1. CASE LoopTop(w) \/ SyncTop(w) \/ TimerSleep(w) \/ SyncNone(w) \/ IdleLock(w)
    <3>1. running' = running /\ cur' = cur /\ pc[w] \in {"top", "sync", "timer", "none"}
      BY <2>1 DEF LoopTop, SyncTop, TimerSleep, SyncNone, IdleLock
    <3>2. \/ pc' = [pc EXCEPT ![w] = "stopped"] \/ pc' = [pc EXCEPT ![w] = "pick"]
          \/ pc' = [pc EXCEPT ![w] = "main"] \/ pc' = [pc EXCEPT ![w] = "top"]
          \/ pc' = [pc EXCEPT ![w] = "sync"] \/ pc' = [pc EXCEPT ![w] = "chkLive"]
      BY <2>1 DEF LoopTop, SyncTop, TimerSleep, SyncNone, IdleLock, LoopHead
    <3> QED
      BY <1>1, <3>1, <3>2, PcBecomes DEF HandShape, IdlePcs
  <2>2. CASE CheckLive(w) \/ CheckRunning(w) \/ CheckHandoff(w) \/ IdleWait(w)
    <3>1. running' = running /\ cur' = cur /\ pc[w] \in {"chkLive", "chkRun", "chkHand", "wait"}
      BY <2>2 DEF CheckLive, CheckRunning, CheckHandoff, IdleWait
    <3>2. \/ pc' = [pc EXCEPT ![w] = "stopped"] \/ pc' = [pc EXCEPT ![w] = "chkRun"]
          \/ pc' = [pc EXCEPT ![w] = "chkHand"] \/ pc' = [pc EXCEPT ![w] = "wait"]
          \/ pc' = [pc EXCEPT ![w] = "top"]
      BY <2>2 DEF CheckLive, CheckRunning, CheckHandoff, IdleWait
    <3> QED
      BY <1>1, <3>1, <3>2, PcBecomes DEF HandShape, IdlePcs
  <2> QED
    BY <1>3, <2>1, <2>2 DEF Idle
<1>4. CASE w = 0 /\ (MainSpawn \/ MainAwait \/ MainEnd)
  BY <1>1, <1>4 DEF MainSpawn, MainAwait, MainEnd, MainCalls, StartRamp, TypeOK, HandShape, IdlePcs
<1>5. CASE RunOne(w)
  <2>1. CASE Resume(w) \/ ResumeUndefined(w)
    BY <1>1, <2>1 DEF Resume, ResumeUndefined, TypeOK
  <2>2. CASE Suspend(w)
    <3>1. running' = running /\ cur' = cur /\ pc[w] = "suspend"
      BY <2>2 DEF Suspend
    <3>2. pc' = [pc EXCEPT ![w] = "after"] \/ pc' = [pc EXCEPT ![w] = "spawned"]
      BY <2>2 DEF Suspend
    <3> QED
      BY <1>1, <3>1, <3>2 DEF TypeOK
  <2>3. CASE AfterDone(w) \/ AfterParked(w) \/ AfterRequeue(w)
    BY <1>1, <2>3 DEF AfterDone, AfterParked, AfterRequeue, Complete, PushReady, Release, LoopHead,
          TypeOK, ThreadShape
  <2>4. CASE Fin1(w) \/ Fin2(w) \/ RequeuedCount(w) \/ RequeuedStop(w)
    BY <1>1, <2>4 DEF Fin1, Fin2, RequeuedCount, RequeuedStop, LoopHead, TypeOK, HandShape, IdlePcs
  <2>5. CASE SpawnedDone(w) \/ SpawnedCount(w) \/ SpawnedParked(w)
    <3>1. running' = running /\ cur' = cur /\ pc[w] \in {"spawned", "spawnedQ"}
      BY <2>5 DEF SpawnedDone, SpawnedCount, SpawnedParked, SpawnedParkedLive, Complete, SpawnReturn
    <3>2. pc' = [pc EXCEPT ![w] = "main"] \/ pc' = [pc EXCEPT ![w] = "exec"]
      BY <2>5 DEF SpawnedDone, SpawnedCount, SpawnedParked, SpawnedParkedLive, SpawnReturn
    <3> QED
      BY <1>1, <3>1, <3>2 DEF TypeOK
  <2>6. CASE SpawnedReady(w)
    BY <1>1, <2>6 DEF SpawnedReady, PushReady, TypeOK
  <2> QED
    BY <1>5, <2>1, <2>2, <2>3, <2>4, <2>5, <2>6 DEF RunOne
<1>6. CASE Exec(w)
  <2>1. CASE ExecYield(w) \/ ExecAwait(w) \/ ExecReturn(w)
    BY <1>1, <2>1 DEF ExecYield, ExecAwait, ExecReturn, Executing, TypeOK
  <2>2. CASE ExecSpawn(w)
    BY <1>1, <2>2 DEF ExecSpawn, StartRamp, Executing, TypeOK
  <2>3. CASE ExecSend(w) \/ ParkSend(w) \/ ExecRecv(w) \/ ParkRecv(w)
    <3>1. running' = running
      BY <2>3 DEF ExecSend, ParkSend, ExecRecv, ParkRecv, ParkRecvLooking, ChannelFrame
    <3>2. /\ pc[w] \in {"exec", "parkSend", "parkRecv"} /\ cur' = cur
          /\ pc'[w] \in {"exec", "parkSend", "parkRecv", "suspend", "wake"}
      BY <1>1, <2>3, TransferFacts DEF Transfer
    <3> QED
      BY <3>1, <3>2
  <2>4. CASE WakeNext(w) \/ WakeLocal(w) \/ WakeGlobal(w) \/ WokenCount(w)
    <3>1. running' = running /\ pc[w] \in {"wake", "woken"} /\ cur' = cur
      BY <2>4 DEF WakeNext, WakeLocal, WakeGlobal, Waking, WokenCount
    <3>2. pc'[w] \in {"wake", "woken", ret[w]}
      BY <1>1, <2>4 DEF WakeNext, WakeLocal, WakeGlobal, WokenCount, TypeOK
    <3> QED
      BY <1>1, <3>1, <3>2
  <2> QED
    BY <1>1, <1>6, <2>1, <2>2, <2>3, <2>4, NoCancel DEF Exec
<1> QED
  BY <1>2, <1>3, <1>4, <1>5, <1>6 DEF Step

-----------------------------------------------------------------------------
(* HANDOFF.                                                                  *)
HandoffCount ==
    handoff = Cardinality({w \in Workers : next[w] # None}) + ThreadsAt({"handoff"})

\* What a step of w does to HANDOFF and to w's share in it.
HandoffKept(w) ==
    /\ handoff' = handoff /\ (next'[w] # None <=> next[w] # None)
    /\ pc[w] = "handoff" <=> pc'[w] = "handoff"
HandoffGiven(w) ==
    /\ handoff' = handoff + 1 /\ next[w] = None /\ next'[w] # None
    /\ pc[w] # "handoff" /\ pc'[w] # "handoff"
HandoffHeld(w) ==
    /\ handoff' = handoff /\ next[w] # None /\ next'[w] = None
    /\ pc[w] # "handoff" /\ pc'[w] = "handoff"
HandoffGone(w) ==
    /\ handoff' = handoff - 1 /\ (next'[w] # None <=> next[w] # None)
    /\ pc[w] = "handoff" /\ pc'[w] # "handoff"

LEMMA HandoffStep ==
    ASSUME HandoffCount, NEW w \in Workers, Own(w),
           HandoffKept(w) \/ HandoffGiven(w) \/ HandoffHeld(w) \/ HandoffGone(w)
    PROVE  HandoffCount'
<1>1. PICK A \in SUBSET Workers : A = {v \in Workers : next[v] # None}
  OBVIOUS
<1>2. PICK B \in SUBSET Workers : B = {v \in Workers : next'[v] # None}
  OBVIOUS
<1>3. \A y \in Workers : y # w => next'[y] = next[y] /\ pc'[y] = pc[y]
  BY DEF Own
<1>4. \A y \in Workers : y # w => (y \in A <=> y \in B)
  BY <1>1, <1>2, <1>3
<1>5. PICK a : a = Cardinality(A)
  OBVIOUS
<1>6. PICK b : b = Cardinality(B)
  OBVIOUS
<1>7. /\ a \in Nat /\ b \in Nat
      /\ (w \in A <=> w \in B) => b = a
      /\ w \notin A /\ w \in B => b = a + 1
      /\ w \in A /\ w \notin B => a = b + 1
  BY <1>4, <1>5, <1>6, WorkersFinite, OneMember
<1>8. (w \in A <=> next[w] # None) /\ (w \in B <=> next'[w] # None)
  BY <1>1, <1>2
<1>9. PICK s : s = ThreadsAt({"handoff"})
  OBVIOUS
<1>10. PICK t : t = ThreadsAt({"handoff"})'
  OBVIOUS
<1>11. /\ s \in Nat /\ t \in Nat
       /\ (pc[w] = "handoff" <=> pc'[w] = "handoff") => t = s
       /\ pc[w] # "handoff" /\ pc'[w] = "handoff" => t = s + 1
       /\ pc[w] = "handoff" /\ pc'[w] # "handoff" => s = t + 1
  <2>1. PICK P : P = {"handoff"}
    OBVIOUS
  <2>2. s = ThreadsAt(P) /\ t = ThreadsAt(P)'
    BY <1>9, <1>10, <2>1
  <2>3. \A p : p \in P <=> p = "handoff"
    BY <2>1
  <2>4. /\ ThreadsAt(P) \in Nat /\ ThreadsAt(P)' \in Nat
        /\ (pc[w] \in P <=> pc'[w] \in P) => ThreadsAt(P)' = ThreadsAt(P)
        /\ pc[w] \notin P /\ pc'[w] \in P => ThreadsAt(P)' = ThreadsAt(P) + 1
        /\ pc[w] \in P /\ pc'[w] \notin P => ThreadsAt(P) = ThreadsAt(P)' + 1
    BY <1>3, OneThread
  <2> QED
    BY <2>2, <2>3, <2>4
<1>12. handoff = a + s
  BY <1>1, <1>5, <1>9 DEF HandoffCount
<1>13. handoff' = b + t
  BY <1>7, <1>8, <1>11, <1>12 DEF HandoffKept, HandoffGiven, HandoffHeld, HandoffGone
<1> QED
  BY <1>2, <1>6, <1>10, <1>13 DEF HandoffCount

LEMMA HandoffOf ==
    ASSUME Settled, NEW w \in Workers,
           Step(w) \/ (w = 0 /\ (MainSpawn \/ MainAwait \/ MainEnd))
    PROVE  HandoffKept(w) \/ HandoffGiven(w) \/ HandoffHeld(w) \/ HandoffGone(w)
<1>1. /\ StealInv /\ TypeOK /\ HandShape(w) /\ ThreadShape(w) /\ Regular(prog)
      /\ ret[w] \in {"exec", "suspend"}
  BY DEF Settled, ChanInv, StealInv, ShapeInv, TypeOK
<1> USE DEF At, Go, program, queues, counters, flags, coros, shared, waking, search, locals
<1>2. CASE PickNext(w)
  BY <1>1, <1>2 DEF PickNext, TypeOK, HandoffHeld
<1>3. CASE HandoffTaken(w)
  BY <1>1, <1>3 DEF HandoffTaken, TypeOK, HandoffGone
<1>4. CASE WakeNext(w)
  <2>1. pc[w] = "wake" /\ pc'[w] \in {"wake", "exec", "suspend"}
    BY <1>1, <1>4 DEF WakeNext, Waking, TypeOK
  <2>2. wakes[w] \in Seq(Coros) /\ wakes[w] # <<>>
    BY <1>1, <2>1 DEF TypeOK, ThreadShape
  <2>3. Head(wakes[w]) # None
    BY <2>2, NoneAssumption
  <2>4. handoff' = handoff + 1 /\ next[w] = None /\ next' = [next EXCEPT ![w] = Head(wakes[w])]
    BY <1>4 DEF WakeNext
  <2> QED
    BY <1>1, <2>1, <2>3, <2>4 DEF HandoffGiven, TypeOK
<1>5. ASSUME ~PickNext(w), ~HandoffTaken(w), ~WakeNext(w)
      PROVE  handoff' = handoff /\ next' = next /\ (pc[w] = "handoff" <=> pc'[w] = "handoff")
  <2>2. CASE Pick(w)
    <3>1. CASE PickLocal(w) \/ PickGlobal(w) \/ Uncount(w) \/ Count(w)
      BY <1>1, <3>1 DEF PickLocal, PickGlobal, Uncount, Count, TypeOK
    <3>2. CASE ScanTake(w) \/ ScanMiss(w) \/ StealSkip(w)
      BY <1>1, <3>2 DEF ScanTake, ScanMiss, StealSkip, Stealing, TypeOK
    <3>3. CASE StealLock(w) \/ StealMove(w) \/ StealMiss(w)
      BY <1>1, <3>3 DEF StealLock, Stealing, StealMove, StealMiss, TypeOK
    <3> QED
      BY <1>5, <2>2, <3>1, <3>2, <3>3 DEF Pick
  <2>3. CASE Idle(w)
    <3>1. CASE LoopTop(w) \/ SyncTop(w)
      BY <1>1, <3>1 DEF LoopTop, SyncTop, TypeOK
    <3>2. CASE TimerSleep(w) \/ SyncNone(w) \/ IdleLock(w)
      BY <1>1, <3>2 DEF TimerSleep, SyncNone, IdleLock, LoopHead, TypeOK
    <3>3. CASE CheckLive(w) \/ CheckRunning(w)
      BY <1>1, <3>3 DEF CheckLive, CheckRunning, TypeOK
    <3>4. CASE CheckHandoff(w) \/ IdleWait(w)
      BY <1>1, <3>4 DEF CheckHandoff, IdleWait, TypeOK
    <3> QED
      BY <2>3, <3>1, <3>2, <3>3, <3>4 DEF Idle
  <2>4. CASE w = 0 /\ (MainSpawn \/ MainAwait \/ MainEnd)
    BY <1>1, <2>4 DEF MainSpawn, MainAwait, MainEnd, MainCalls, StartRamp, TypeOK
  <2>5. CASE RunOne(w)
    <3>1. CASE Resume(w) \/ ResumeUndefined(w)
      BY <1>1, <3>1 DEF Resume, ResumeUndefined, TypeOK
    <3>2. CASE Suspend(w)
      <4>1. handoff' = handoff /\ next' = next /\ pc[w] = "suspend"
        BY <3>2 DEF Suspend
      <4>2. pc' = [pc EXCEPT ![w] = "after"] \/ pc' = [pc EXCEPT ![w] = "spawned"]
        BY <3>2 DEF Suspend
      <4> QED
        BY <1>1, <4>1, <4>2 DEF TypeOK
    <3>3. CASE AfterDone(w) \/ AfterParked(w) \/ AfterRequeue(w)
      BY <1>1, <3>3 DEF AfterDone, AfterParked, AfterRequeue, Complete, PushReady, Release, LoopHead,
            TypeOK
    <3>4. CASE Fin1(w) \/ Fin2(w) \/ RequeuedCount(w) \/ RequeuedStop(w)
      BY <1>1, <3>4 DEF Fin1, Fin2, RequeuedCount, RequeuedStop, LoopHead, TypeOK
    <3>5. CASE SpawnedDone(w) \/ SpawnedCount(w) \/ SpawnedParked(w)
      <4>1. handoff' = handoff /\ next' = next /\ pc[w] \in {"spawned", "spawnedQ"}
        BY <3>5 DEF SpawnedDone, SpawnedCount, SpawnedParked, SpawnedParkedLive, Complete, SpawnReturn
      <4>2. pc' = [pc EXCEPT ![w] = "main"] \/ pc' = [pc EXCEPT ![w] = "exec"]
        BY <3>5 DEF SpawnedDone, SpawnedCount, SpawnedParked, SpawnedParkedLive, SpawnReturn
      <4> QED
        BY <1>1, <4>1, <4>2 DEF TypeOK
    <3>6. CASE SpawnedReady(w)
      BY <1>1, <3>6 DEF SpawnedReady, PushReady, TypeOK
    <3> QED
      BY <2>5, <3>1, <3>2, <3>3, <3>4, <3>5, <3>6 DEF RunOne
  <2>6. CASE Exec(w)
    <3>1. CASE ExecYield(w) \/ ExecAwait(w) \/ ExecReturn(w)
      BY <1>1, <3>1 DEF ExecYield, ExecAwait, ExecReturn, Executing, TypeOK
    <3>2. CASE ExecSpawn(w)
      BY <1>1, <3>2 DEF ExecSpawn, StartRamp, Executing, TypeOK
    <3>3. CASE ExecSend(w) \/ ParkSend(w) \/ ExecRecv(w) \/ ParkRecv(w)
      <4>1. handoff' = handoff /\ next' = next
        BY <3>3 DEF ExecSend, ParkSend, ExecRecv, ParkRecv, ParkRecvLooking, ChannelFrame
      <4>2. /\ pc[w] \in {"exec", "parkSend", "parkRecv"}
            /\ pc'[w] \in {"exec", "parkSend", "parkRecv", "suspend", "wake"}
        BY <1>1, <3>3, TransferFacts DEF Transfer
      <4> QED
        BY <4>1, <4>2
    <3>4. CASE WakeLocal(w) \/ WakeGlobal(w) \/ WokenCount(w)
      <4>1. handoff' = handoff /\ next' = next /\ pc[w] \in {"wake", "woken"}
        BY <3>4 DEF WakeLocal, WakeGlobal, Waking, WokenCount
      <4>2. pc'[w] \in {"wake", "woken", ret[w]}
        BY <1>1, <3>4 DEF WakeLocal, WakeGlobal, WokenCount, TypeOK
      <4> QED
        BY <1>1, <4>1, <4>2
    <3> QED
      BY <1>1, <1>5, <2>6, <3>1, <3>2, <3>3, <3>4, NoCancel DEF Exec
  <2> QED
    BY <2>2, <2>3, <2>4, <2>5, <2>6 DEF Step
<1> QED
  BY <1>2, <1>3, <1>4, <1>5 DEF HandoffKept

-----------------------------------------------------------------------------
(* SCHEDULABLE.                                                              *)
Entries(q) == UNION {{v} \X DOMAIN q[v] : v \in Workers}

\* The entries of one queue more or less.
LEMMA OneQueue ==
    ASSUME NEW q \in [Workers -> Seq(Coros)], NEW r \in [Workers -> Seq(Coros)],
           NEW w \in Workers, \A v \in Workers : v # w => r[v] = q[v],
           IsFiniteSet(Entries(q))
    PROVE  /\ IsFiniteSet(Entries(r))
           /\ Cardinality(Entries(q)) \in Nat /\ Cardinality(Entries(r)) \in Nat
           /\ Cardinality(Entries(r)) + Len(q[w]) = Cardinality(Entries(q)) + Len(r[w])
<1>1. PICK m \in Nat : m = Len(q[w]) /\ DOMAIN q[w] = 1..m
  OBVIOUS
<1>2. PICK n \in Nat : n = Len(r[w]) /\ DOMAIN r[w] = 1..n
  OBVIOUS
<1>3. PICK R : R = UNION {{v} \X DOMAIN q[v] : v \in Workers \ {w}}
  OBVIOUS
<1>4. PICK M : M = {w} \X (1..m)
  OBVIOUS
<1>5. PICK K : K = {w} \X (1..n)
  OBVIOUS
<1>6. Entries(q) = R \cup M
  BY <1>1, <1>3, <1>4 DEF Entries
<1>7. Entries(r) = R \cup K
  <2>1. R = UNION {{v} \X DOMAIN r[v] : v \in Workers \ {w}}
    BY <1>3
  <2> QED
    BY <1>2, <1>5, <2>1 DEF Entries
<1>8. R \cap M = {} /\ R \cap K = {}
  BY <1>3, <1>4, <1>5
<1>9. IsFiniteSet(R)
  <2>1. R \in SUBSET Entries(q)
    BY <1>6
  <2> QED
    BY <2>1, FS_Subset
<1>10. /\ IsFiniteSet(M) /\ Cardinality(M) = m
       /\ IsFiniteSet(K) /\ Cardinality(K) = n
  <2>1. IsFiniteSet({w}) /\ Cardinality({w}) = 1
    BY FS_Singleton
  <2>2. IsFiniteSet(1..m) /\ Cardinality(1..m) = m
    BY FS_Interval
  <2>3. IsFiniteSet(1..n) /\ Cardinality(1..n) = n
    BY FS_Interval
  <2>4. ASSUME NEW A, NEW l \in Nat, A = 1..l, IsFiniteSet(A), Cardinality(A) = l
        PROVE  IsFiniteSet({w} \X A) /\ Cardinality({w} \X A) = l
    <3>1. /\ IsFiniteSet({w} \X A)
          /\ Cardinality({w} \X A) = Cardinality({w}) * Cardinality(A)
      BY <2>1, <2>4, FS_Product, Zenon
    <3>2. 1 * l = l
      OBVIOUS
    <3> QED
      BY <2>1, <2>4, <3>1, <3>2
  <2> QED
    BY <1>4, <1>5, <2>2, <2>3, <2>4
<1>11. Cardinality(R) \in Nat
  BY <1>9, FS_CardinalityType
<1>12. Cardinality({}) = 0
  BY FS_EmptySet
<1>13. ASSUME NEW A, IsFiniteSet(A), NEW l \in Nat, Cardinality(A) = l, R \cap A = {}
       PROVE  IsFiniteSet(R \cup A) /\ Cardinality(R \cup A) = Cardinality(R) + l
  <2>1. /\ IsFiniteSet(R \cup A)
        /\ Cardinality(R \cup A) = Cardinality(R) + Cardinality(A) - Cardinality(R \cap A)
    BY <1>9, <1>13, FS_Union, Zenon
  <2>2. PICK r0 \in Nat : r0 = Cardinality(R)
    BY <1>11
  <2>3. Cardinality(R \cap A) = 0
    BY <1>12, <1>13
  <2> QED
    BY <1>13, <2>1, <2>2, <2>3
<1>14. /\ IsFiniteSet(R \cup M) /\ Cardinality(R \cup M) = Cardinality(R) + m
       /\ IsFiniteSet(R \cup K) /\ Cardinality(R \cup K) = Cardinality(R) + n
  BY <1>8, <1>10, <1>13
<1> QED
  BY <1>1, <1>2, <1>6, <1>7, <1>11, <1>13, <1>14

PushedPcs == {"woken", "requeued", "spawnedQ"}

SchedCount ==
    /\ IsFiniteSet(LocalEntries)
    /\ schedulable = Len(ready) + Cardinality(LocalEntries) + ThreadsAt({"uncount"})
                     - ThreadsAt(PushedPcs)

\* What a step of w does to SCHEDULABLE and to what it counts: r coroutines
\* more in the global queue, l more in the local ones.
Counts(w, s, r, l) ==
    /\ schedulable' = schedulable + s
    /\ Len(ready') = Len(ready) + r
    /\ IsFiniteSet(LocalEntries')
    /\ Cardinality(LocalEntries') = Cardinality(LocalEntries) + l

SchedKept(w) ==
    /\ Counts(w, 0, 0, 0) /\ (pc[w] = "uncount" <=> pc'[w] = "uncount")
    /\ pc[w] \in PushedPcs <=> pc'[w] \in PushedPcs
SchedTaken(w) ==
    Counts(w, -1, -1, 0) /\ {pc[w], pc'[w]} \cap ({"uncount"} \cup PushedPcs) = {}
SchedPopped(w) ==
    /\ Counts(w, 0, 0, -1) /\ pc[w] # "uncount" /\ pc'[w] = "uncount"
    /\ pc[w] \notin PushedPcs
SchedUncounted(w) ==
    /\ Counts(w, -1, 0, 0) /\ pc[w] = "uncount" /\ pc'[w] # "uncount"
    /\ pc'[w] \notin PushedPcs
SchedPushed(w) ==
    /\ Counts(w, 0, 1, 0) \/ Counts(w, 0, 0, 1)
    /\ pc[w] \notin PushedPcs \cup {"uncount"} /\ pc'[w] \in PushedPcs
SchedCounted(w) ==
    /\ Counts(w, 1, 0, 0)
    /\ pc[w] \in PushedPcs /\ pc'[w] \notin PushedPcs \cup {"uncount"}

LEMMA SchedStep ==
    ASSUME SchedCount, TypeOK, TypeOK', NEW w \in Workers, Own(w),
           \/ SchedKept(w) \/ SchedTaken(w) \/ SchedPopped(w)
           \/ SchedUncounted(w) \/ SchedPushed(w) \/ SchedCounted(w)
    PROVE  SchedCount'
<1>1. \A y \in Workers : y # w => pc'[y] = pc[y]
  BY DEF Own
<1>2. PICK u : u = ThreadsAt({"uncount"})
  OBVIOUS
<1>3. PICK v : v = ThreadsAt({"uncount"})'
  OBVIOUS
<1>4. PICK s : s = ThreadsAt(PushedPcs)
  OBVIOUS
<1>5. PICK t : t = ThreadsAt(PushedPcs)'
  OBVIOUS
<1>6. /\ u \in Nat /\ v \in Nat
      /\ (pc[w] = "uncount" <=> pc'[w] = "uncount") => v = u
      /\ pc[w] # "uncount" /\ pc'[w] = "uncount" => v = u + 1
      /\ pc[w] = "uncount" /\ pc'[w] # "uncount" => u = v + 1
  <2>1. PICK P : P = {"uncount"}
    OBVIOUS
  <2>2. u = ThreadsAt(P) /\ v = ThreadsAt(P)'
    BY <1>2, <1>3, <2>1
  <2>3. \A p : p \in P <=> p = "uncount"
    BY <2>1
  <2>4. /\ ThreadsAt(P) \in Nat /\ ThreadsAt(P)' \in Nat
        /\ (pc[w] \in P <=> pc'[w] \in P) => ThreadsAt(P)' = ThreadsAt(P)
        /\ pc[w] \notin P /\ pc'[w] \in P => ThreadsAt(P)' = ThreadsAt(P) + 1
        /\ pc[w] \in P /\ pc'[w] \notin P => ThreadsAt(P) = ThreadsAt(P)' + 1
    BY <1>1, OneThread
  <2> QED
    BY <2>2, <2>3, <2>4
<1>7. /\ s \in Nat /\ t \in Nat
      /\ (pc[w] \in PushedPcs <=> pc'[w] \in PushedPcs) => t = s
      /\ pc[w] \notin PushedPcs /\ pc'[w] \in PushedPcs => t = s + 1
      /\ pc[w] \in PushedPcs /\ pc'[w] \notin PushedPcs => s = t + 1
  <2>1. PICK P : P = PushedPcs
    OBVIOUS
  <2>2. s = ThreadsAt(P) /\ t = ThreadsAt(P)'
    <3>1. PushedPcs' = PushedPcs
      BY DEF PushedPcs
    <3> QED
      BY <1>4, <1>5, <2>1, <3>1
  <2>4. /\ ThreadsAt(P) \in Nat /\ ThreadsAt(P)' \in Nat
        /\ (pc[w] \in P <=> pc'[w] \in P) => ThreadsAt(P)' = ThreadsAt(P)
        /\ pc[w] \notin P /\ pc'[w] \in P => ThreadsAt(P)' = ThreadsAt(P) + 1
        /\ pc[w] \in P /\ pc'[w] \notin P => ThreadsAt(P) = ThreadsAt(P)' + 1
    BY <1>1, OneThread
  <2> QED
    BY <2>1, <2>2, <2>4
<1>8. PICK e : e = Cardinality(LocalEntries)
  OBVIOUS
<1>9. PICK f : f = Cardinality(LocalEntries')
  OBVIOUS
<1>10. e \in Nat
  BY <1>8, FS_CardinalityType DEF SchedCount
<1>11. PICK n \in Nat : n = Len(ready)
  <2>1. ready \in Seq(Coros)
    BY DEF TypeOK
  <2> QED
    BY <2>1
<1>12. PICK m \in Nat : m = Len(ready')
  <2>1. ready' \in Seq(Coros)
    BY DEF TypeOK
  <2> QED
    BY <2>1
<1>13. schedulable = n + e + u - s
  BY <1>2, <1>4, <1>8, <1>11 DEF SchedCount
<1>14. IsFiniteSet(LocalEntries')
  BY DEF Counts, SchedKept, SchedTaken, SchedPopped, SchedUncounted, SchedPushed, SchedCounted
<1>15. "uncount" \notin PushedPcs
  BY DEF PushedPcs
<1>16. schedulable' = m + f + v - t
  <2>n. /\ n \in Int /\ m \in Int /\ e \in Int /\ u \in Int /\ v \in Int /\ s \in Int /\ t \in Int
        /\ schedulable = n + e + u - s
    BY <1>6, <1>7, <1>10, <1>11, <1>12, <1>13
  <2>1. CASE SchedKept(w)
    <3>1. v = u /\ t = s
      BY <1>6, <1>7, <2>1 DEF SchedKept
    <3>2. schedulable' = n + e + u - s + 0 /\ m = n + 0 /\ f = e + 0
      BY <2>1, <1>8, <1>9, <1>11, <1>12, <1>13 DEF SchedKept, Counts
    <3> QED
      BY <2>n, <3>1, <3>2
  <2>2. CASE SchedTaken(w)
    <3>1. v = u /\ t = s
      BY <1>6, <1>7, <2>2 DEF SchedTaken
    <3>2. schedulable' = n + e + u - s + (-1) /\ m = n + (-1) /\ f = e + 0
      BY <2>2, <1>8, <1>9, <1>11, <1>12, <1>13 DEF SchedTaken, Counts
    <3> QED
      BY <2>n, <3>1, <3>2
  <2>3. CASE SchedPopped(w)
    <3>1. v = u + 1 /\ t = s
      BY <1>6, <1>7, <1>15, <2>3 DEF SchedPopped
    <3>2. schedulable' = n + e + u - s + 0 /\ m = n + 0 /\ f = e + (-1)
      BY <2>3, <1>8, <1>9, <1>11, <1>12, <1>13 DEF SchedPopped, Counts
    <3> QED
      BY <2>n, <3>1, <3>2
  <2>4. CASE SchedUncounted(w)
    <3>1. u = v + 1 /\ t = s
      BY <1>6, <1>7, <1>15, <2>4 DEF SchedUncounted
    <3>2. schedulable' = n + e + u - s + (-1) /\ m = n + 0 /\ f = e + 0
      BY <2>4, <1>8, <1>9, <1>11, <1>12, <1>13 DEF SchedUncounted, Counts
    <3> QED
      BY <2>n, <3>1, <3>2
  <2>5. CASE SchedPushed(w)
    <3>1. v = u /\ t = s + 1
      BY <1>6, <1>7, <1>15, <2>5 DEF SchedPushed
    <3>2. \/ schedulable' = n + e + u - s + 0 /\ m = n + 1 /\ f = e + 0
          \/ schedulable' = n + e + u - s + 0 /\ m = n + 0 /\ f = e + 1
      BY <2>5, <1>8, <1>9, <1>11, <1>12, <1>13 DEF SchedPushed, Counts
    <3> QED
      BY <2>n, <3>1, <3>2
  <2>6. CASE SchedCounted(w)
    <3>1. v = u /\ s = t + 1
      BY <1>6, <1>7, <1>15, <2>6 DEF SchedCounted
    <3>2. schedulable' = n + e + u - s + 1 /\ m = n + 0 /\ f = e + 0
      BY <2>6, <1>8, <1>9, <1>11, <1>12, <1>13 DEF SchedCounted, Counts
    <3> QED
      BY <2>n, <3>1, <3>2
  <2> QED
    BY <2>1, <2>2, <2>3, <2>4, <2>5, <2>6
<1>17. ThreadsAt(PushedPcs)' = t /\ PushedPcs' = PushedPcs
  BY <1>5 DEF PushedPcs
<1> QED
  BY <1>3, <1>9, <1>12, <1>14, <1>16, <1>17 DEF SchedCount

\* The queues stay; SCHEDULABLE alone may change.
LEMMA SameQueues ==
    ASSUME SchedCount, TypeOK, NEW w \in Workers, NEW s \in Int, ready' = ready, localq' = localq,
           schedulable' = schedulable + s
    PROVE  Counts(w, s, 0, 0)
<1>1. LocalEntries' = LocalEntries
  BY DEF LocalEntries
<1>2. PICK e : e = Cardinality(LocalEntries)
  OBVIOUS
<1>3. e \in Nat /\ IsFiniteSet(LocalEntries)
  BY <1>2, FS_CardinalityType DEF SchedCount
<1>4. ready \in Seq(Coros)
  BY DEF TypeOK
<1>5. Len(ready') = Len(ready) + 0
  BY <1>4
<1> QED
  BY <1>1, <1>2, <1>3, <1>5 DEF Counts

\* The local queues stay.
LEMMA SameEntries ==
    ASSUME SchedCount, NEW w \in Workers, NEW s \in Int, NEW r \in Int, localq' = localq,
           Len(ready') = Len(ready) + r, schedulable' = schedulable + s
    PROVE  Counts(w, s, r, 0)
<1>1. LocalEntries' = LocalEntries
  BY DEF LocalEntries
<1>2. PICK e : e = Cardinality(LocalEntries)
  OBVIOUS
<1>3. e \in Nat /\ IsFiniteSet(LocalEntries)
  BY <1>2, FS_CardinalityType DEF SchedCount
<1> QED
  BY <1>1, <1>2, <1>3 DEF Counts

\* One local queue changes.
LEMMA QueueChanges ==
    ASSUME SchedCount, TypeOK, TypeOK', NEW w \in Workers, NEW l \in Int,
           schedulable' = schedulable, ready' = ready,
           NEW s \in Seq(Coros), localq' = [localq EXCEPT ![w] = s],
           Len(s) = Len(localq[w]) + l
    PROVE  Counts(w, 0, 0, l)
<1>1. PICK q \in [Workers -> Seq(Coros)] : q = localq
  BY DEF TypeOK
<1>2. PICK r \in [Workers -> Seq(Coros)] : r = localq'
  BY DEF TypeOK
<1>3. r = [q EXCEPT ![w] = s]
  BY <1>1, <1>2
<1>4. r[w] = s /\ \A v \in Workers : v # w => r[v] = q[v]
  BY <1>3
<1>5. LocalEntries = Entries(q) /\ LocalEntries' = Entries(r)
  BY <1>1, <1>2 DEF LocalEntries, Entries
<1>6. /\ IsFiniteSet(Entries(r))
      /\ Cardinality(Entries(q)) \in Nat /\ Cardinality(Entries(r)) \in Nat
      /\ Cardinality(Entries(r)) + Len(q[w]) = Cardinality(Entries(q)) + Len(r[w])
  BY <1>4, <1>5, OneQueue DEF SchedCount
<1>7. PICK m \in Nat : m = Len(q[w])
  OBVIOUS
<1>8. Len(r[w]) = m + l
  BY <1>1, <1>4, <1>7
<1>9. Cardinality(Entries(r)) = Cardinality(Entries(q)) + l
  <2>1. PICK a \in Nat : a = Cardinality(Entries(q))
    BY <1>6
  <2>2. PICK b \in Nat : b = Cardinality(Entries(r))
    BY <1>6
  <2>3. b + m = a + (m + l)
    BY <1>6, <1>7, <1>8, <2>1, <2>2
  <2>4. b = a + l
    BY <2>3
  <2> QED
    BY <2>1, <2>2, <2>4
<1>10. ready \in Seq(Coros) /\ schedulable \in Int
  BY DEF TypeOK
<1>11. Len(ready') = Len(ready) + 0 /\ schedulable' = schedulable + 0
  BY <1>10
<1> QED
  BY <1>5, <1>6, <1>9, <1>11 DEF Counts

\* A steal takes one entry out of the two queues.
LEMMA StealCounts ==
    ASSUME SchedCount, StealInv, TypeOK', NEW w \in Workers, StealMove(w)
    PROVE  Counts(w, 0, 0, -1)
<1>1. /\ TypeOK /\ Victim(w) \in Workers /\ Victim(w) # w /\ localq[Victim(w)] # <<>>
      /\ wid[w] /\ localq[w] = <<>>
  BY VictimType, ThiefIsNotVictim
     DEF StealInv, MineHoldsVictim, StealMove, At, SearchersEmpty
<1>2. PICK v \in Workers : v = Victim(w)
  BY <1>1
<1>3. PICK q \in [Workers -> Seq(Coros)] : q = localq
  BY <1>1 DEF TypeOK
<1>4. PICK r \in [Workers -> Seq(Coros)] : r = localq'
  BY DEF TypeOK
<1>5. PICK s \in Seq(Coros) : s = q[v] /\ s # <<>>
  BY <1>1, <1>2, <1>3
<1>6. PICK n \in Nat \ {0} : n = Len(s)
  BY <1>5
<1>7. PICK half \in Nat \ {0} :
        /\ half <= n
        /\ localq' = [localq EXCEPT ![v] = SubSeq(@, half + 1, Len(@)),
                                    ![w] = @ \o SubSeq(localq[v], 2, half)]
  <2>1. (n + 1) \div 2 \in Nat \ {0} /\ (n + 1) \div 2 <= n
    BY Z3
  <2> QED
    BY <1>2, <1>3, <1>5, <1>6, <2>1 DEF StealMove
<1>8. \A i \in 1..n : s[i] \in Coros
  BY <1>5, <1>6
<1>9. PICK t : t = SubSeq(s, half + 1, n)
  OBVIOUS
<1>10. PICK u : u = SubSeq(s, 2, half)
  OBVIOUS
<1>11. t \in Seq(Coros) /\ Len(t) = n - half
  <2>1. half + 1 \in Int /\ n \in Int /\ \A i \in (half + 1)..n : s[i] \in Coros
    BY <1>8
  <2>2. t \in Seq(Coros) /\ Len(t) = (IF half + 1 <= n THEN n - (half + 1) + 1 ELSE 0)
    BY <1>9, <2>1, SubSeqProperties
  <2> QED
    BY <1>7, <2>2
<1>12. u \in Seq(Coros) /\ Len(u) = half - 1
  <2>1. 2 \in Int /\ half \in Int /\ \A i \in 2..half : s[i] \in Coros
    BY <1>7, <1>8
  <2>2. u \in Seq(Coros) /\ Len(u) = (IF 2 <= half THEN half - 2 + 1 ELSE 0)
    BY <1>10, <2>1, SubSeqProperties
  <2> QED
    BY <2>2
<1>13. r[v] = t /\ r[w] = <<>> \o u /\ \A x \in Workers : x # v /\ x # w => r[x] = q[x]
  BY <1>1, <1>2, <1>3, <1>4, <1>5, <1>6, <1>7, <1>9, <1>10
<1>14. r[w] = u
  BY <1>12, <1>13
<1>15. PICK p : p = [q EXCEPT ![v] = t]
  OBVIOUS
<1>16. p \in [Workers -> Seq(Coros)] /\ p[v] = t /\ \A x \in Workers : x # v => p[x] = q[x]
  BY <1>11, <1>15
<1>17. \A x \in Workers : x # w => r[x] = p[x]
  BY <1>13, <1>16
<1>18. LocalEntries = Entries(q) /\ LocalEntries' = Entries(r)
  BY <1>3, <1>4 DEF LocalEntries, Entries
<1>19. IsFiniteSet(Entries(q))
  BY <1>18 DEF SchedCount
<1>20. /\ IsFiniteSet(Entries(p))
       /\ Cardinality(Entries(q)) \in Nat /\ Cardinality(Entries(p)) \in Nat
       /\ Cardinality(Entries(p)) + Len(q[v]) = Cardinality(Entries(q)) + Len(p[v])
  BY <1>16, <1>19, OneQueue
<1>21. /\ IsFiniteSet(Entries(r)) /\ Cardinality(Entries(r)) \in Nat
       /\ Cardinality(Entries(r)) + Len(p[w]) = Cardinality(Entries(p)) + Len(r[w])
  BY <1>16, <1>17, <1>20, OneQueue
<1>22. Len(p[w]) = 0
  <2>1. p[w] = <<>>
    BY <1>1, <1>2, <1>3, <1>16
  <2> QED
    BY <2>1
<1>23. Cardinality(Entries(r)) = Cardinality(Entries(q)) + (-1)
  <2>1. Cardinality(Entries(p)) + n = Cardinality(Entries(q)) + (n - half)
    BY <1>5, <1>6, <1>11, <1>16, <1>20
  <2>2. Cardinality(Entries(r)) + 0 = Cardinality(Entries(p)) + (half - 1)
    BY <1>12, <1>14, <1>21, <1>22
  <2>3. PICK a \in Nat : a = Cardinality(Entries(q))
    BY <1>20
  <2>4. PICK b \in Nat : b = Cardinality(Entries(p))
    BY <1>20
  <2>5. PICK c \in Nat : c = Cardinality(Entries(r))
    BY <1>21
  <2>6. b + n = a + (n - half) /\ c + 0 = b + (half - 1)
    BY <2>1, <2>2, <2>3, <2>4, <2>5
  <2>7. c = a + (-1)
    BY <2>6
  <2> QED
    BY <2>3, <2>5, <2>7
<1>24. ready \in Seq(Coros) /\ schedulable \in Int
  BY <1>1 DEF TypeOK
<1>25. Len(ready') = Len(ready) + 0 /\ schedulable' = schedulable + 0
  BY <1>24 DEF StealMove, counters
<1> QED
  BY <1>18, <1>21, <1>23, <1>25 DEF Counts

LEMMA RemoveAtLength ==
    ASSUME NEW S, NEW s \in Seq(S), NEW k \in 1..Len(s)
    PROVE  Len(RemoveAt(s, k)) = Len(s) - 1
<1>1. PICK n \in Nat : n = Len(s)
  OBVIOUS
<1>2. k \in 1..n /\ n > 0
  BY <1>1
<1>3. SubSeq(s, 1, k - 1) \in Seq(S) /\ SubSeq(s, k + 1, n) \in Seq(S)
  BY <1>1, <1>2, SubSeqType
<1>4. Len(SubSeq(s, 1, k - 1)) = k - 1 /\ Len(SubSeq(s, k + 1, n)) = n - k
  BY <1>1, <1>2
<1>5. PICK a \in Seq(S), b \in Seq(S) :
        /\ a = SubSeq(s, 1, k - 1) /\ b = SubSeq(s, k + 1, n)
        /\ Len(a) = k - 1 /\ Len(b) = n - k
  BY <1>3, <1>4
<1>6. RemoveAt(s, k) = a \o b
  BY <1>1, <1>5 DEF RemoveAt
<1>7. Len(a \o b) = Len(a) + Len(b)
  OBVIOUS
<1>8. Len(a \o b) = n - 1
  BY <1>2, <1>5, <1>7
<1> QED
  BY <1>1, <1>6, <1>8

LEMMA SchedOf ==
    ASSUME Settled, SchedCount, TypeOK', NEW w \in Workers,
           Step(w) \/ (w = 0 /\ (MainSpawn \/ MainAwait \/ MainEnd))
    PROVE  \/ SchedKept(w) \/ SchedTaken(w) \/ SchedPopped(w)
           \/ SchedUncounted(w) \/ SchedPushed(w) \/ SchedCounted(w)
<1>1. /\ StealInv /\ TypeOK /\ HandShape(w) /\ ThreadShape(w) /\ Regular(prog)
      /\ ret[w] \in {"exec", "suspend"} /\ ready \in Seq(Coros) /\ schedulable \in Int
      /\ localq \in [Workers -> Seq(Coros)]
  BY DEF Settled, ChanInv, StealInv, ShapeInv, TypeOK
<1> USE DEF At, Go, program, queues, counters, flags, coros, shared, waking, search, locals
<1>2. CASE PickLocal(w)
  <2>1. PICK s \in Seq(Coros) : s = localq[w] /\ s # <<>>
    BY <1>1, <1>2 DEF PickLocal
  <2>2. Front(s) \in Seq(Coros) /\ Len(Front(s)) = Len(s) + (-1)
    BY <2>1, LastFront
  <2>3. localq' = [localq EXCEPT ![w] = Front(s)] /\ schedulable' = schedulable /\ ready' = ready
    BY <1>1, <1>2, <2>1 DEF PickLocal
  <2>4. Counts(w, 0, 0, -1)
    <3>1. PICK t \in Seq(Coros) : t = Front(s)
      BY <2>2
    <3>2. PICK l \in Int : l = -1
      OBVIOUS
    <3>3. Len(t) = Len(localq[w]) + l /\ localq' = [localq EXCEPT ![w] = t]
      BY <2>1, <2>2, <2>3, <3>1, <3>2
    <3>4. Counts(w, 0, 0, l)
      BY <1>1, <2>3, <3>3, QueueChanges
    <3> QED
      BY <3>2, <3>4
  <2>5. pc[w] = "pick" /\ pc'[w] = "uncount"
    BY <1>1, <1>2 DEF PickLocal, TypeOK
  <2> QED
    BY <2>4, <2>5 DEF SchedPopped, PushedPcs
<1>3. CASE StealMove(w)
  <2>1. Counts(w, 0, 0, -1)
    BY <1>1, <1>3, StealCounts
  <2>2. pc[w] = "mine" /\ pc'[w] = "uncount"
    BY <1>1, <1>3 DEF StealMove, TypeOK
  <2> QED
    BY <2>1, <2>2 DEF SchedPopped, PushedPcs
<1>4. CASE Uncount(w)
  <2>1. schedulable' = schedulable + (-1) /\ ready' = ready /\ localq' = localq
    BY <1>1, <1>4 DEF Uncount
  <2>2. PICK l \in Int : l = -1
    OBVIOUS
  <2>3. Counts(w, l, 0, 0)
    BY <1>1, <2>1, <2>2, SameQueues
  <2>4. pc[w] = "uncount" /\ pc'[w] = "count"
    BY <1>1, <1>4 DEF Uncount, TypeOK
  <2> QED
    BY <2>2, <2>3, <2>4 DEF SchedUncounted, PushedPcs
<1>5. CASE ScanTake(w)
  <2>1. PICK i \in Due : ready' = RemoveAt(ready, i)
    BY <1>5 DEF ScanTake
  <2>2. i \in 1..Len(ready)
    BY DEF Due
  <2>3. PICK l \in Int : l = -1
    OBVIOUS
  <2>4. Len(ready') = Len(ready) + l
    <3>1. Len(RemoveAt(ready, i)) = Len(ready) - 1
      BY <1>1, <2>2, RemoveAtLength
    <3>2. Len(ready) \in Nat
      BY <1>1
    <3> QED
      BY <2>1, <2>3, <3>1, <3>2
  <2>5. schedulable' = schedulable + l /\ localq' = localq
    BY <1>1, <1>5, <2>3 DEF ScanTake
  <2>6. Counts(w, l, l, 0)
    BY <2>4, <2>5, SameEntries
  <2>7. pc[w] = "scan" /\ pc'[w] = "resume"
    BY <1>1, <1>5 DEF ScanTake, TypeOK
  <2> QED
    BY <2>3, <2>6, <2>7 DEF SchedTaken, PushedPcs
<1>6. CASE WakeLocal(w)
  <2>1. pc[w] = "wake" /\ pc'[w] = "woken"
    BY <1>1, <1>6 DEF WakeLocal, Waking, TypeOK
  <2>2. wakes[w] \in Seq(Coros) /\ wakes[w] # <<>>
    BY <1>1, <2>1 DEF TypeOK, ThreadShape
  <2>3. PICK c \in Coros : c = Head(wakes[w])
    BY <2>2
  <2>4. PICK s \in Seq(Coros) : s = localq[w]
    BY <1>1
  <2>5. PICK t \in Seq(Coros) : t = Append(s, c)
    BY <2>3, <2>4, AppendFacts
  <2>6. Len(t) = Len(localq[w]) + 1 /\ localq' = [localq EXCEPT ![w] = t]
    BY <1>1, <1>6, <2>3, <2>4, <2>5, AppendFacts DEF WakeLocal
  <2>7. schedulable' = schedulable /\ ready' = ready
    BY <1>6 DEF WakeLocal, Waking
  <2>8. Counts(w, 0, 0, 1)
    <3>1. PICK l \in Int : l = 1
      OBVIOUS
    <3>2. Len(t) = Len(localq[w]) + l /\ localq' = [localq EXCEPT ![w] = t]
      BY <2>6, <3>1
    <3>3. Counts(w, 0, 0, l)
      BY <1>1, <2>7, <3>2, QueueChanges
    <3> QED
      BY <3>1, <3>3
  <2> QED
    BY <2>1, <2>8 DEF SchedPushed, PushedPcs
<1>7. CASE WakeGlobal(w)
  <2>1. pc[w] = "wake" /\ pc'[w] = "woken"
    BY <1>1, <1>7 DEF WakeGlobal, Waking, TypeOK
  <2>2. wakes[w] \in Seq(Coros) /\ wakes[w] # <<>>
    BY <1>1, <2>1 DEF TypeOK, ThreadShape
  <2>3. PICK c \in Coros : c = Head(wakes[w])
    BY <2>2
  <2>4. ready' = Append(ready, c) /\ schedulable' = schedulable + 0 /\ localq' = localq
    BY <1>1, <1>7, <2>3 DEF WakeGlobal, Waking
  <2>5. Len(ready') = Len(ready) + 1
    BY <1>1, <2>4
  <2>6. Counts(w, 0, 1, 0)
    BY <2>4, <2>5, SameEntries
  <2> QED
    BY <2>1, <2>6 DEF SchedPushed, PushedPcs
<1>8. CASE AfterRequeue(w) \/ SpawnedReady(w)
  <2>1. pc[w] \in {"after", "spawned"} /\ pc'[w] \in {"requeued", "spawnedQ"}
    BY <1>1, <1>8 DEF AfterRequeue, SpawnedReady, Release, TypeOK
  <2>2. PICK c : ready' = Append(ready, c)
    BY <1>8 DEF AfterRequeue, SpawnedReady, PushReady
  <2>3. schedulable' = schedulable + 0 /\ localq' = localq
    BY <1>1, <1>8 DEF AfterRequeue, SpawnedReady, PushReady
  <2>4. Len(ready') = Len(ready) + 1
    BY <1>1, <2>2
  <2>5. Counts(w, 0, 1, 0)
    BY <2>3, <2>4, SameEntries
  <2> QED
    BY <2>1, <2>5 DEF SchedPushed, PushedPcs
<1>9. CASE WokenCount(w) \/ RequeuedCount(w) \/ SpawnedCount(w)
  <2>1. schedulable' = schedulable + 1 /\ ready' = ready /\ localq' = localq
    BY <1>9 DEF WokenCount, RequeuedCount, SpawnedCount
  <2>2. Counts(w, 1, 0, 0)
    BY <1>1, <2>1, SameQueues
  <2>3. pc[w] \in PushedPcs
    BY <1>9 DEF WokenCount, RequeuedCount, SpawnedCount, PushedPcs
  <2>4. pc'[w] \in {"wake", "exec", "suspend", "running", "main"}
    <3>1. CASE WokenCount(w)
      BY <1>1, <3>1 DEF WokenCount, TypeOK
    <3>2. CASE RequeuedCount(w)
      BY <1>1, <3>2 DEF RequeuedCount, TypeOK
    <3>3. CASE SpawnedCount(w)
      <4>1. pc' = [pc EXCEPT ![w] = "main"] \/ pc' = [pc EXCEPT ![w] = "exec"]
        BY <3>3 DEF SpawnedCount, SpawnReturn
      <4> QED
        BY <1>1, <4>1 DEF TypeOK
    <3> QED
      BY <1>9, <3>1, <3>2, <3>3
  <2> QED
    BY <2>2, <2>3, <2>4 DEF SchedCounted, PushedPcs
<1>10. ASSUME ~PickLocal(w), ~StealMove(w), ~Uncount(w), ~ScanTake(w), ~WakeLocal(w),
              ~WakeGlobal(w), ~AfterRequeue(w), ~SpawnedReady(w), ~WokenCount(w),
              ~RequeuedCount(w), ~SpawnedCount(w)
       PROVE  /\ schedulable' = schedulable /\ ready' = ready /\ localq' = localq
              /\ pc[w] \notin PushedPcs \cup {"uncount"} /\ pc'[w] \notin PushedPcs \cup {"uncount"}
  <2> USE DEF PushedPcs
  <2>2. CASE Pick(w)
    <3>1. CASE PickNext(w) \/ HandoffTaken(w) \/ PickGlobal(w) \/ Count(w)
      <4>1. /\ schedulable' = schedulable /\ ready' = ready /\ localq' = localq
            /\ pc[w] \in {"pick", "handoff", "count"}
        BY <3>1 DEF PickNext, HandoffTaken, PickGlobal, Count
      <4>2. \/ pc' = [pc EXCEPT ![w] = "handoff"] \/ pc' = [pc EXCEPT ![w] = "resume"]
            \/ pc' = [pc EXCEPT ![w] = "scan"] \/ pc' = [pc EXCEPT ![w] = "steal"]
        BY <3>1 DEF PickNext, HandoffTaken, PickGlobal, Count
      <4> QED
        BY <1>1, <4>1, <4>2, PcBecomes
    <3>2. CASE ScanMiss(w) \/ StealSkip(w) \/ StealLock(w) \/ StealMiss(w)
      <4>1. /\ schedulable' = schedulable /\ ready' = ready /\ localq' = localq
            /\ pc[w] \in {"scan", "steal"}
        BY <3>2 DEF ScanMiss, StealSkip, StealLock, Stealing, StealMiss
      <4>2. \/ pc' = pc \/ pc' = [pc EXCEPT ![w] = "steal"] \/ pc' = [pc EXCEPT ![w] = "mine"]
            \/ pc' = [pc EXCEPT ![w] = "timer"] \/ pc' = [pc EXCEPT ![w] = "none"]
        BY <3>2 DEF ScanMiss, StealSkip, StealLock, StealMiss
      <4> QED
        BY <1>1, <4>1, <4>2, PcBecomes
    <3> QED
      BY <1>10, <2>2, <3>1, <3>2 DEF Pick
  <2>3. CASE Idle(w)
    <3>1. CASE LoopTop(w) \/ SyncTop(w) \/ TimerSleep(w) \/ SyncNone(w) \/ IdleLock(w)
      <4>1. /\ schedulable' = schedulable /\ ready' = ready /\ localq' = localq
            /\ pc[w] \in {"top", "sync", "timer", "none"}
        BY <3>1 DEF LoopTop, SyncTop, TimerSleep, SyncNone, IdleLock
      <4>2. \/ pc' = [pc EXCEPT ![w] = "stopped"] \/ pc' = [pc EXCEPT ![w] = "pick"]
            \/ pc' = [pc EXCEPT ![w] = "main"] \/ pc' = [pc EXCEPT ![w] = "top"]
            \/ pc' = [pc EXCEPT ![w] = "sync"] \/ pc' = [pc EXCEPT ![w] = "chkLive"]
        BY <3>1 DEF LoopTop, SyncTop, TimerSleep, SyncNone, IdleLock, LoopHead
      <4> QED
        BY <1>1, <4>1, <4>2, PcBecomes
    <3>2. CASE CheckLive(w) \/ CheckRunning(w) \/ CheckHandoff(w) \/ IdleWait(w)
      <4>1. /\ schedulable' = schedulable /\ ready' = ready /\ localq' = localq
            /\ pc[w] \in {"chkLive", "chkRun", "chkHand", "wait"}
        BY <3>2 DEF CheckLive, CheckRunning, CheckHandoff, IdleWait
      <4>2. \/ pc' = [pc EXCEPT ![w] = "stopped"] \/ pc' = [pc EXCEPT ![w] = "chkRun"]
            \/ pc' = [pc EXCEPT ![w] = "chkHand"] \/ pc' = [pc EXCEPT ![w] = "wait"]
            \/ pc' = [pc EXCEPT ![w] = "top"]
        BY <3>2 DEF CheckLive, CheckRunning, CheckHandoff, IdleWait
      <4> QED
        BY <1>1, <4>1, <4>2, PcBecomes
    <3> QED
      BY <2>3, <3>1, <3>2 DEF Idle
  <2>4. CASE w = 0 /\ (MainSpawn \/ MainAwait \/ MainEnd)
    BY <1>1, <2>4 DEF MainSpawn, MainAwait, MainEnd, MainCalls, StartRamp, TypeOK
  <2>5. CASE RunOne(w)
    <3>1. CASE Resume(w) \/ ResumeUndefined(w)
      BY <1>1, <3>1 DEF Resume, ResumeUndefined, TypeOK
    <3>2. CASE Suspend(w)
      <4>1. /\ schedulable' = schedulable /\ ready' = ready /\ localq' = localq
            /\ pc[w] = "suspend"
        BY <3>2 DEF Suspend
      <4>2. pc' = [pc EXCEPT ![w] = "after"] \/ pc' = [pc EXCEPT ![w] = "spawned"]
        BY <3>2 DEF Suspend
      <4> QED
        BY <1>1, <4>1, <4>2, PcBecomes
    <3>3. CASE AfterDone(w) \/ AfterParked(w)
      BY <1>1, <3>3, SMTT(30) DEF AfterDone, AfterParked, Complete, Release, LoopHead, TypeOK
    <3>4. CASE Fin1(w) \/ Fin2(w) \/ RequeuedStop(w)
      <4>1. /\ schedulable' = schedulable /\ ready' = ready /\ localq' = localq
            /\ pc[w] \in {"fin1", "fin2", "running"}
        BY <3>4 DEF Fin1, Fin2, RequeuedStop
      <4>2. \/ pc' = [pc EXCEPT ![w] = "fin2"] \/ pc' = [pc EXCEPT ![w] = "top"]
            \/ pc' = [pc EXCEPT ![w] = "sync"]
        BY <3>4 DEF Fin1, Fin2, RequeuedStop, LoopHead
      <4> QED
        BY <1>1, <4>1, <4>2, PcBecomes
    <3>5. CASE SpawnedDone(w) \/ SpawnedParked(w)
      <4>1. /\ schedulable' = schedulable /\ ready' = ready /\ localq' = localq
            /\ pc[w] = "spawned"
        BY <3>5 DEF SpawnedDone, SpawnedParked, SpawnedParkedLive, Complete
      <4>2. pc' = [pc EXCEPT ![w] = "main"] \/ pc' = [pc EXCEPT ![w] = "exec"]
        BY <3>5 DEF SpawnedDone, SpawnedParked, SpawnedParkedLive, SpawnReturn
      <4> QED
        BY <1>1, <4>1, <4>2, PcBecomes
    <3> QED
      BY <1>10, <2>5, <3>1, <3>2, <3>3, <3>4, <3>5 DEF RunOne
  <2>6. CASE Exec(w)
    <3>1. CASE ExecYield(w) \/ ExecAwait(w) \/ ExecReturn(w)
      BY <1>1, <3>1 DEF ExecYield, ExecAwait, ExecReturn, Executing, TypeOK
    <3>2. CASE ExecSpawn(w)
      BY <1>1, <3>2 DEF ExecSpawn, StartRamp, Executing, TypeOK
    <3>3. CASE ExecSend(w) \/ ParkSend(w) \/ ExecRecv(w) \/ ParkRecv(w)
      <4>1. schedulable' = schedulable /\ ready' = ready /\ localq' = localq
        BY <3>3 DEF ExecSend, ParkSend, ExecRecv, ParkRecv, ParkRecvLooking, ChannelFrame
      <4>2. /\ pc[w] \in {"exec", "parkSend", "parkRecv"}
            /\ pc'[w] \in {"exec", "parkSend", "parkRecv", "suspend", "wake"}
        BY <1>1, <3>3, TransferFacts DEF Transfer
      <4> QED
        BY <4>1, <4>2
    <3>4. CASE WakeNext(w)
      <4>1. /\ schedulable' = schedulable /\ ready' = ready /\ localq' = localq
            /\ pc[w] = "wake"
        BY <3>4 DEF WakeNext, Waking
      <4>2. pc'[w] \in {"wake", "exec", "suspend"}
        BY <1>1, <3>4 DEF WakeNext, TypeOK
      <4> QED
        BY <4>1, <4>2
    <3> QED
      BY <1>1, <1>10, <2>6, <3>1, <3>2, <3>3, <3>4, NoCancel DEF Exec
  <2> QED
    BY <2>2, <2>3, <2>4, <2>5, <2>6 DEF Step
<1>11. ASSUME ~PickLocal(w), ~StealMove(w), ~Uncount(w), ~ScanTake(w), ~WakeLocal(w),
              ~WakeGlobal(w), ~AfterRequeue(w), ~SpawnedReady(w), ~WokenCount(w),
              ~RequeuedCount(w), ~SpawnedCount(w)
       PROVE  SchedKept(w)
  <2>1. schedulable' = schedulable + 0 /\ ready' = ready /\ localq' = localq
    BY <1>1, <1>10, <1>11
  <2>2. Counts(w, 0, 0, 0)
    BY <1>1, <2>1, SameQueues
  <2> QED
    BY <1>10, <1>11, <2>2 DEF SchedKept
<1> QED
  BY <1>2, <1>3, <1>4, <1>5, <1>6, <1>7, <1>8, <1>9, <1>11

-----------------------------------------------------------------------------
(* The three counters beside LIVE.                                           *)
CounterInv ==
    /\ RunningCount /\ SchedCount
    /\ ~deadlock => HandoffCount

LEMMA StepCounted ==
    ASSUME CounterInv, Settled, ShapeInv, TypeOK', NEW w \in Workers, Own(w),
           Step(w) \/ (w = 0 /\ (MainSpawn \/ MainAwait \/ MainEnd))
    PROVE  CounterInv'
<1>1. RunningCount'
  BY RunningOf, RunningStep DEF CounterInv
<1>2. SchedCount'
  <2>1. TypeOK
    BY DEF Settled, ChanInv, StealInv
  <2>2. \/ SchedKept(w) \/ SchedTaken(w) \/ SchedPopped(w)
        \/ SchedUncounted(w) \/ SchedPushed(w) \/ SchedCounted(w)
    BY SchedOf DEF CounterInv
  <2> QED
    BY <2>1, <2>2, SchedStep DEF CounterInv
<1>3. ~deadlock' => HandoffCount'
  <2>1. deadlock => deadlock'
    BY DEF Own
  <2>2. HandoffCount => HandoffCount'
    BY HandoffOf, HandoffStep
  <2> QED
    BY <2>1, <2>2 DEF CounterInv
<1> QED
  BY <1>1, <1>2, <1>3 DEF CounterInv

\* No thread is in the middle of an update, before and after.
LEMMA NothingCounted ==
    ASSUME RunningCount, SchedCount,
           \A v \in Workers : Counted(v)' <=> Counted(v),
           \A v \in Workers : pc[v] \in PushedPcs \cup {"uncount"} \/ pc'[v] \in PushedPcs \cup {"uncount"}
                                => pc'[v] = pc[v],
           ready' = ready, localq' = localq, running' = running, schedulable' = schedulable
    PROVE  RunningCount' /\ SchedCount'
<1>1. {v \in Workers : Counted(v)'} = {v \in Workers : Counted(v)}
  OBVIOUS
<1>2. {v \in Workers : pc'[v] \in {"uncount"}} = {v \in Workers : pc[v] \in {"uncount"}}
  OBVIOUS
<1>3. {v \in Workers : pc'[v] \in PushedPcs} = {v \in Workers : pc[v] \in PushedPcs}
  OBVIOUS
<1>4. LocalEntries' = LocalEntries
  BY DEF LocalEntries
<1>5. RunningCount'
  BY <1>1 DEF RunningCount
<1>6. ThreadsAt({"uncount"})' = ThreadsAt({"uncount"}) /\ ThreadsAt(PushedPcs)' = ThreadsAt(PushedPcs)
  BY <1>2, <1>3 DEF ThreadsAt, PushedPcs
<1> QED
  BY <1>4, <1>5, <1>6 DEF SchedCount

LEMMA NothingHanded ==
    ASSUME HandoffCount, handoff' = handoff,
           \A v \in Workers : next'[v] # None <=> next[v] # None,
           \A v \in Workers : pc'[v] = "handoff" <=> pc[v] = "handoff"
    PROVE  HandoffCount'
<1>1. {v \in Workers : next'[v] # None} = {v \in Workers : next[v] # None}
  OBVIOUS
<1>2. {v \in Workers : pc'[v] \in {"handoff"}} = {v \in Workers : pc[v] \in {"handoff"}}
  OBVIOUS
<1> QED
  BY <1>1, <1>2 DEF HandoffCount, ThreadsAt

LEMMA WorkersCounted ==
    ASSUME CounterInv, PlacesInv, ChanInv, ShapeInv, Regular(prog), MainRun \/ MainJoin
    PROVE  CounterInv'
<1>1. /\ \A w \in Workers : /\ pc[w] \in {"main", "off", "stopped"}
                            /\ pc'[w] \in {"main", "off", "top"}
                            /\ cur[w] = None
      /\ cur' = cur /\ (deadlock => deadlock')
  BY WorkersShape
<1>2. \A v \in Workers : Counted(v)' <=> Counted(v)
  BY <1>1 DEF Counted
<1>3. \A v \in Workers : pc[v] \notin PushedPcs \cup {"uncount"} /\ pc'[v] \notin PushedPcs \cup {"uncount"}
  BY <1>1 DEF PushedPcs
<1>4. UNCHANGED <<ready, localq, running, schedulable, handoff>>
  BY DEF MainRun, MainJoin, queues, counters
<1>5. RunningCount' /\ SchedCount'
  BY <1>2, <1>3, <1>4, NothingCounted DEF CounterInv
<1>6. ASSUME ~deadlock' PROVE HandoffCount'
  <2>1. ~deadlock
    BY <1>1, <1>6
  <2>2. \A v \in Workers : next'[v] # None <=> next[v] # None
    <3>1. CASE MainRun
      BY <3>1 DEF MainRun
    <3>2. CASE MainJoin
      <4>1. \A c \in Coros : ~Alive(c)
        BY <2>1, <3>2, ZeroIsWorker
           DEF ShapeInv, RunOnly, HandShape, MainJoin, At, RunPcs, PlacesInv, Finished
      <4>2. \A c : ~Somewhere(lists, c)
        BY <4>1 DEF PlacesInv, Placed
      <4>3. \A v \in Workers : next[v] = None
        <5> SUFFICES ASSUME NEW v \in Workers, next[v] # None PROVE FALSE
          OBVIOUS
        <5>1. PICK p : p = <<"next", v>>
          OBVIOUS
        <5>2. p \in Places
          BY <5>1 DEF Places
        <5>3. lists[p] = <<next[v]>>
          BY <5>1, <5>2, ListIs
        <5>4. Listed(lists[p], next[v])
          BY <5>3 DEF Listed
        <5> QED
          BY <4>2, <5>2, <5>4 DEF Somewhere
      <4> QED
        BY <3>2, <4>3 DEF MainJoin
    <3> QED
      BY <3>1, <3>2
  <2>3. \A v \in Workers : pc'[v] = "handoff" <=> pc[v] = "handoff"
    BY <1>1
  <2> QED
    BY <1>4, <2>1, <2>2, <2>3, NothingHanded DEF CounterInv
<1> QED
  BY <1>5, <1>6 DEF CounterInv

LEMMA StillCounted ==
    ASSUME CounterInv,
           UNCHANGED <<ready, localq, next, cur, pc, deadlock, running, schedulable, handoff>>
    PROVE  CounterInv'
<1>1. \A v \in Workers : Counted(v)' <=> Counted(v)
  BY DEF Counted
<1>2. RunningCount' /\ SchedCount'
  BY <1>1, NothingCounted DEF CounterInv
<1>3. ~deadlock' => HandoffCount'
  BY NothingHanded DEF CounterInv
<1> QED
  BY <1>2, <1>3 DEF CounterInv

LEMMA NextCounted ==
    ASSUME ChanInv, ChanInv', ShapeInv, Regular(prog), PlacesInv, CounterInv, [Next]_vars
    PROVE  CounterInv'
<1>1. Settled /\ TypeOK' /\ \A v \in Workers : HandShape(v)
  BY PlacesSettled DEF ChanInv, StealInv, ShapeInv
<1>2. ASSUME NEW w \in Workers, Step(w) \/ (w = 0 /\ (MainSpawn \/ MainAwait \/ MainEnd))
      PROVE  CounterInv'
  <2>1. Own(w)
    BY <1>1, <1>2, StepOwn DEF ShapeInv
  <2> QED
    BY <1>1, <1>2, <2>1, StepCounted
<1>3. CASE MainRun \/ MainJoin
  BY <1>3, WorkersCounted
<1>4. ASSUME NEW c \in Coros, TimePasses(c) PROVE CounterInv'
  BY <1>4, StillCounted DEF TimePasses, queues, counters, flags, locals, waking
<1>5. CASE UNCHANGED vars
  BY <1>5, StillCounted DEF vars, shared, queues, counters, flags, coros, locals, waking
<1> QED
  BY <1>2, <1>3, <1>4, <1>5, ZeroIsWorker DEF Next, Main, Terminated

LEMMA InitCounted == Init => CounterInv
<1> SUFFICES ASSUME Init PROVE CounterInv
  OBVIOUS
<1>1. {w \in Workers : Counted(w)} = {}
  BY DEF Init, Counted
<1>2. {w \in Workers : next[w] # None} = {} /\ {w \in Workers : pc[w] \in {"handoff"}} = {}
  BY DEF Init
<1>3. {w \in Workers : pc[w] \in {"uncount"}} = {} /\ {w \in Workers : pc[w] \in PushedPcs} = {}
  BY DEF Init, PushedPcs
<1>4. LocalEntries = {}
  <2>1. \A v \in Workers : DOMAIN localq[v] = {}
    BY EmptyDomain DEF Init
  <2> QED
    BY <2>1 DEF LocalEntries
<1>5. Cardinality({}) = 0 /\ IsFiniteSet({})
  BY FS_EmptySet
<1>6. running = 0 /\ handoff = 0 /\ schedulable = 0 /\ Len(ready) = 0
  BY DEF Init
<1>7. RunningCount
  BY <1>1, <1>5, <1>6 DEF RunningCount
<1>8. HandoffCount
  <2>1. ThreadsAt({"handoff"}) = 0
    BY <1>2, <1>5 DEF ThreadsAt
  <2>2. Cardinality({w \in Workers : next[w] # None}) = 0
    BY <1>2, <1>5
  <2>3. handoff = 0 + 0
    BY <1>6
  <2> QED
    BY <2>1, <2>2, <2>3 DEF HandoffCount
<1>9. SchedCount
  <2>1. ThreadsAt({"uncount"}) = 0 /\ ThreadsAt(PushedPcs) = 0
    BY <1>3, <1>5 DEF ThreadsAt
  <2> QED
    BY <1>4, <1>5, <1>6, <2>1 DEF SchedCount
<1> QED
  BY <1>7, <1>8, <1>9 DEF CounterInv

-----------------------------------------------------------------------------
SchedInv == ChanInv /\ (Regular(prog) => ShapeInv /\ PlacesInv /\ CounterInv)

\* The shapes, the places and the four counters hold in every program that is
\* regular, the channels in every program.
THEOREM SchedInvariant == Spec => []SchedInv
<1>1. Init => SchedInv
  BY InitChanInv, InitShape, InitPlaces, InitCounted DEF SchedInv
<1>2. SchedInv /\ [Next]_vars => SchedInv'
  <2> SUFFICES ASSUME SchedInv, [Next]_vars PROVE SchedInv'
    OBVIOUS
  <2>1. ChanInv /\ ChanInv'
    BY NextChan DEF SchedInv
  <2>2. prog' = prog
    BY SameProgram
  <2>3. CASE Regular(prog)
    BY <2>1, <2>2, <2>3, NextShape, NextPlaces, NextCounted DEF SchedInv
  <2>4. CASE ~Regular(prog)
    <3>1. ~Regular(prog)'
      BY <2>2, <2>4 DEF Regular, NeverCancels, RunsOnce, RampsNeverPark, SpawnedInside
    <3> QED
      BY <2>1, <3>1 DEF SchedInv
  <2> QED
    BY <2>3, <2>4
<1> QED
  BY <1>1, <1>2, PTL DEF Spec
LEMMA OneSpot ==
    ASSUME Apart(lists), NEW c \in Coros, Somewhere(lists, c)
    PROVE  Cardinality(Spots(c)) = 1
<1>0. PICK p \in Places : Listed(lists[p], c)
  BY DEF Somewhere
<1>1. PICK i \in DOMAIN lists[p] : lists[p][i] = c
  BY <1>0 DEF Listed
<1>2. \A q \in Places : lists[q] = Content(q)
  BY DEF lists
<1>3. ASSUME NEW q \in Places, NEW j \in DOMAIN lists[q], lists[q][j] = c
      PROVE  q = p /\ j = i
  <2>1. q = p
    BY <1>1, <1>3 DEF Apart, Listed
  <2>2. j = i
    BY <1>1, <1>3, <2>1 DEF Apart, Distinct
  <2> QED
    BY <2>1, <2>2
<1>4. <<p, i>> \in Spots(c)
  BY <1>1, <1>2 DEF Spots
<1>5. ASSUME NEW s \in Spots(c) PROVE s = <<p, i>>
  <2>1. PICK q \in Places : s \in {q} \X {j \in DOMAIN Content(q) : Content(q)[j] = c}
    BY DEF Spots
  <2>2. s = <<q, s[2]>> /\ s[2] \in DOMAIN lists[q] /\ lists[q][s[2]] = c
    BY <1>2, <2>1
  <2> QED
    BY <1>3, <2>2
<1>6. Spots(c) = {<<p, i>>}
  BY <1>4, <1>5
<1> QED
  BY <1>6, FS_Singleton

\* In a regular program every live coroutine is in exactly one place until a
\* dead-lock is announced: nothing is lost between the queues, the NEXT
\* slots, the waiter lists, the pending wake-ups and the workers' hands.
THEOREM OnePlaceEach == Spec => [](Regular(prog) => ExactlyOnePlace)
<1>1. SchedInv => (Regular(prog) => ExactlyOnePlace)
  <2> SUFFICES ASSUME SchedInv, Regular(prog), ~deadlock, NEW c \in Coros, Alive(c)
               PROVE  Cardinality(Spots(c)) = 1
    BY DEF ExactlyOnePlace
  <2>1. Apart(lists) /\ Somewhere(lists, c)
    BY DEF SchedInv, PlacesInv, Placed
  <2> QED
    BY <2>1, OneSpot
<1> QED
  BY <1>1, SchedInvariant, PTL

\* In a regular program run_all returns without a dead-lock only when no
\* coroutine is left alive.
THEOREM StopsOnlyWhenDone == Spec => [](Regular(prog) => StopsWhenDone)
<1>1. SchedInv => (Regular(prog) => StopsWhenDone)
  BY ZeroIsWorker DEF SchedInv, ShapeInv, RunOnly, HandShape, RunPcs, PlacesInv, Finished,
     StopsWhenDone, At
<1> QED
  BY <1>1, SchedInvariant, PTL

\* In a regular program LIVE, RUNNING, SCHEDULABLE and HANDOFF say what the
\* frames, the threads, the queues and the NEXT slots say, up to the update
\* each thread is about to make, until a dead-lock is announced.
THEOREM CountersTellTheTruth == Spec => [](Regular(prog) => CountersAgree)
<1>1. SchedInv => (Regular(prog) => CountersAgree)
  BY DEF SchedInv, PlacesInv, LiveCount, CounterInv, RunningCount, HandoffCount, SchedCount,
         CountersAgree, AliveSet, Leaving, PushedPcs
<1> QED
  BY <1>1, SchedInvariant, PTL

-----------------------------------------------------------------------------
(* The dead-lock of a single worker.                                         *)
Checks == {"chkLive", "chkRun", "chkHand"}

\* Every coroutine left waits on a channel, and there is one.
AllWait ==
    /\ \E c \in Coros : Alive(c)
    /\ \A c \in Coros : Alive(c) => Parked(c)

\* A worker that is alone finds what it has checked unchanged.
SoloInv ==
    /\ pc[0] \in Checks => schedulable = 0
    /\ pc[0] \in {"chkRun", "chkHand"} => live > 0
    /\ deadlock /\ wid[0] => pc[0] = "stopped" /\ AllWait

\* Who announces a dead-lock, and who goes on checking.
LEMMA ChecksLeft ==
    ASSUME Settled, NEW w \in Workers,
           Step(w) \/ (w = 0 /\ (MainSpawn \/ MainAwait \/ MainEnd)),
           ~IdleLock(w), ~CheckLive(w), ~CheckRunning(w), ~CheckHandoff(w)
    PROVE  deadlock' = deadlock /\ pc'[w] \notin Checks
<1>1. /\ StealInv /\ TypeOK /\ HandShape(w) /\ ThreadShape(w) /\ Regular(prog)
      /\ ret[w] \in {"exec", "suspend"}
  BY DEF Settled, ChanInv, StealInv, ShapeInv, TypeOK
<1> USE DEF Checks, At, Go, program, queues, counters, flags, coros, shared, waking, search, locals
<1>2. CASE Pick(w)
  <2>1. CASE PickNext(w) \/ HandoffTaken(w) \/ PickLocal(w) \/ PickGlobal(w) \/ Uncount(w)
    BY <1>1, <2>1 DEF PickNext, HandoffTaken, PickLocal, PickGlobal, Uncount, TypeOK
  <2>2. CASE Count(w) \/ ScanTake(w) \/ ScanMiss(w) \/ StealSkip(w)
    BY <1>1, <2>2 DEF Count, ScanTake, ScanMiss, StealSkip, Stealing, TypeOK
  <2>3. CASE StealLock(w) \/ StealMove(w) \/ StealMiss(w)
    BY <1>1, <2>3 DEF StealLock, Stealing, StealMove, StealMiss, TypeOK
  <2> QED
    BY <1>2, <2>1, <2>2, <2>3 DEF Pick
<1>3. CASE Idle(w)
  BY <1>1, <1>3 DEF Idle, LoopTop, SyncTop, TimerSleep, SyncNone, IdleWait, LoopHead, TypeOK
<1>4. CASE w = 0 /\ (MainSpawn \/ MainAwait \/ MainEnd)
  BY <1>1, <1>4 DEF MainSpawn, MainAwait, MainEnd, MainCalls, StartRamp, TypeOK
<1>5. CASE RunOne(w)
  <2>1. CASE Resume(w) \/ ResumeUndefined(w)
    BY <1>1, <2>1 DEF Resume, ResumeUndefined, TypeOK
  <2>2. CASE Suspend(w)
    <3>1. deadlock' = deadlock
      BY <2>2 DEF Suspend
    <3>2. pc' = [pc EXCEPT ![w] = "after"] \/ pc' = [pc EXCEPT ![w] = "spawned"]
      BY <2>2 DEF Suspend
    <3> QED
      BY <1>1, <3>1, <3>2 DEF TypeOK
  <2>3. CASE AfterDone(w) \/ AfterParked(w) \/ AfterRequeue(w)
    BY <1>1, <2>3 DEF AfterDone, AfterParked, AfterRequeue, Complete, PushReady, Release, LoopHead,
          TypeOK
  <2>4. CASE Fin1(w) \/ Fin2(w) \/ RequeuedCount(w) \/ RequeuedStop(w)
    BY <1>1, <2>4 DEF Fin1, Fin2, RequeuedCount, RequeuedStop, LoopHead, TypeOK
  <2>5. CASE SpawnedDone(w) \/ SpawnedCount(w) \/ SpawnedParked(w)
    <3>1. deadlock' = deadlock
      BY <2>5 DEF SpawnedDone, SpawnedCount, SpawnedParked, SpawnedParkedLive, Complete
    <3>2. pc' = [pc EXCEPT ![w] = "main"] \/ pc' = [pc EXCEPT ![w] = "exec"]
      BY <2>5 DEF SpawnedDone, SpawnedCount, SpawnedParked, SpawnedParkedLive, SpawnReturn
    <3> QED
      BY <1>1, <3>1, <3>2 DEF TypeOK
  <2>6. CASE SpawnedReady(w)
    BY <1>1, <2>6 DEF SpawnedReady, PushReady, TypeOK
  <2> QED
    BY <1>5, <2>1, <2>2, <2>3, <2>4, <2>5, <2>6 DEF RunOne
<1>6. CASE Exec(w)
  <2>1. CASE ExecYield(w) \/ ExecAwait(w) \/ ExecReturn(w)
    BY <1>1, <2>1 DEF ExecYield, ExecAwait, ExecReturn, Executing, TypeOK
  <2>2. CASE ExecSpawn(w)
    BY <1>1, <2>2 DEF ExecSpawn, StartRamp, Executing, TypeOK
  <2>3. CASE ExecSend(w) \/ ParkSend(w) \/ ExecRecv(w) \/ ParkRecv(w)
    <3>1. deadlock' = deadlock
      BY <2>3 DEF ExecSend, ParkSend, ExecRecv, ParkRecv, ParkRecvLooking, ChannelFrame
    <3>2. pc'[w] \in {"exec", "parkSend", "parkRecv", "suspend", "wake"}
      BY <1>1, <2>3, TransferFacts DEF Transfer
    <3> QED
      BY <3>1, <3>2
  <2>4. CASE WakeNext(w) \/ WakeLocal(w) \/ WakeGlobal(w) \/ WokenCount(w)
    <3>1. deadlock' = deadlock
      BY <2>4 DEF WakeNext, WakeLocal, WakeGlobal, Waking, WokenCount
    <3>2. pc'[w] \in {"wake", "woken", ret[w]}
      BY <1>1, <2>4 DEF WakeNext, WakeLocal, WakeGlobal, WokenCount, TypeOK
    <3> QED
      BY <1>1, <3>1, <3>2
  <2> QED
    BY <1>1, <1>6, <2>1, <2>2, <2>3, <2>4, NoCancel DEF Exec
<1> QED
  BY <1>2, <1>3, <1>4, <1>5, <1>6 DEF Step

\* A worker that has stopped makes no step.
LEMMA StoppedStays ==
    ASSUME NEW w \in Workers, pc[w] = "stopped"
    PROVE  ~Step(w) /\ (w = 0 => ~(MainSpawn \/ MainAwait \/ MainEnd))
<1> USE DEF At, Executing, Stealing, Waking, Cancelling, MainCalls
<1>1. ~Pick(w)
  BY DEF Pick, PickNext, HandoffTaken, PickLocal, PickGlobal, Uncount, Count, ScanTake, ScanMiss,
         StealSkip, StealLock, StealMove, StealMiss
<1>2. ~Idle(w)
  BY DEF Idle, LoopTop, SyncTop, TimerSleep, SyncNone, IdleLock, CheckLive, CheckRunning,
         CheckHandoff, IdleWait
<1>3. ~RunOne(w)
  BY DEF RunOne, Resume, ResumeUndefined, Suspend, AfterDone, Fin1, Fin2, AfterParked,
         AfterRequeue, RequeuedCount, RequeuedStop, SpawnedDone, SpawnedParked, SpawnedParkedLive,
         SpawnedReady, SpawnedCount
<1>4. ~Exec(w)
  <2>1. ~(ExecYield(w) \/ ExecAwait(w) \/ ExecReturn(w) \/ ExecSpawn(w))
    BY DEF ExecYield, ExecAwait, ExecReturn, ExecSpawn
  <2>2. ~(ExecSend(w) \/ ParkSend(w) \/ ExecRecv(w) \/ ParkRecv(w))
    BY DEF ExecSend, ParkSend, ExecRecv, ParkRecv, ParkRecvLooking
  <2>3. ~(WakeNext(w) \/ WakeLocal(w) \/ WakeGlobal(w) \/ WokenCount(w))
    BY DEF WakeNext, WakeLocal, WakeGlobal, WokenCount
  <2>4. ~(CancelNothing(w) \/ CancelDequeue(w) \/ CancelDestroy(w) \/ CancelUncount(w))
    BY DEF CancelNothing, CancelDequeue, CancelDequeueCounting, CancelDestroy, CancelUncount
  <2> QED
    BY <2>1, <2>2, <2>3, <2>4 DEF Exec
<1>5. w = 0 => ~(MainSpawn \/ MainAwait \/ MainEnd)
  BY DEF MainSpawn, MainAwait, MainEnd
<1> QED
  BY <1>1, <1>2, <1>3, <1>4, <1>5 DEF Step

\* c is in one of the waiter lists.
AtChannel(c) ==
    \E k \in Channels : Listed(chan[k].rwait, c) \/ Listed(SendersOf(chan[k].swait), c)

LEMMA ParkedIs ==
    ASSUME NEW c
    PROVE  Parked(c) <=> AtChannel(c)
<1> USE DEF AtChannel
<1>1. ASSUME Parked(c)
      PROVE  \E k \in Channels : Listed(chan[k].rwait, c) \/ Listed(SendersOf(chan[k].swait), c)
  <2>1. PICK s \in Spots(c) : s[1][1] \in {"rwait", "swait"}
    BY <1>1 DEF Parked
  <2>2. PICK p \in Places : s \in {p} \X {i \in DOMAIN Content(p) : Content(p)[i] = c}
    BY DEF Spots
  <2>3. s[1] = p /\ s[2] \in DOMAIN Content(p) /\ Content(p)[s[2]] = c
    BY <2>2
  <2>4. Listed(lists[p], c)
    BY <2>3 DEF Listed, lists
  <2>5. PICK k \in Channels : p = <<"rwait", k>> \/ p = <<"swait", k>>
    BY <2>1, <2>3 DEF Places
  <2> QED
    BY <2>4, <2>5, ListIs
<1>2. ASSUME NEW k \in Channels, NEW p, p = <<"rwait", k>> \/ p = <<"swait", k>>,
             Listed(lists[p], c)
      PROVE  Parked(c)
  <2>1. p \in Places /\ p[1] \in {"rwait", "swait"}
    BY <1>2 DEF Places
  <2>2. PICK i \in DOMAIN lists[p] : lists[p][i] = c
    BY <1>2 DEF Listed
  <2>3. lists[p] = Content(p)
    BY <2>1 DEF lists
  <2>4. <<p, i>> \in Spots(c)
    BY <2>1, <2>2, <2>3 DEF Spots
  <2>5. <<p, i>>[1][1] \in {"rwait", "swait"}
    BY <2>1
  <2> QED
    BY <2>4, <2>5 DEF Parked
<1>3. ASSUME NEW k \in Channels, Listed(chan[k].rwait, c) \/ Listed(SendersOf(chan[k].swait), c)
      PROVE  Parked(c)
  <2>1. PICK p : p = <<"rwait", k>>
    OBVIOUS
  <2>2. PICK q : q = <<"swait", k>>
    OBVIOUS
  <2>3. lists[p] = chan[k].rwait /\ lists[q] = SendersOf(chan[k].swait)
    BY <2>1, <2>2, ListIs
  <2> QED
    BY <1>2, <1>3, <2>1, <2>2, <2>3
<1> QED
  BY <1>1, <1>3

LEMMA AllWaitStays ==
    ASSUME AllWait, StillAlive, chan' = chan
    PROVE  AllWait'
<1>1. ASSUME NEW c \in Coros PROVE Parked(c)' <=> Parked(c)
  <2>1. (Parked(c) <=> AtChannel(c))'
    BY ParkedIs, PTL
  <2>2. AtChannel(c)' <=> AtChannel(c)
    BY DEF AtChannel
  <2> QED
    BY <2>1, <2>2, ParkedIs
<1> QED
  BY <1>1 DEF AllWait, StillAlive

\* What is left when the queues, the NEXT slots and the hands are empty.
LEMMA OnlyParkedLeft ==
    ASSUME N = 1, SchedInv, Regular(prog), pc[0] = "chkHand", ~deadlock,
           schedulable = 0, handoff = 0, live > 0
    PROVE  AllWait
<1>1. Workers = {0}
  BY DEF Workers
<1>2. /\ TypeOK /\ HandShape(0) /\ Placed /\ LiveCount /\ HandoffCount /\ SchedCount
      /\ ready \in Seq(Coros) /\ localq[0] \in Seq(Coros)
  BY <1>1 DEF SchedInv, ChanInv, StealInv, TypeOK, ShapeInv, PlacesInv, CounterInv
<1>3. ASSUME NEW P, "chkHand" \notin P PROVE ThreadsAt(P) = 0
  <2>1. {w \in Workers : pc[w] \in P} = {}
    BY <1>1, <1>3
  <2> QED
    BY <2>1, FS_EmptySet DEF ThreadsAt
<1>4. /\ ThreadsAt({"uncount"}) = 0 /\ ThreadsAt(PushedPcs) = 0
      /\ ThreadsAt(Leaving) = 0 /\ ThreadsAt({"handoff"}) = 0
  BY <1>3 DEF PushedPcs, Leaving
<1>5. ready = <<>> /\ LocalEntries = {}
  <2>1. PICK n \in Nat : n = Len(ready)
    BY <1>2
  <2>2. PICK e \in Nat : e = Cardinality(LocalEntries)
    BY <1>2, FS_CardinalityType DEF SchedCount
  <2>3. n + e = 0
    BY <1>2, <1>4, <2>1, <2>2 DEF SchedCount
  <2>4. n = 0 /\ e = 0
    BY <2>3
  <2>5. ready = <<>>
    <3>1. PICK s \in Seq(Coros) : s = ready
      BY <1>2
    <3>2. Len(s) = 0
      BY <2>1, <2>4, <3>1
    <3> QED
      BY <3>1, <3>2
  <2>6. IsFiniteSet(LocalEntries)
    BY <1>2 DEF SchedCount
  <2> QED
    BY <2>2, <2>4, <2>5, <2>6, FS_EmptySet
<1>6. localq[0] = <<>>
  <2>1. \A i : i \notin DOMAIN localq[0]
    <3> SUFFICES ASSUME NEW i \in DOMAIN localq[0] PROVE FALSE
      OBVIOUS
    <3>1. <<0, i>> \in LocalEntries
      BY <1>1 DEF LocalEntries
    <3> QED
      BY <1>5, <3>1
  <2>2. PICK s \in Seq(Coros) : s = localq[0]
    BY <1>2
  <2>3. s # <<>> => 1 \in DOMAIN s
    OBVIOUS
  <2> QED
    BY <2>1, <2>2, <2>3
<1>7. next[0] = None
  <2>1. PICK A \in SUBSET Workers : A = {w \in Workers : next[w] # None}
    OBVIOUS
  <2>2. IsFiniteSet(A)
    BY WorkersFinite, FS_Subset
  <2>3. PICK a \in Nat : a = Cardinality(A)
    BY <2>2, FS_CardinalityType
  <2>4. a + 0 = 0
    BY <1>2, <1>4, <2>1, <2>3 DEF HandoffCount
  <2>5. A = {}
    BY <2>2, <2>3, <2>4, FS_EmptySet
  <2> QED
    BY <1>1, <2>1, <2>5
<1>8. cur[0] = None /\ wakes[0] = <<>>
  BY <1>2 DEF HandShape, IdlePcs
<1>9. ASSUME NEW c, Somewhere(lists, c) PROVE Parked(c)
  <2>1. PICK p \in Places : Listed(lists[p], c)
    BY <1>9 DEF Somewhere
  <2>2. lists[p] # <<>>
    BY <2>1, EmptyDomain DEF Listed
  <2>3. CASE p = <<"ready", 0>>
    BY <1>5, <2>2, <2>3, ListIs
  <2>4. ASSUME NEW v \in Workers, p = <<"local", v>> \/ p = <<"wakes", v>> PROVE FALSE
    BY <1>1, <1>6, <1>8, <2>2, <2>4, ListIs
  <2>5. ASSUME NEW v \in Workers, p = <<"next", v>> PROVE FALSE
    <3>1. lists[p] = IF next[v] = None THEN <<>> ELSE <<next[v]>>
      BY <2>5, ListIs
    <3> QED
      BY <1>1, <1>7, <2>2, <3>1
  <2>6. ASSUME NEW v \in Workers, p = <<"held", v>> PROVE FALSE
    <3>1. lists[p] = IF Holds(v) THEN <<cur[v]>> ELSE <<>>
      BY <2>6, ListIs
    <3>2. ~Holds(v)
      BY <1>1, <1>8 DEF Holds
    <3> QED
      BY <2>2, <3>1, <3>2
  <2>7. ASSUME NEW k \in Channels, p = <<"rwait", k>> \/ p = <<"swait", k>> PROVE Parked(c)
    BY <2>1, <2>7, ListIs, ParkedIs DEF AtChannel
  <2> QED
    BY <2>3, <2>4, <2>5, <2>6, <2>7, PlaceCases
<1>10. \E c \in Coros : Alive(c)
  <2>1. PICK a \in Nat : a = Cardinality(AliveSet)
    BY <1>2, FS_CardinalityType DEF LiveCount
  <2>2. live = a + 0
    BY <1>2, <1>4, <2>1 DEF LiveCount
  <2>3. AliveSet # {}
    <3>1. a # 0
      BY <2>2
    <3>2. Cardinality({}) = 0
      BY FS_EmptySet
    <3> QED
      BY <2>1, <3>1, <3>2
  <2> QED
    BY <2>3 DEF AliveSet
<1> QED
  BY <1>2, <1>9, <1>10 DEF AllWait, Placed

LEMMA StepSolo ==
    ASSUME N = 1, SchedInv, Regular(prog), SoloInv, NEW w \in Workers,
           Step(w) \/ (w = 0 /\ (MainSpawn \/ MainAwait \/ MainEnd))
    PROVE  SoloInv'
<1>1. w = 0 /\ 0 \in Workers
  BY DEF Workers
<1>2. /\ Settled /\ TypeOK /\ HandShape(0) /\ ChanInv /\ ShapeInv
      /\ pc \in [Workers -> PCs] /\ live \in Int /\ confirm[0] \in Nat
  BY <1>1, PlacesSettled DEF SchedInv, ChanInv, StealInv, TypeOK, ShapeInv
<1>3. Own(0) /\ wid' = wid
  BY <1>1, <1>2, StepOwn DEF ShapeInv, Own
<1>4. ~(deadlock /\ wid[0])
  BY <1>1, StoppedStays DEF SoloInv
<1> USE DEF At, Go, Checks, counters
<1>5. CASE IdleLock(0)
  <2>1. deadlock' = deadlock /\ schedulable' = schedulable
    BY <1>5 DEF IdleLock, flags
  <2>2. (pc' = [pc EXCEPT ![0] = "chkLive"] /\ schedulable = 0) \/ pc' = [pc EXCEPT ![0] = "top"]
    BY <1>5 DEF IdleLock
  <2> QED
    BY <1>1, <1>2, <1>3, <1>4, <2>1, <2>2 DEF SoloInv
<1>6. CASE CheckLive(0)
  <2>1. deadlock' = deadlock /\ schedulable' = schedulable /\ schedulable = 0 /\ live' = live
    BY <1>6 DEF CheckLive, SoloInv
  <2>2. (pc' = [pc EXCEPT ![0] = "chkRun"] /\ ~(live <= 0)) \/ pc' = [pc EXCEPT ![0] = "stopped"]
    BY <1>6 DEF CheckLive
  <2> QED
    BY <1>1, <1>2, <1>3, <1>4, <2>1, <2>2 DEF SoloInv
<1>7. CASE CheckRunning(0)
  <2>1. /\ deadlock' = deadlock /\ schedulable' = schedulable /\ schedulable = 0
        /\ live' = live /\ live > 0
    BY <1>7 DEF CheckRunning, SoloInv, flags
  <2>2. pc' = [pc EXCEPT ![0] = "chkHand"] \/ pc' = [pc EXCEPT ![0] = "wait"]
    BY <1>7 DEF CheckRunning
  <2> QED
    BY <1>1, <1>2, <1>3, <1>4, <2>1, <2>2 DEF SoloInv
<1>8. CASE CheckHandoff(0)
  <2>1. pc[0] = "chkHand" /\ schedulable = 0 /\ live > 0 /\ pc'[0] \in {"stopped", "wait"}
    BY <1>1, <1>2, <1>8 DEF CheckHandoff, SoloInv
  <2>2. ASSUME deadlock', wid'[0] PROVE pc'[0] = "stopped" /\ AllWait'
    <3>1. ~deadlock
      BY <1>3, <1>4, <2>2
    <3>2. (IF handoff = 0 THEN confirm[0] + 1 ELSE 0) >= 2
      BY <1>8, <2>2, <3>1 DEF CheckHandoff, ConfirmLimit
    <3>3. handoff = 0
      BY <3>2
    <3>4. AllWait
      BY <2>1, <3>1, <3>3, OnlyParkedLeft
    <3>5. pc'[0] = "stopped"
      BY <1>1, <1>2, <1>8, <3>2 DEF CheckHandoff, ConfirmLimit
    <3>6. Steady(0)
      BY <1>1, <1>2, <1>3, <1>8, SteadyIdle DEF Idle
    <3>7. chan' = chan
      BY <1>8 DEF CheckHandoff
    <3> QED
      BY <3>4, <3>5, <3>6, <3>7, AllWaitStays DEF Steady
  <2> QED
    BY <2>1, <2>2 DEF SoloInv
<1>9. CASE ~IdleLock(0) /\ ~CheckLive(0) /\ ~CheckRunning(0) /\ ~CheckHandoff(0)
  <2>1. deadlock' = deadlock /\ pc'[0] \notin Checks
    BY <1>1, <1>2, <1>9, ChecksLeft
  <2> QED
    BY <1>3, <1>4, <2>1 DEF SoloInv
<1> QED
  BY <1>5, <1>6, <1>7, <1>8, <1>9

LEMMA NextSolo ==
    ASSUME N = 1, SchedInv, Regular(prog), SoloInv, [Next]_vars
    PROVE  SoloInv'
<1>1. ASSUME NEW w \in Workers, Step(w) \/ (w = 0 /\ (MainSpawn \/ MainAwait \/ MainEnd))
      PROVE  SoloInv'
  BY <1>1, StepSolo
<1>2. CASE MainRun \/ MainJoin
  <2>1. pc'[0] \in {"main", "off", "top"}
    BY <1>2, ZeroIsWorker, WorkersShape DEF SchedInv
  <2>2. ~deadlock' \/ ~wid'[0]
    BY <1>2, ZeroIsWorker DEF MainRun, MainJoin
  <2> QED
    BY <2>1, <2>2 DEF SoloInv, Checks
<1>3. ASSUME UNCHANGED <<pc, wid, deadlock, schedulable, live, chan>>, StillAlive
      PROVE  SoloInv'
  BY <1>3, AllWaitStays DEF SoloInv
<1>4. ASSUME NEW c \in Coros, TimePasses(c) PROVE SoloInv'
  <2>1. StillAlive
    BY <1>4, StillPlaced DEF SchedInv, PlacesInv, TimePasses, queues, flags, locals, waking
  <2> QED
    BY <1>3, <1>4, <2>1 DEF TimePasses, flags, counters, locals
<1>5. CASE UNCHANGED vars
  <2>1. StillAlive
    BY <1>5, StillPlaced DEF SchedInv, PlacesInv, vars, shared, queues, flags, coros, locals, waking
  <2> QED
    BY <1>3, <1>5, <2>1 DEF vars, shared, flags, counters, locals
<1> QED
  BY <1>1, <1>2, <1>4, <1>5, ZeroIsWorker DEF Next, Main, Terminated

\* With one worker no dead-lock is announced in error: in a regular program
\* every live coroutine is then parked on a channel, and there is one.  (With
\* two the counters are read one after the other while the other worker
\* moves; see the run that finds it.)
THEOREM OneWorkerDeadlocksAreReal ==
    N = 1 => (Spec => [](Regular(prog) => DeadlockIsReal))
<1> SUFFICES ASSUME N = 1 PROVE Spec => [](Regular(prog) => DeadlockIsReal)
  OBVIOUS
<1> DEFINE Inv == SchedInv /\ (Regular(prog) => SoloInv)
<1>1. Init => (Regular(prog) => SoloInv)
  BY ZeroIsWorker DEF Init, SoloInv, Checks
<1>2. SchedInv /\ (Regular(prog) => SoloInv) /\ [Next]_vars => (Regular(prog) => SoloInv)'
  <2> SUFFICES ASSUME SchedInv, Regular(prog) => SoloInv, [Next]_vars
               PROVE  (Regular(prog) => SoloInv)'
    OBVIOUS
  <2>1. prog' = prog
    BY SameProgram
  <2>2. CASE Regular(prog)
    BY <2>2, NextSolo
  <2>3. CASE ~Regular(prog)
    <3>1. ~Regular(prog)'
      BY <2>1, <2>3 DEF Regular, NeverCancels, RunsOnce, RampsNeverPark, SpawnedInside
    <3> QED
      BY <3>1
  <2> QED
    BY <2>2, <2>3
<1>3. (Regular(prog) => SoloInv) => (Regular(prog) => DeadlockIsReal)
  BY DEF SoloInv, AllWait, DeadlockIsReal
<1> QED
  BY <1>1, <1>2, <1>3, SchedInvariant, PTL DEF Spec

-----------------------------------------------------------------------------
(* No lost wake-up.                                                          *)

\* The coroutine is at a receive from k that it has not completed.
Receives(c, k) ==
    /\ Current(c).op = "recv" /\ Current(c).ch = k
    /\ frame[c] \in {"suspended", "executing"}

Coming(k) == {c \in Coros : EnRoute(c, k)}

Begun == {c \in Coros : frame[c] # "none"}

\* Who waits at a channel waits for what it receives, and so will the ramp
\* that the main thread is about to register there.
Waiters == \A k \in Channels : \A c \in Coros : Listed(chan[k].rwait, c) => Receives(c, k)

RecvIntent ==
    \A w \in Workers : intent[w].kind = "recv" =>
        Receives(Running(w), intent[w].ch) /\ chan[intent[w].ch].buf = <<>>

WaitInv == IsFiniteSet(Begun) /\ Waiters /\ RecvIntent /\ NoLostWakeup

LEMMA NoOccurrence ==
    ASSUME NEW S, NEW s \in Seq(S), NEW c
    PROVE  Occurrences(s, c) = 0 <=> ~Listed(s, c)
<1> DEFINE I == {i \in DOMAIN s : s[i] = c}
<1>1. DOMAIN s = 1..Len(s) /\ Len(s) \in Nat
  OBVIOUS
<1>2. IsFiniteSet(1..Len(s))
  BY <1>1, FS_Interval
<1>3. I \in SUBSET (1..Len(s))
  BY <1>1
<1>4. IsFiniteSet(I)
  BY <1>2, <1>3, FS_Subset
<1>5. Cardinality(I) = 0 <=> I = {}
  BY <1>4, FS_EmptySet
<1> QED
  BY <1>5 DEF Occurrences, Listed

LEMMA EnRouteIs ==
    ASSUME TypeOK, NEW c \in Coros, NEW k \in Channels
    PROVE  EnRoute(c, k) <=> Receives(c, k) /\ ~Listed(chan[k].rwait, c)
<1>1. chan[k].rwait \in Seq(Coros)
  BY ChannelParts
<1> QED
  BY <1>1, NoOccurrence DEF EnRoute, Receives

LEMMA EnRouteIsNext ==
    ASSUME TypeOK', NEW c \in Coros, NEW k \in Channels
    PROVE  EnRoute(c, k)' <=> Receives(c, k)' /\ ~Listed(chan'[k].rwait, c)
<1>1. (TypeOK => (EnRoute(c, k) <=> Receives(c, k) /\ ~Listed(chan[k].rwait, c)))'
  BY EnRouteIs, PTL
<1> QED
  BY <1>1

LEMMA ComingFinite ==
    ASSUME IsFiniteSet(Begun), NEW k
    PROVE  IsFiniteSet(Coming(k)) /\ Cardinality(Coming(k)) \in Nat
<1>1. Coming(k) \in SUBSET Begun
  BY DEF Coming, Begun, EnRoute
<1> QED
  BY <1>1, FS_Subset, FS_CardinalityType

\* A bound on one set bounds another that lacks at most t and has h besides.
LEMMA StillBounded ==
    ASSUME NEW E, NEW F, IsFiniteSet(E), IsFiniteSet(F), NEW n \in Nat, n <= Cardinality(E)
    PROVE  /\ E \subseteq F => n <= Cardinality(F)
           /\ \A h \in F : h \notin E /\ E \subseteq F => n + 1 <= Cardinality(F)
           /\ \A t : E \ {t} \subseteq F => n - 1 <= Cardinality(F)
           /\ \A t : \A h \in F : h \notin E /\ E \ {t} \subseteq F => n <= Cardinality(F)
<1>1. PICK e \in Nat : e = Cardinality(E)
  BY FS_CardinalityType
<1>2. PICK f \in Nat : f = Cardinality(F)
  BY FS_CardinalityType
<1>3. ASSUME NEW D, D \in SUBSET F PROVE IsFiniteSet(D) /\ Cardinality(D) \in Nat /\ Cardinality(D) <= f
  BY <1>2, <1>3, FS_Subset, FS_CardinalityType
<1>4. ASSUME E \subseteq F PROVE n <= Cardinality(F)
  <2>1. e <= f
    BY <1>1, <1>3, <1>4
  <2> QED
    BY <1>1, <1>2, <2>1
<1>5. ASSUME NEW h \in F, h \notin E, E \subseteq F PROVE n + 1 <= Cardinality(F)
  <2>1. Cardinality(E \cup {h}) = e + 1
    BY <1>1, <1>5, FS_AddElement
  <2>2. e + 1 <= f
    BY <1>3, <1>5, <2>1
  <2> QED
    BY <1>1, <1>2, <2>2
<1>6. ASSUME NEW t PROVE IsFiniteSet(E \ {t}) /\ e - 1 <= Cardinality(E \ {t})
  BY <1>1, FS_RemoveElement
<1>7. ASSUME NEW t, E \ {t} \subseteq F PROVE n - 1 <= Cardinality(F)
  <2>1. PICK d \in Nat : d = Cardinality(E \ {t})
    BY <1>6, FS_CardinalityType
  <2>2. d <= f /\ e - 1 <= d
    BY <1>3, <1>6, <1>7, <2>1
  <2> QED
    BY <1>1, <1>2, <2>2
<1>8. ASSUME NEW t, NEW h \in F, h \notin E, E \ {t} \subseteq F PROVE n <= Cardinality(F)
  <2>1. PICK d \in Nat : d = Cardinality(E \ {t})
    BY <1>6, FS_CardinalityType
  <2>2. Cardinality((E \ {t}) \cup {h}) = d + 1
    BY <1>6, <1>8, <2>1, FS_AddElement
  <2>3. d + 1 <= f /\ e - 1 <= d
    BY <1>3, <1>6, <1>8, <2>1, <2>2
  <2> QED
    BY <1>1, <1>2, <2>3
<1> QED
  BY <1>4, <1>5, <1>7, <1>8

\* The coroutine whose body a thread executes waits nowhere.
LEMMA WorkingNotWaiting ==
    ASSUME StealInv, Placed, NEW w \in Workers, HandShape(w), pc[w] = "exec"
    PROVE  \A k \in Channels : ~Listed(chan[k].rwait, Running(w))
<1> SUFFICES ASSUME NEW k \in Channels, Listed(chan[k].rwait, Running(w)) PROVE FALSE
  OBVIOUS
<1>1. TypeOK
  BY DEF StealInv
<1>2. PICK b : b = <<"rwait", k>>
  OBVIOUS
<1>3. b \in Places /\ Listed(lists[b], Running(w))
  BY <1>2, PlaceTypes, ListIs
<1>4. Alive(Running(w))
  BY <1>3 DEF Placed, Somewhere
<1>5. stack[w] \in Seq(Coros) /\ stack[w] # <<>> /\ Running(w) = stack[w][Len(stack[w])]
  BY TopTouched DEF OnTop
<1>6. Len(stack[w]) \in DOMAIN stack[w]
  BY <1>5, LenPositive
<1>7. ~RampAt(w, Len(stack[w]))
  BY <1>4, <1>5, <1>6 DEF Alive, InRamp
<1>8. cur[w] # None /\ (Len(stack[w]) > 1 => FALSE)
  BY <1>6, <1>7 DEF RampAt, At
<1>9. Len(stack[w]) = 1
  <2>1. PICK n : n = Len(stack[w])
    OBVIOUS
  <2>2. n \in Nat /\ n # 0
    <3>1. PICK s \in Seq(Coros) : s = stack[w] /\ s # <<>>
      BY <1>5
    <3>2. Len(s) \in Nat /\ Len(s) # 0
      BY <3>1
    <3> QED
      BY <2>1, <3>1, <3>2
  <2>3. n > 1 => FALSE
    BY <1>8, <2>1
  <2>4. n = 1
    BY <2>2, <2>3
  <2> QED
    BY <2>1, <2>4
<1>10. Running(w) = cur[w] /\ Holds(w)
  BY <1>5, <1>8, <1>9 DEF HandShape, Holds, Fetching
<1>11. PICK a : a = <<"held", w>>
  OBVIOUS
<1>12. a \in Places /\ a # b /\ lists[a] = <<cur[w]>>
  BY <1>2, <1>10, <1>11, PlaceTypes, ListIs
<1>13. Listed(lists[a], cur[w])
  BY <1>12, SingleFacts
<1> QED
  BY <1>3, <1>10, <1>12, <1>13, Elsewhere DEF Placed

\* A step changes one frame at most, and no coroutine leaves a receive but
\* by completing it.
FrameChanges ==
    \/ frame' = frame
    \/ \E x : /\ \A d \in Coros : d # x => frame'[d] = frame[d]
              /\ \/ frame[x] \in {"none", "final"} \/ frame'[x] \in {"suspended", "executing"}
                 \/ Current(x).op = "return"

BodyMoves(w) ==
    \/ ip' = ip
    \/ /\ \A d \in Coros : d # Running(w) => ip'[d] = ip[d]
       /\ Current(Running(w)).op # "recv" \/ ExecRecv(w)

LEMMA AdvanceMoves ==
    ASSUME TypeOK, NEW w \in Workers, ip' = ip \/ Advance(w),
           Current(Running(w)).op # "recv" \/ ExecRecv(w)
    PROVE  BodyMoves(w)
<1>1. CASE Advance(w)
  <2>1. \A d \in Coros : d # Running(w) => ip'[d] = ip[d]
    BY <1>1 DEF Advance, TypeOK
  <2> QED
    BY <2>1 DEF BodyMoves
<1> QED
  BY <1>1 DEF BodyMoves

LEMMA StepChanges ==
    ASSUME Settled, NEW w \in Workers,
           Step(w) \/ (w = 0 /\ (MainSpawn \/ MainAwait \/ MainEnd))
    PROVE  FrameChanges /\ BodyMoves(w)
<1>1. StealInv /\ TypeOK /\ HandShape(w) /\ Regular(prog)
  BY DEF Settled, ChanInv, StealInv, ShapeInv
<1>2. CASE \/ Pick(w) \/ Idle(w) \/ ResumeUndefined(w) \/ Fin1(w) \/ Fin2(w) \/ AfterParked(w)
           \/ AfterRequeue(w) \/ RequeuedCount(w) \/ RequeuedStop(w)
           \/ (w = 0 /\ (MainAwait \/ MainEnd))
  BY <1>1, <1>2, OutsideKept DEF FrameChanges, BodyMoves
<1>3. CASE ExecYield(w) \/ ExecAwait(w) \/ ExecSend(w) \/ ParkSend(w) \/ ExecRecv(w)
  <2>1. frame' = frame /\ (ip' = ip \/ Advance(w))
    BY <1>3 DEF ExecYield, ExecAwait, ExecSend, ParkSend, ExecRecv, ChannelFrame
  <2>2. Current(Running(w)).op # "recv" \/ ExecRecv(w)
    BY <1>3 DEF ExecYield, ExecAwait, ExecSend, ParkSend, Executing
  <2> QED
    BY <1>1, <2>1, <2>2, AdvanceMoves DEF FrameChanges
<1>4. CASE ParkRecv(w) \/ WakeNext(w) \/ WakeLocal(w) \/ WakeGlobal(w) \/ WokenCount(w)
  <2>1. UNCHANGED <<frame, ip>>
    BY <1>4 DEF ParkRecv, ParkRecvLooking, ChannelFrame, WakeNext, WakeLocal, WakeGlobal, Waking,
                WokenCount, coros
  <2> QED
    BY <2>1 DEF FrameChanges, BodyMoves
<1>5. CASE ExecReturn(w)
  <2>1. /\ ip' = ip /\ frame' = [frame EXCEPT ![Running(w)] = "final"]
        /\ Current(Running(w)).op = "return"
    BY <1>5 DEF ExecReturn, Executing
  <2>2. \A d \in Coros : d # Running(w) => frame'[d] = frame[d]
    BY <1>1, <2>1 DEF TypeOK
  <2> QED
    BY <2>1, <2>2 DEF FrameChanges, BodyMoves
<1>6. ASSUME NEW x, StartRamp(w, x) PROVE FrameChanges
  <2>1. frame[x] = "none" /\ frame' = [frame EXCEPT ![x] = "executing"]
    BY <1>6 DEF StartRamp
  <2>2. \A d \in Coros : d # x => frame'[d] = frame[d]
    BY <1>1, <2>1 DEF TypeOK
  <2> QED
    BY <2>1, <2>2 DEF FrameChanges
<1>7. CASE ExecSpawn(w)
  <2>1. Advance(w) /\ Current(Running(w)).op # "recv" /\ StartRamp(w, Current(Running(w)).co)
    BY <1>7 DEF ExecSpawn, Executing
  <2> QED
    BY <1>1, <1>6, <2>1, AdvanceMoves
<1>8. CASE w = 0 /\ MainSpawn
  <2>1. ip' = ip /\ StartRamp(w, prog.main[mainIp].co)
    BY <1>8 DEF MainSpawn
  <2> QED
    BY <1>6, <2>1 DEF BodyMoves
<1>9. CASE Resume(w)
  <2>1. ip' = ip /\ frame' = [frame EXCEPT ![cur[w]] = "executing"] /\ cur[w] \in Coros
    BY <1>1, <1>9 DEF Resume, StealInv, ThreadShape, TypeOK, At, Fetching
  <2>2. frame'[cur[w]] = "executing" /\ \A d \in Coros : d # cur[w] => frame'[d] = frame[d]
    BY <1>1, <2>1 DEF TypeOK
  <2> QED
    BY <2>1, <2>2 DEF FrameChanges, BodyMoves
<1>10. CASE Suspend(w)
  <2>1. ip' = ip /\ Running(w) \in Coros
    BY <1>1, <1>10, TopTouched DEF Suspend, At
  <2>2. frame' = [frame EXCEPT ![Running(w)] = IF @ = "final" THEN @ ELSE "suspended"]
    BY <1>10 DEF Suspend
  <2>3. /\ frame[Running(w)] = "final" \/ frame'[Running(w)] = "suspended"
        /\ \A d \in Coros : d # Running(w) => frame'[d] = frame[d]
    BY <1>1, <2>1, <2>2 DEF TypeOK
  <2> QED
    BY <2>1, <2>3 DEF FrameChanges, BodyMoves
<1>11. ASSUME NEW x, Complete(x) PROVE FrameChanges /\ BodyMoves(w)
  <2>1. ip' = ip /\ frame[x] = "final" /\ frame' = [frame EXCEPT ![x] = "destroyed"]
    BY <1>11 DEF Complete
  <2>2. \A d \in Coros : d # x => frame'[d] = frame[d]
    BY <1>1, <2>1 DEF TypeOK
  <2> QED
    BY <2>1, <2>2 DEF FrameChanges, BodyMoves
<1>12. CASE AfterDone(w) \/ SpawnedDone(w)
  BY <1>11, <1>12 DEF AfterDone, SpawnedDone
<1>13. CASE SpawnedParked(w) \/ SpawnedReady(w) \/ SpawnedCount(w)
  <2>1. UNCHANGED <<frame, ip>>
    BY <1>13 DEF SpawnedParked, SpawnedParkedLive, SpawnedReady, PushReady, SpawnedCount, coros
  <2> QED
    BY <2>1 DEF FrameChanges, BodyMoves
<1> QED
  BY <1>1, <1>2, <1>3, <1>4, <1>5, <1>7, <1>8, <1>9, <1>10, <1>12, <1>13, NoCancel
     DEF Step, Exec, RunOne

LEMMA ReceivingGoesOn ==
    ASSUME prog' = prog, FrameChanges, NEW w \in Workers, BodyMoves(w),
           NEW c \in Coros, NEW k, Receives(c, k), ~ExecRecv(w) \/ c # Running(w)
    PROVE  Receives(c, k)'
<1>1. ip'[c] = ip[c]
  BY DEF BodyMoves, Receives
<1>2. Current(c)' = Current(c)
  BY <1>1 DEF Current
<1>3. frame'[c] \in {"suspended", "executing"}
  <2>1. CASE frame' = frame
    BY <2>1 DEF Receives
  <2>2. ASSUME NEW x, \A d \in Coros : d # x => frame'[d] = frame[d],
               \/ frame[x] \in {"none", "final"} \/ frame'[x] \in {"suspended", "executing"}
               \/ Current(x).op = "return"
        PROVE  frame'[c] \in {"suspended", "executing"}
    BY <2>2 DEF Receives
  <2> QED
    BY <2>1, <2>2 DEF FrameChanges
<1> QED
  BY <1>2, <1>3 DEF Receives

LEMMA BegunFinite ==
    ASSUME FrameChanges, IsFiniteSet(Begun)
    PROVE  IsFiniteSet(Begun')
<1>1. CASE frame' = frame
  BY <1>1 DEF Begun
<1>2. ASSUME NEW x, \A d \in Coros : d # x => frame'[d] = frame[d] PROVE IsFiniteSet(Begun')
  <2>1. IsFiniteSet(Begun \cup {x})
    BY FS_AddElement
  <2>2. Begun' \in SUBSET (Begun \cup {x})
    BY <1>2 DEF Begun
  <2> QED
    BY <2>1, <2>2, FS_Subset
<1> QED
  BY <1>1, <1>2 DEF FrameChanges

\* NoLostWakeup for one channel.
Served(k) == chan[k].rwait # <<>> => Len(chan[k].buf) <= Cardinality(Coming(k))

LEMMA FrontServed ==
    ASSUME NEW s \in Seq(Coros), Distinct(s)
    PROVE  /\ \A d : Listed(Rest(s), d) => Listed(s, d)
           /\ Rest(s) # <<>> => /\ s # <<>> /\ Head(s) \in Coros /\ Listed(s, Head(s))
                                /\ ~Listed(Rest(s), Head(s))
<1>1. CASE s = <<>>
  BY <1>1 DEF Rest
<1>2. CASE s # <<>>
  <2>1. Rest(s) = Tail(s) /\ Head(s) \in Coros
    BY <1>2 DEF Rest
  <2>2. Loses(s, Tail(s), Head(s))
    BY <1>2, TailLoses
  <2> QED
    BY <1>2, <2>1, <2>2 DEF Loses
<1> QED
  BY <1>1, <1>2

LEMMA ComingIs ==
    ASSUME TypeOK, TypeOK', NEW c \in Coros, NEW k \in Channels
    PROVE  /\ c \in Coming(k) <=> Receives(c, k) /\ ~Listed(chan[k].rwait, c)
           /\ c \in Coming(k)' <=> Receives(c, k)' /\ ~Listed(chan'[k].rwait, c)
  BY EnRouteIs, EnRouteIsNext DEF Coming

LEMMA LengthIs ==
    ASSUME TypeOK, NEW k \in Channels
    PROVE  chan[k].buf \in Seq(Values) /\ Len(chan[k].buf) \in Nat
<1>1. chan[k].buf \in Seq(Values)
  BY ChannelParts DEF ChanType
<1> QED
  BY <1>1

\* Nothing happens to the channel.
LEMMA StillServed ==
    ASSUME TypeOK, TypeOK', IsFiniteSet(Begun), IsFiniteSet(Begun'), NEW k \in Channels, Served(k),
           chan'[k].rwait = chan[k].rwait, chan'[k].buf = chan[k].buf,
           \A c \in Coros : Receives(c, k) => Receives(c, k)'
    PROVE  Served(k)'
<1>1. IsFiniteSet(Coming(k)) /\ IsFiniteSet(Coming(k)')
  <2>1. (IsFiniteSet(Begun) => IsFiniteSet(Coming(k)))'
    BY ComingFinite, PTL
  <2> QED
    BY <2>1, ComingFinite
<1>2. Coming(k) \subseteq Coming(k)'
  <2>1. \A c \in Coming(k) : c \in Coros
    BY DEF Coming
  <2> QED
    BY <2>1, ComingIs
<1>3. PICK n \in Nat : n = Len(chan[k].buf)
  BY LengthIs
<1> QED
  BY <1>1, <1>2, <1>3, StillBounded DEF Served

\* A value is sent: the first waiter is on its way.
LEMMA SentServed ==
    ASSUME TypeOK, TypeOK', IsFiniteSet(Begun), IsFiniteSet(Begun'), NEW k \in Channels, Served(k),
           NEW v \in Values, chan'[k] = Pushed(chan[k], v), Distinct(chan[k].rwait), Waiters,
           \A c \in Coros : Receives(c, k) => Receives(c, k)'
    PROVE  Served(k)' /\ \A c : Listed(chan'[k].rwait, c) => Listed(chan[k].rwait, c)
<1> DEFINE s == chan[k].rwait
<1>1. s \in Seq(Coros) /\ chan[k] \in ChanType(Coros, Values) /\ chan[k].buf \in Seq(Values)
  BY ChannelParts, LengthIs
<1>2. chan'[k].rwait = Rest(s) /\ chan'[k].buf = Append(chan[k].buf, v)
  BY <1>1 DEF Pushed, ChanType
<1>3. \A d : Listed(Rest(s), d) => Listed(s, d)
  BY <1>1, FrontServed
<1>4. ASSUME Rest(s) # <<>> PROVE Served(k)'
  <2>1. s # <<>> /\ Head(s) \in Coros /\ Listed(s, Head(s)) /\ ~Listed(Rest(s), Head(s))
    BY <1>1, <1>4, FrontServed
  <2>2. IsFiniteSet(Coming(k)) /\ IsFiniteSet(Coming(k)')
    <3>1. (IsFiniteSet(Begun) => IsFiniteSet(Coming(k)))'
      BY ComingFinite, PTL
    <3> QED
      BY <3>1, ComingFinite
  <2>3. Coming(k) \subseteq Coming(k)'
    <3>1. \A c \in Coming(k) : c \in Coros
      BY DEF Coming
    <3> QED
      BY <1>2, <1>3, <3>1, ComingIs
  <2>4. Head(s) \in Coming(k)' /\ Head(s) \notin Coming(k)
    BY <1>2, <2>1, ComingIs DEF Waiters
  <2>5. PICK n \in Nat : n = Len(chan[k].buf)
    BY LengthIs
  <2>6. Len(chan'[k].buf) = n + 1
    BY <1>1, <1>2, <2>5
  <2>7. n <= Cardinality(Coming(k))
    BY <2>1, <2>5 DEF Served
  <2>8. n + 1 <= Cardinality(Coming(k)')
    BY <2>2, <2>3, <2>4, <2>7, StillBounded
  <2> QED
    BY <2>6, <2>8 DEF Served
<1> QED
  BY <1>2, <1>3, <1>4 DEF Served

\* A value is received, and with a parked sender another takes its place: the
\* receiver leaves, and the first waiter is on its way.
LEMMA ReceivedServed ==
    ASSUME TypeOK, TypeOK', IsFiniteSet(Begun), IsFiniteSet(Begun'), NEW k \in Channels, Served(k),
           chan'[k] = Popped(chan[k]), chan[k].buf # <<>>, Distinct(chan[k].rwait), Waiters,
           NEW t, ~Listed(chan[k].rwait, t),
           \A c \in Coros : Receives(c, k) /\ c # t => Receives(c, k)'
    PROVE  Served(k)' /\ \A c : Listed(chan'[k].rwait, c) => Listed(chan[k].rwait, c)
<1> DEFINE s == chan[k].rwait
<1>1. /\ s \in Seq(Coros) /\ chan[k] \in ChanType(Coros, Values) /\ chan[k].buf \in Seq(Values)
      /\ chan[k].swait \in Seq(Parcel)
  BY ChannelParts, LengthIs
<1>2. IsFiniteSet(Coming(k)) /\ IsFiniteSet(Coming(k)')
  <2>1. (IsFiniteSet(Begun) => IsFiniteSet(Coming(k)))'
    BY ComingFinite, PTL
  <2> QED
    BY <2>1, ComingFinite
<1>3. PICK n \in Nat : n = Len(chan[k].buf)
  BY LengthIs
<1>4. Tail(chan[k].buf) \in Seq(Values) /\ Len(Tail(chan[k].buf)) = n - 1
  BY <1>1, <1>3
<1>5. \A c \in Coming(k) : c \in Coros
  BY DEF Coming
<1>6. CASE chan[k].swait = <<>>
  <2>1. chan'[k].rwait = s /\ chan'[k].buf = Tail(chan[k].buf)
    BY <1>1, <1>6 DEF Popped, ChanType
  <2>2. Coming(k) \ {t} \subseteq Coming(k)'
    BY <1>5, <2>1, ComingIs
  <2>3. ASSUME s # <<>> PROVE n - 1 <= Cardinality(Coming(k)')
    <3>1. n <= Cardinality(Coming(k))
      BY <1>3, <2>3 DEF Served
    <3> QED
      BY <1>2, <2>2, <3>1, StillBounded
  <2> QED
    BY <1>4, <2>1, <2>3 DEF Served
<1>7. CASE chan[k].swait # <<>>
  <2>1. chan'[k].rwait = Rest(s) /\ chan'[k].buf = Append(Tail(chan[k].buf), Head(chan[k].swait).val)
    BY <1>1, <1>7 DEF Popped
  <2>2. Len(chan'[k].buf) = n
    <3>1. PICK q \in Seq(Values) : q = Tail(chan[k].buf)
      BY <1>4
    <3>2. Head(chan[k].swait).val \in Values
      <4>1. Head(chan[k].swait) \in Parcel
        BY <1>1, <1>7
      <4> QED
        BY <4>1 DEF Parcel
    <3>3. Len(Append(q, Head(chan[k].swait).val)) = Len(q) + 1
      BY <3>2
    <3> QED
      BY <1>3, <1>4, <2>1, <3>1, <3>3
  <2>3. \A d : Listed(Rest(s), d) => Listed(s, d)
    BY <1>1, FrontServed
  <2>4. Coming(k) \ {t} \subseteq Coming(k)'
    BY <1>5, <2>1, <2>3, ComingIs
  <2>5. ASSUME Rest(s) # <<>> PROVE n <= Cardinality(Coming(k)')
    <3>1. s # <<>> /\ Head(s) \in Coros /\ Listed(s, Head(s)) /\ ~Listed(Rest(s), Head(s))
      BY <1>1, <2>5, FrontServed
    <3>2. n <= Cardinality(Coming(k))
      BY <1>3, <3>1 DEF Served
    <3>3. Head(s) # t /\ Receives(Head(s), k)
      BY <3>1 DEF Waiters
    <3>4. Head(s) \in Coming(k)' /\ Head(s) \notin Coming(k)
      BY <2>1, <3>1, <3>3, ComingIs
    <3>5. \A h \in Coming(k)' : h \notin Coming(k) => n <= Cardinality(Coming(k)')
      BY <1>2, <2>4, <3>2, StillBounded
    <3> QED
      BY <3>4, <3>5
  <2> QED
    BY <2>1, <2>2, <2>3, <2>5 DEF Served
<1> QED
  BY <1>6, <1>7

AllServed == \A k \in Channels : Served(k)

LEMMA ServedIs == NoLostWakeup <=> AllServed
  BY DEF NoLostWakeup, AllServed, Served, Coming

LEMMA WaitsDistinct ==
    ASSUME TypeOK, Apart(lists), NEW k \in Channels
    PROVE  Distinct(chan[k].rwait)
  BY PlaceTypes, ListIs DEF Apart

\* Who receives goes on receiving, but for one in one channel.
LEMMA QuietServes ==
    ASSUME WaitInv, TypeOK, TypeOK', IsFiniteSet(Begun'),
           \A k \in Channels : chan'[k].rwait = chan[k].rwait /\ chan'[k].buf = chan[k].buf,
           \A c \in Coros, k \in Channels : Receives(c, k) => Receives(c, k)'
    PROVE  Waiters' /\ NoLostWakeup'
<1>1. Waiters'
  BY DEF WaitInv, Waiters
<1>2. \A k \in Channels : Served(k)'
  BY ServedIs, StillServed DEF WaitInv, AllServed
<1>3. (NoLostWakeup <=> AllServed)'
  BY ServedIs, PTL
<1> QED
  BY <1>1, <1>2, <1>3 DEF AllServed

LEMMA SendServes ==
    ASSUME WaitInv, TypeOK, TypeOK', Apart(lists), IsFiniteSet(Begun'),
           NEW k \in Channels, NEW v \in Values, chan' = [chan EXCEPT ![k] = Pushed(@, v)],
           \A c \in Coros, h \in Channels : Receives(c, h) => Receives(c, h)'
    PROVE  Waiters' /\ NoLostWakeup'
<1>1. chan'[k] = Pushed(chan[k], v) /\ \A h \in Channels : h # k => chan'[h] = chan[h]
  BY ChannelBecomes
<1>2. Served(k)' /\ \A c : Listed(chan'[k].rwait, c) => Listed(chan[k].rwait, c)
  BY <1>1, WaitsDistinct, ServedIs, SentServed DEF WaitInv, AllServed
<1>3. \A h \in Channels : h # k => Served(h)'
  BY <1>1, ServedIs, StillServed DEF WaitInv, AllServed
<1>4. Waiters'
  BY <1>1, <1>2 DEF WaitInv, Waiters
<1>5. (NoLostWakeup <=> AllServed)'
  BY ServedIs, PTL
<1> QED
  BY <1>2, <1>3, <1>4, <1>5 DEF AllServed

LEMMA ReceiveServes ==
    ASSUME WaitInv, TypeOK, TypeOK', Apart(lists), IsFiniteSet(Begun'),
           NEW k \in Channels, chan[k].buf # <<>>, chan' = [chan EXCEPT ![k] = Popped(@)],
           NEW t, \A h \in Channels : ~Listed(chan[h].rwait, t),
           \A c \in Coros, h \in Channels : Receives(c, h) /\ (c # t \/ h # k) => Receives(c, h)'
    PROVE  Waiters' /\ NoLostWakeup'
<1>1. chan'[k] = Popped(chan[k]) /\ \A h \in Channels : h # k => chan'[h] = chan[h]
  BY ChannelBecomes
<1>2. Served(k)' /\ \A c : Listed(chan'[k].rwait, c) => Listed(chan[k].rwait, c)
  BY <1>1, WaitsDistinct, ServedIs, ReceivedServed DEF WaitInv, AllServed
<1>3. \A h \in Channels : h # k => Served(h)'
  BY <1>1, ServedIs, StillServed DEF WaitInv, AllServed
<1>4. Waiters'
  <2> SUFFICES ASSUME NEW h \in Channels, NEW c \in Coros, Listed(chan'[h].rwait, c)
               PROVE  Receives(c, h)'
    BY DEF Waiters
  <2>1. Listed(chan[h].rwait, c)
    BY <1>1, <1>2
  <2>2. Receives(c, h) /\ c # t
    BY <2>1 DEF WaitInv, Waiters
  <2> QED
    BY <2>2
<1>5. (NoLostWakeup <=> AllServed)'
  BY ServedIs, PTL
<1> QED
  BY <1>2, <1>3, <1>4, <1>5 DEF AllServed

LEMMA JoinServes ==
    ASSUME WaitInv, TypeOK, TypeOK', IsFiniteSet(Begun'),
           NEW k \in Channels, NEW t \in Coros, chan[k].buf = <<>>,
           chan' = [chan EXCEPT ![k] = ParkedReceiver(@, t)], Receives(t, k)',
           \A c \in Coros, h \in Channels : Receives(c, h) => Receives(c, h)'
    PROVE  Waiters' /\ NoLostWakeup'
<1>1. chan'[k] = ParkedReceiver(chan[k], t) /\ \A h \in Channels : h # k => chan'[h] = chan[h]
  BY ChannelBecomes
<1>2. /\ chan[k].rwait \in Seq(Coros)
      /\ chan'[k].rwait = Append(chan[k].rwait, t) /\ chan'[k].buf = <<>>
  <2>1. PICK ch \in ChanType(Coros, Values) : ch = chan[k] /\ ch.buf = <<>>
    BY ChannelParts
  <2>2. ParkedReceiver(ch, t).rwait = Append(ch.rwait, t) /\ ParkedReceiver(ch, t).buf = <<>>
    BY <2>1 DEF ParkedReceiver, ChanType
  <2> QED
    BY <1>1, <2>1, <2>2, ChannelParts
<1>3. IsFiniteSet(Coming(k)') /\ Cardinality(Coming(k)') \in Nat
  <2>1. (IsFiniteSet(Begun) => IsFiniteSet(Coming(k)) /\ Cardinality(Coming(k)) \in Nat)'
    BY ComingFinite, PTL
  <2> QED
    BY <2>1
<1>4. Served(k)'
  <2>1. PICK n \in Nat : n = Cardinality(Coming(k)')
    BY <1>3
  <2>2. Len(chan'[k].buf) = 0
    BY <1>2
  <2> QED
    BY <2>1, <2>2 DEF Served
<1>5. \A h \in Channels : h # k => Served(h)'
  BY <1>1, ServedIs, StillServed DEF WaitInv, AllServed
<1>6. \A c : Listed(Append(chan[k].rwait, t), c) => Listed(chan[k].rwait, c) \/ c = t
  <2>1. PICK s \in Seq(Coros) : s = chan[k].rwait
    BY <1>2
  <2>2. PICK n \in Nat : n = Len(s)
    BY <2>1
  <2>3. /\ DOMAIN s = 1..n /\ DOMAIN Append(s, t) = 1..(n + 1)
        /\ \A i \in 1..n : Append(s, t)[i] = s[i]
        /\ Append(s, t)[n + 1] = t
    BY <2>1, <2>2, AppendProperties
  <2>4. \A i \in 1..(n + 1) : i \in 1..n \/ i = n + 1
    OBVIOUS
  <2> QED
    BY <2>1, <2>3, <2>4 DEF Listed
<1>7. Waiters'
  BY <1>1, <1>2, <1>6 DEF WaitInv, Waiters
<1>8. (NoLostWakeup <=> AllServed)'
  BY ServedIs, PTL
<1> QED
  BY <1>4, <1>5, <1>7, <1>8 DEF AllServed

\* Where a thread can go from the positions at which there may be an intent.
LEMMA IntentSteps ==
    ASSUME NEW w \in Workers, pc[w] \in {"off", "suspend", "spawned"}
    PROVE  /\ Step(w) => Suspend(w) \/ SpawnedDone(w) \/ SpawnedParked(w) \/ SpawnedReady(w)
           /\ w = 0 => ~(MainSpawn \/ MainAwait \/ MainEnd)
           /\ pc[w] = "off" => ~Step(w)
           /\ pc[w] = "spawned" => ~Suspend(w)
<1> USE DEF At, Executing, Stealing, Waking, Cancelling, MainCalls
<1>1. ~Pick(w)
  BY DEF Pick, PickNext, HandoffTaken, PickLocal, PickGlobal, Uncount, Count, ScanTake, ScanMiss,
         StealSkip, StealLock, StealMove, StealMiss
<1>2. ~Idle(w)
  BY DEF Idle, LoopTop, SyncTop, TimerSleep, SyncNone, IdleLock, CheckLive, CheckRunning,
         CheckHandoff, IdleWait
<1>3. ~(Resume(w) \/ ResumeUndefined(w) \/ AfterDone(w) \/ Fin1(w) \/ Fin2(w) \/ AfterParked(w)
        \/ AfterRequeue(w) \/ RequeuedCount(w) \/ RequeuedStop(w) \/ SpawnedCount(w))
  BY DEF Resume, ResumeUndefined, AfterDone, Fin1, Fin2, AfterParked, AfterRequeue, RequeuedCount,
         RequeuedStop, SpawnedCount
<1>4. ~(ExecYield(w) \/ ExecAwait(w) \/ ExecReturn(w) \/ ExecSpawn(w))
  BY DEF ExecYield, ExecAwait, ExecReturn, ExecSpawn
<1>5. ~(ExecSend(w) \/ ParkSend(w) \/ ExecRecv(w) \/ ParkRecv(w))
  BY DEF ExecSend, ParkSend, ExecRecv, ParkRecv, ParkRecvLooking
<1>6. ~(WakeNext(w) \/ WakeLocal(w) \/ WakeGlobal(w) \/ WokenCount(w))
  BY DEF WakeNext, WakeLocal, WakeGlobal, WokenCount
<1>7. CancelNothing(w) \/ CancelDequeue(w) \/ CancelDestroy(w) \/ CancelUncount(w) => FALSE
  BY DEF CancelNothing, CancelDequeue, CancelDequeueCounting, CancelDestroy, CancelUncount
<1>8. w = 0 => ~(MainSpawn \/ MainAwait \/ MainEnd)
  BY DEF MainSpawn, MainAwait, MainEnd
<1>9. pc[w] = "off" => ~(Suspend(w) \/ SpawnedDone(w) \/ SpawnedParked(w) \/ SpawnedReady(w))
  BY DEF Suspend, SpawnedDone, SpawnedParked, SpawnedParkedLive, SpawnedReady
<1>10. pc[w] = "spawned" => ~Suspend(w)
  BY DEF Suspend
<1> QED
  BY <1>1, <1>2, <1>3, <1>4, <1>5, <1>6, <1>7, <1>8, <1>9, <1>10 DEF Step, Exec, RunOne

\* Who else leaves the intents and the channels alone.
LEMMA IntentsKept ==
    ASSUME NEW w \in Workers, Step(w) \/ (w = 0 /\ (MainSpawn \/ MainAwait \/ MainEnd)),
           ~ParkSend(w), ~ParkRecv(w), ~SpawnedParked(w)
    PROVE  intent' = intent /\ (~ExecSend(w) /\ ~ExecRecv(w) => chan' = chan)
<1> USE DEF locals, shared
<1>1. CASE Pick(w)
  BY <1>1 DEF Pick, PickNext, HandoffTaken, PickLocal, PickGlobal, Uncount, Count, ScanTake,
              ScanMiss, StealSkip, StealLock, StealMove, StealMiss
<1>2. CASE Idle(w)
  BY <1>2 DEF Idle, LoopTop, SyncTop, TimerSleep, SyncNone, IdleLock, CheckLive, CheckRunning,
              CheckHandoff, IdleWait
<1>3. CASE RunOne(w)
  BY <1>3 DEF RunOne, Resume, ResumeUndefined, Suspend, AfterDone, Complete, Fin1, Fin2,
              AfterParked, AfterRequeue, PushReady, RequeuedCount, RequeuedStop, SpawnedDone,
              SpawnedReady, SpawnedCount
<1>4. CASE Exec(w)
  <2>1. CASE ExecYield(w) \/ ExecAwait(w) \/ ExecReturn(w) \/ ExecSpawn(w)
    BY <2>1 DEF ExecYield, ExecAwait, ExecReturn, ExecSpawn, StartRamp
  <2>2. CASE ExecSend(w) \/ ExecRecv(w)
    BY <2>2 DEF ExecSend, ExecRecv
  <2>3. CASE WakeNext(w) \/ WakeLocal(w) \/ WakeGlobal(w) \/ WokenCount(w)
    BY <2>3 DEF WakeNext, WakeLocal, WakeGlobal, Waking, WokenCount
  <2>4. CASE CancelNothing(w) \/ CancelDequeue(w) \/ CancelDestroy(w) \/ CancelUncount(w)
    BY <2>4 DEF CancelNothing, CancelDequeue, CancelDequeueCounting, CancelDestroy, CancelUncount,
                CancelReturn
  <2> QED
    BY <1>4, <2>1, <2>2, <2>3, <2>4 DEF Exec
<1>5. CASE w = 0 /\ (MainSpawn \/ MainAwait \/ MainEnd)
  BY <1>5 DEF MainSpawn, StartRamp, MainAwait, MainEnd
<1> QED
  BY <1>1, <1>2, <1>3, <1>4, <1>5 DEF Step

\* A new intent to receive, or one that the ramp's first suspension keeps.
LEMMA RecvIntents ==
    ASSUME ChanInv, TypeOK', Regular(prog), NEW w \in Workers, Own(w), FrameChanges, BodyMoves(w),
           RecvIntent, Step(w) \/ (w = 0 /\ (MainSpawn \/ MainAwait \/ MainEnd))
    PROVE  RecvIntent'
<1>1. TypeOK /\ StealInv /\ prog' = prog
  BY DEF ChanInv, StealInv, Own
<1> SUFFICES ASSUME NEW v \in Workers, intent'[v].kind = "recv"
             PROVE  (Receives(Running(v), intent[v].ch) /\ chan[intent[v].ch].buf = <<>>)'
  BY DEF RecvIntent
<1>0. NoIntent.kind = "none" /\ intent \in [Workers -> Intents]
  BY <1>1 DEF NoIntent, TypeOK
<1>2. ASSUME intent' = intent PROVE (Receives(Running(v), intent[v].ch) /\ chan[intent[v].ch].buf = <<>>)'
  <2>1. intent[v] # NoIntent /\ intent[v] \in Intents
    BY <1>0, <1>2
  <2>2. /\ v = 0 /\ ~wid[0] /\ cur[0] = None /\ pc[0] \in {"suspend", "spawned"}
        /\ frame[Running(0)] # "final"
    BY <2>1 DEF ChanInv, IntentWaits
  <2>3. pc[w] \in {"off", "suspend", "spawned"}
    BY <2>2 DEF ChanInv, StealInv, OthersOff, At
  <2>4. Step(w) /\ pc[w] # "off"
    BY <2>3, IntentSteps
  <2>5. w = 0
    BY <2>2, <2>4 DEF ChanInv, StealInv, OthersOff, At
  <2>6. Suspend(w)
    <3>1. Suspend(w) \/ SpawnedDone(w) \/ SpawnedParked(w) \/ SpawnedReady(w)
      BY <2>3, <2>4, IntentSteps
    <3>2. ~SpawnedDone(w)
      BY <2>2, <2>5 DEF SpawnedDone, Complete
    <3>3. ~SpawnedReady(w)
      BY <2>1, <2>2, <2>5 DEF SpawnedReady
    <3>4. ~SpawnedParked(w)
      <4> SUFFICES ASSUME SpawnedParked(w) PROVE FALSE
        OBVIOUS
      <4>1. intent' = [intent EXCEPT ![w] = NoIntent]
        BY DEF SpawnedParked, SpawnedParkedLive
      <4> QED
        BY <1>1, <2>1, <2>2, <2>5, <1>2, <4>1 DEF TypeOK
    <3> QED
      BY <3>1, <3>2, <3>3, <3>4
  <2>7. stack' = stack /\ chan' = chan
    BY <2>2, <2>5, <2>6 DEF Suspend
  <2>8. Receives(Running(v), intent[v].ch) /\ chan[intent[v].ch].buf = <<>>
    BY <1>2 DEF RecvIntent
  <2>9. Running(v) \in Coros /\ ~ExecRecv(w)
    <3>1. pc[w] = "suspend"
      BY <2>6 DEF Suspend, At
    <3> QED
      BY <1>1, <2>2, <2>5, <3>1, TopTouched DEF ExecRecv, Executing, At
  <2>10. PICK t \in Coros : t = Running(v)
    BY <2>9
  <2>11. PICK k : k = intent[v].ch
    OBVIOUS
  <2>12. Receives(t, k)'
    BY <1>1, <2>8, <2>9, <2>10, <2>11, ReceivingGoesOn
  <2>13. Running(v)' = t
    BY <2>7, <2>10 DEF Running
  <2>14. intent'[v].ch = k /\ chan'[k].buf = <<>>
    BY <1>2, <2>7, <2>8, <2>11
  <2> QED
    BY <2>12, <2>13, <2>14
<1>3. CASE ParkSend(w)
  <2>1. intent[v] # NoIntent => v = 0 /\ pc[0] \in {"suspend", "spawned"} /\ ~wid[0]
    BY DEF ChanInv, IntentWaits
  <2>2. pc[w] = "parkSend"
    BY <1>3 DEF ParkSend, At
  <2>3. intent[v] = NoIntent
    BY <2>1, <2>2 DEF ChanInv, StealInv, OthersOff, At
  <2>4. intent' = intent \/ \E k, x : intent' = [intent EXCEPT ![w] = [kind |-> "send", ch |-> k, val |-> x]]
    BY <1>3 DEF ParkSend
  <2>5. intent'[v] = intent[v] \/ intent'[v].kind = "send"
    BY <1>0, <2>4
  <2> QED
    BY <1>0, <2>3, <2>5
<1>4. CASE SpawnedParked(w)
  <2>1. intent[w] # NoIntent /\ intent' = [intent EXCEPT ![w] = NoIntent]
    BY <1>4 DEF SpawnedParked, SpawnedParkedLive
  <2>2. w = 0
    BY <2>1 DEF ChanInv, IntentWaits
  <2>3. v # w => intent'[v] = intent[v] /\ intent[v] = NoIntent
    BY <1>1, <2>1, <2>2 DEF ChanInv, IntentWaits, TypeOK
  <2>4. intent'[v] = NoIntent
    BY <1>1, <2>1, <2>3 DEF TypeOK
  <2> QED
    BY <2>4 DEF NoIntent
<1>5. CASE ParkRecv(w)
  <2>1. pc[w] = "parkRecv" /\ Current(Running(w)).op = "recv" /\ UNCHANGED <<stack, frame, ip>>
    BY <1>5 DEF ParkRecv, ParkRecvLooking, At, ChannelFrame
  <2>2. \A u \in Workers : intent[u] = NoIntent
    BY <2>1, NoIntents
  <2>3. PICK k : k = Current(Running(w)).ch
    OBVIOUS
  <2>4. /\ intent' = [intent EXCEPT ![w] = [kind |-> "recv", ch |-> k]]
        /\ chan[k].buf = <<>> /\ chan' = chan
    <3>1. intent' # intent
      BY <2>2 DEF NoIntent
    <3> QED
      BY <1>5, <2>3, <3>1 DEF ParkRecv, ParkRecvLooking
  <2>5. v = w /\ intent'[v].ch = k
    <3>1. v # w => intent'[v] = NoIntent
      BY <1>0, <2>2, <2>4
    <3>2. intent'[w] = [kind |-> "recv", ch |-> k]
      BY <1>0, <2>4
    <3> QED
      BY <1>0, <3>1, <3>2
  <2>6. frame[Running(w)] = "executing"
    <3>1. Running(w) = stack[w][Len(stack[w])] /\ OnStack(w, Len(stack[w]))
      BY <1>1, <2>1, TopTouched DEF OnTop
    <3>2. Len(stack[w]) \in 1..Len(stack[w])
      BY <3>1 DEF OnStack
    <3> QED
      BY <2>1, <3>1, <3>2 DEF ChanInv, FramesRun, At
  <2>7. PICK t : t = Running(w)
    OBVIOUS
  <2>8. Running(w)' = t
    BY <2>1, <2>7 DEF Running
  <2>9. Current(t)' = Current(t)
    BY <1>1, <2>1 DEF Current
  <2>10. Receives(t, k)'
    BY <2>1, <2>3, <2>6, <2>7, <2>9 DEF Receives
  <2> QED
    BY <2>4, <2>5, <2>8, <2>10
<1> QED
  BY <1>2, <1>3, <1>4, <1>5, IntentsKept

LEMMA StepWaits ==
    ASSUME WaitInv, Settled, Placed, TypeOK', NEW w \in Workers, Own(w),
           Step(w) \/ (w = 0 /\ (MainSpawn \/ MainAwait \/ MainEnd))
    PROVE  WaitInv'
<1>1. /\ TypeOK /\ StealInv /\ ChanInv /\ Regular(prog) /\ HandShape(w) /\ RampsRun
      /\ Apart(lists) /\ prog' = prog
  BY DEF Settled, ChanInv, StealInv, ShapeInv, Own
<1>2. FrameChanges /\ BodyMoves(w)
  BY StepChanges
<1>3. IsFiniteSet(Begun') /\ RecvIntent'
  BY <1>1, <1>2, BegunFinite, RecvIntents DEF WaitInv
<1>4. ASSUME ~ExecRecv(w)
      PROVE  \A c \in Coros, k \in Channels : Receives(c, k) => Receives(c, k)'
  BY <1>1, <1>2, <1>4, ReceivingGoesOn
<1>5. ASSUME ~ExecRecv(w),
             \A k \in Channels : chan'[k].rwait = chan[k].rwait /\ chan'[k].buf = chan[k].buf
      PROVE  Waiters' /\ NoLostWakeup'
  BY <1>1, <1>3, <1>4, <1>5, QuietServes
<1>6. ASSUME NEW k \in Channels, NEW c, NEW v, ~ExecRecv(w),
             chan' = [chan EXCEPT ![k] = ParkedSender(@, c, v)]
      PROVE  Waiters' /\ NoLostWakeup'
  <2>1. chan'[k] = ParkedSender(chan[k], c, v) /\ \A h \in Channels : h # k => chan'[h] = chan[h]
    BY <1>1, <1>6, ChannelBecomes
  <2>2. PICK ch \in ChanType(Coros, Values) : ch = chan[k]
    BY <1>1, ChannelParts
  <2>3. ParkedSender(ch, c, v).rwait = ch.rwait /\ ParkedSender(ch, c, v).buf = ch.buf
    BY DEF ParkedSender, ChanType
  <2> QED
    BY <1>5, <1>6, <2>1, <2>2, <2>3
<1>7. CASE ExecSend(w) \/ ParkSend(w)
  <2>1. Running(w) \in Coros
    BY <1>1, <1>7, TransferFacts DEF Transfer
  <2>2. PICK i : i = Current(Running(w))
    OBVIOUS
  <2>3. i.op = "send" /\ ~ExecRecv(w)
    BY <1>7, <2>2 DEF ExecSend, ParkSend, Executing, ExecRecv
  <2>4. ~ExecRecv(w)
    BY <2>3
  <2>5. i.ch \in Channels /\ i.val \in Values
    BY <1>1, <2>1, <2>2, <2>3, CurrentType
  <2>6. \/ chan' = chan
        \/ chan' = [chan EXCEPT ![i.ch] = Pushed(@, i.val)]
        \/ chan' = [chan EXCEPT ![i.ch] = ParkedSender(@, cur[w], i.val)]
    BY <1>7, <2>2 DEF ExecSend, ParkSend
  <2>7. CASE chan' = chan
    BY <1>3, <1>5, <2>4, <2>7 DEF WaitInv
  <2>8. CASE chan' = [chan EXCEPT ![i.ch] = Pushed(@, i.val)]
    <3>1. Waiters' /\ NoLostWakeup'
      BY <1>1, <1>3, <1>4, <2>4, <2>5, <2>8, SendServes
    <3> QED
      BY <1>3, <3>1 DEF WaitInv
  <2>9. CASE chan' = [chan EXCEPT ![i.ch] = ParkedSender(@, cur[w], i.val)]
    <3>1. Waiters' /\ NoLostWakeup'
      BY <1>6, <2>4, <2>5, <2>9
    <3> QED
      BY <1>3, <3>1 DEF WaitInv
  <2> QED
    BY <1>3, <2>6, <2>7, <2>8, <2>9 DEF WaitInv
<1>8. CASE ExecRecv(w)
  <2>1. PICK t \in Coros : t = Running(w)
    BY <1>1, <1>8, TransferFacts DEF Transfer
  <2>2. Current(t).op = "recv" /\ pc[w] = "exec"
    BY <1>8, <2>1 DEF ExecRecv, Executing, At
  <2>3. PICK k \in Channels : k = Current(t).ch
    BY <1>1, <2>2, CurrentType
  <2>4. CASE chan[k].buf = <<>>
    <3>1. UNCHANGED <<chan, ip, frame>>
      BY <1>8, <2>1, <2>3, <2>4 DEF ExecRecv, ChannelFrame
    <3>2. \A c \in Coros, h \in Channels : Receives(c, h) => Receives(c, h)'
      BY <1>1, <3>1 DEF Receives, Current
    <3>3. Waiters' /\ NoLostWakeup'
      BY <1>1, <1>3, <3>1, <3>2, QuietServes
    <3> QED
      BY <1>3, <3>3 DEF WaitInv
  <2>5. CASE chan[k].buf # <<>>
    <3>1. chan' = [chan EXCEPT ![k] = Popped(@)]
      BY <1>8, <2>1, <2>3, <2>5 DEF ExecRecv
    <3>2. \A h \in Channels : ~Listed(chan[h].rwait, t)
      BY <1>1, <2>1, <2>2, WorkingNotWaiting
    <3>3. ASSUME NEW c \in Coros, NEW h \in Channels, Receives(c, h), c # t \/ h # k
          PROVE  Receives(c, h)'
      <4>1. c # t
        BY <2>3, <3>3 DEF Receives
      <4> QED
        BY <1>1, <1>2, <2>1, <3>3, <4>1, ReceivingGoesOn
    <3>4. Waiters' /\ NoLostWakeup'
      BY <1>1, <1>3, <2>5, <3>1, <3>2, <3>3, ReceiveServes
    <3> QED
      BY <1>3, <3>4 DEF WaitInv
  <2> QED
    BY <2>4, <2>5
<1>9. CASE ParkRecv(w)
  <2>1. PICK t \in Coros : t = Running(w)
    BY <1>1, <1>9, TransferFacts DEF Transfer
  <2>2. Current(t).op = "recv" /\ pc[w] = "parkRecv" /\ ~ExecRecv(w)
    BY <1>9, <2>1 DEF ParkRecv, ParkRecvLooking, ExecRecv, Executing, At
  <2>3. PICK k \in Channels : k = Current(t).ch
    BY <1>1, <2>2, CurrentType
  <2>4. \/ chan' = chan
        \/ /\ cur[w] # None /\ chan[k].buf = <<>>
           /\ chan' = [chan EXCEPT ![k] = ParkedReceiver(@, cur[w])]
    BY <1>9, <2>1, <2>3 DEF ParkRecv, ParkRecvLooking
  <2>5. CASE chan' = chan
    BY <1>3, <1>5, <2>2, <2>5 DEF WaitInv
  <2>6. CASE /\ cur[w] # None /\ chan[k].buf = <<>>
             /\ chan' = [chan EXCEPT ![k] = ParkedReceiver(@, cur[w])]
    <3>1. t = cur[w] /\ frame[t] = "executing"
      <4>1. MayPark(Current(Running(w)))
        BY <2>1, <2>2 DEF MayPark
      <4> QED
        BY <1>1, <2>1, <2>2, <2>6, <4>1, ParksItself
    <3>2. Receives(t, k)
      BY <2>2, <2>3, <3>1 DEF Receives
    <3>3. Receives(t, k)'
      BY <1>4, <2>2, <3>2
    <3>4. Waiters' /\ NoLostWakeup'
      BY <1>1, <1>3, <1>4, <2>2, <2>6, <3>1, <3>3, JoinServes
    <3> QED
      BY <1>3, <3>4 DEF WaitInv
  <2> QED
    BY <2>4, <2>5, <2>6
<1>10. CASE SpawnedParked(w)
  <2>1. /\ pc[w] = "spawned" /\ intent[w] # NoIntent
        /\ chan' = [chan EXCEPT ![intent[w].ch] =
                      IF intent[w].kind = "recv" THEN ParkedReceiver(@, Running(w))
                      ELSE ParkedSender(@, Running(w), intent[w].val)]
    BY <1>10 DEF SpawnedParked, SpawnedParkedLive, At
  <2>2. ~ExecRecv(w)
    BY <2>1 DEF ExecRecv, Executing, At
  <2>3. intent[w] \in Intents
    BY <1>1 DEF TypeOK
  <2>4. intent[w].ch \in Channels
    BY <2>1, <2>3 DEF Intents
  <2>5. PICK k \in Channels : k = intent[w].ch
    BY <2>4
  <2>6. PICK t \in Coros : t = Running(w)
    <3>1. stack[w] # <<>>
      BY <1>1, <2>1 DEF StealInv, ThreadShape, InBody
    <3> QED
      BY <1>1, <3>1, StackTop
  <2>7. CASE intent[w].kind = "recv"
    <3>1. Receives(t, k) /\ chan[k].buf = <<>>
      BY <2>5, <2>6, <2>7 DEF WaitInv, RecvIntent
    <3>2. Receives(t, k)'
      BY <1>4, <2>2, <3>1
    <3>3. chan' = [chan EXCEPT ![k] = ParkedReceiver(@, t)]
      BY <2>1, <2>5, <2>6, <2>7
    <3>4. Waiters' /\ NoLostWakeup'
      BY <1>1, <1>3, <1>4, <2>2, <3>1, <3>2, <3>3, JoinServes
    <3> QED
      BY <1>3, <3>4 DEF WaitInv
  <2>8. CASE intent[w].kind # "recv"
    <3>1. chan' = [chan EXCEPT ![k] = ParkedSender(@, t, intent[w].val)]
      BY <2>1, <2>5, <2>6, <2>8
    <3> QED
      BY <1>3, <1>6, <2>2, <3>1 DEF WaitInv
  <2> QED
    BY <2>7, <2>8
<1>11. CASE ~ExecSend(w) /\ ~ParkSend(w) /\ ~ExecRecv(w) /\ ~ParkRecv(w) /\ ~SpawnedParked(w)
  <2>1. chan' = chan
    BY <1>11, IntentsKept
  <2> QED
    BY <1>3, <1>5, <1>11, <2>1 DEF WaitInv
<1> QED
  BY <1>7, <1>8, <1>9, <1>10, <1>11

LEMMA StillWaits ==
    ASSUME WaitInv, UNCHANGED <<prog, chan, ip, frame, stack, intent>>
    PROVE  WaitInv'
<1>1. Begun' = Begun
  BY DEF Begun
<1>2. ASSUME NEW c, NEW k PROVE Receives(c, k)' <=> Receives(c, k)
  BY DEF Receives, Current
<1>3. Waiters'
  BY <1>2 DEF WaitInv, Waiters
<1>4. RecvIntent'
  <2> SUFFICES ASSUME NEW w \in Workers, intent'[w].kind = "recv"
               PROVE  (Receives(Running(w), intent[w].ch) /\ chan[intent[w].ch].buf = <<>>)'
    BY DEF RecvIntent
  <2>1. PICK t : t = Running(w)
    OBVIOUS
  <2>2. PICK k : k = intent[w].ch
    OBVIOUS
  <2>3. Receives(t, k) /\ chan[k].buf = <<>>
    BY <2>1, <2>2 DEF WaitInv, RecvIntent
  <2>4. Running(w)' = t /\ intent'[w].ch = k
    BY <2>1, <2>2 DEF Running
  <2>5. Receives(t, k)' /\ chan'[k].buf = <<>>
    BY <1>2, <2>3
  <2> QED
    BY <2>4, <2>5
<1>5. NoLostWakeup'
  <2>1. \A k \in Channels : Coming(k)' = Coming(k)
    BY DEF Coming, EnRoute, Current
  <2>2. \A k \in Channels : Served(k)' <=> Served(k)
    BY <2>1 DEF Served
  <2>3. (NoLostWakeup <=> AllServed)'
    BY ServedIs, PTL
  <2> QED
    BY <2>2, <2>3, ServedIs DEF WaitInv, AllServed
<1> QED
  BY <1>1, <1>3, <1>4, <1>5 DEF WaitInv

LEMMA NextWaits ==
    ASSUME ChanInv', SchedInv, Regular(prog), WaitInv, [Next]_vars
    PROVE  WaitInv'
<1>1. Settled /\ Placed /\ TypeOK' /\ ShapeInv /\ ChanInv /\ \A v \in Workers : HandShape(v)
  BY PlacesSettled DEF SchedInv, PlacesInv, ChanInv, StealInv, ShapeInv
<1>2. ASSUME NEW w \in Workers, Step(w) \/ (w = 0 /\ (MainSpawn \/ MainAwait \/ MainEnd))
      PROVE  WaitInv'
  <2>1. Own(w)
    BY <1>1, <1>2, StepOwn DEF ShapeInv
  <2> QED
    BY <1>1, <1>2, <2>1, StepWaits
<1>3. CASE MainRun \/ MainJoin
  BY <1>3, StillWaits DEF MainRun, MainJoin, program, coros
<1>4. ASSUME NEW c \in Coros, TimePasses(c) PROVE WaitInv'
  BY <1>4, StillWaits DEF TimePasses, program, locals
<1>5. CASE UNCHANGED vars
  BY <1>5, StillWaits DEF vars, shared, program, coros, locals
<1> QED
  BY <1>2, <1>3, <1>4, <1>5, ZeroIsWorker DEF Next, Main, Terminated

LEMMA InitWaits == Init => WaitInv
<1> SUFFICES ASSUME Init PROVE WaitInv
  OBVIOUS
<1>1. Begun = {}
  BY DEF Begun, Init
<1>2. \A k \in Channels : chan[k].rwait = <<>>
  BY DEF Init, EmptyChan
<1>3. \A w \in Workers : intent[w].kind = "none"
  BY DEF Init, NoIntent
<1> QED
  BY <1>1, <1>2, <1>3, FS_EmptySet, EmptyDistinct DEF WaitInv, Waiters, RecvIntent, NoLostWakeup

\* No wake-up is lost: in a regular program, while a receiver is parked each
\* buffered value has a receiver on its way to it.
THEOREM NoWakeupIsLost == Spec => [](Regular(prog) => NoLostWakeup)
<1>1. Init => (Regular(prog) => WaitInv)
  BY InitWaits
<1>2. SchedInv /\ SchedInv' /\ (Regular(prog) => WaitInv) /\ [Next]_vars
        => (Regular(prog) => WaitInv)'
  <2> SUFFICES ASSUME SchedInv, SchedInv', Regular(prog) => WaitInv, [Next]_vars
               PROVE  (Regular(prog) => WaitInv)'
    OBVIOUS
  <2>1. prog' = prog
    BY SameProgram
  <2>2. CASE Regular(prog)
    <3>1. ChanInv'
      BY DEF SchedInv
    <3> QED
      BY <2>2, <3>1, NextWaits
  <2>3. CASE ~Regular(prog)
    <3>1. ~Regular(prog)'
      BY <2>1, <2>3 DEF Regular, NeverCancels, RunsOnce, RampsNeverPark, SpawnedInside
    <3> QED
      BY <3>1
  <2> QED
    BY <2>2, <2>3
<1>3. (Regular(prog) => WaitInv) => (Regular(prog) => NoLostWakeup)
  BY DEF WaitInv
<1> QED
  BY <1>1, <1>2, <1>3, SchedInvariant, PTL DEF Spec
=============================================================================
