---------------------------- MODULE ProgramProofs ----------------------------
(* What the threads of a program share: a mutex and its guard, a mailbox and *)
(* its timer, a conversation, the body of an HTTP stream, a WebSocket, for   *)
(* every set of threads and every number of each.                            *)
EXTENDS ProgramMutexes, Mailboxes, LlmStreams, HttpStreams, WebSockets,
        WellFoundedInduction, FiniteSetTheorems, SequenceTheorems, TLAPS

\* A thread that is inside a call is so about a mutex.
OnMutex == \A t \in Threads : ~MuxAt(t, "idle") => muxThread[t].on \in Mutexes

\* What the steps keep: the types, the property itself, and what a guard is of.
MuxInv == MuxTypes /\ OnMutex /\ GuardsAccounted

MuxPositions == {"idle", "lock", "try lock", "file", "destroy"}

\* A thread is somewhere else, and the others are where they were.
MuxBecomes(t, at, on) ==
    /\ muxThread' \in [Threads -> [at : MuxPositions, on : 0..MaxMutexes]]
    /\ muxThread'[t].at = at /\ muxThread'[t].on = on
    /\ \A u \in Threads \ {t} : muxThread'[u] = muxThread[u]

\* No mutex is held, and none has a guard.
LEMMA MuxInitial == MuxInit => MuxInv
  <1> SUFFICES ASSUME MuxInit PROVE MuxInv
    OBVIOUS
  <1>1. MuxTypes
    BY MutexAssumption DEF MuxInit, MuxTypes, Mutexes
  <1>2. GuardsAccounted
    BY DEF MuxInit, GuardsAccounted, Filing, MuxAt
  <1>3. OnMutex
    BY DEF MuxInit, OnMutex, MuxAt
  <1> QED
    BY <1>1, <1>2, <1>3 DEF MuxInv

\* Counting up to the bound.
LEMMA MutexNumbers ==
  /\ Mutexes \subseteq 0..MaxMutexes
  /\ \A i \in 0..MaxMutexes : 1..i \subseteq Mutexes
  /\ \A i \in 0..MaxMutexes : i < MaxMutexes => i + 1 \in Mutexes
  BY MutexAssumption DEF MutexAssumption, Mutexes

LEMMA MuxRecordBecomes ==
  ASSUME MuxTypes, NEW t \in Threads, NEW p \in MuxPositions, NEW m \in 0..MaxMutexes,
         muxThread' = [muxThread EXCEPT ![t] = [at |-> p, on |-> m]]
  PROVE  MuxBecomes(t, p, m)
  BY DEF MuxTypes, MuxBecomes, MuxPositions

LEMMA MuxGoBecomes ==
  ASSUME MuxTypes, NEW t \in Threads, NEW p \in MuxPositions, MuxGo(t, p)
  PROVE  MuxBecomes(t, p, muxThread[t].on)
  <1>1. /\ muxThread \in [Threads -> [at : MuxPositions, on : 0..MaxMutexes]]
        /\ muxThread' = [muxThread EXCEPT ![t].at = p]
    BY DEF MuxTypes, MuxPositions, MuxGo
  <1>2. muxThread[t] \in [at : MuxPositions, on : 0..MaxMutexes]
    BY <1>1
  <1>3. [muxThread[t] EXCEPT !.at = p] \in [at : MuxPositions, on : 0..MaxMutexes]
    BY <1>2
  <1>4. /\ [muxThread[t] EXCEPT !.at = p].at = p
        /\ [muxThread[t] EXCEPT !.at = p].on = muxThread[t].on
    BY <1>2
  <1>5. muxThread' = [muxThread EXCEPT ![t] = [muxThread[t] EXCEPT !.at = p]]
    BY <1>1
  <1>6. muxThread'[t] = [muxThread[t] EXCEPT !.at = p]
    BY <1>1, <1>5
  <1> QED
    BY <1>1, <1>3, <1>4, <1>5, <1>6 DEF MuxBecomes

\* A thread that is not about to file a guard, before and after, has no part in it.
LEMMA FilingKept ==
  ASSUME NEW t \in Threads, NEW at, NEW on, MuxBecomes(t, at, on),
         ~MuxAt(t, "file"), at # "file"
  PROVE  \A m : Filing(m)' = Filing(m)
  BY DEF MuxBecomes, Filing, MuxAt

\* One that is going to file the guard of m is added ...
LEMMA FilingAdded ==
  ASSUME NEW t \in Threads, NEW on, MuxBecomes(t, "file", on), ~MuxAt(t, "file")
  PROVE  \A m : Filing(m)' = IF m = on THEN Filing(m) \cup {t} ELSE Filing(m)
  BY DEF MuxBecomes, Filing, MuxAt

\* ... and one that has filed it is taken away.
LEMMA FilingEnds ==
  ASSUME NEW t \in Threads, NEW at, NEW on, MuxBecomes(t, at, on), at # "file"
  PROVE  \A m : Filing(m)' = Filing(m) \ {t}
  BY DEF MuxBecomes, Filing, MuxAt

\* What GuardsAccounted says of one mutex.
Accounted(held, filed, filing) ==
    /\ held <=> (filed \/ filing # {})
    /\ filed => filing = {}
    /\ \A t, u \in filing : t = u

LEMMA AccountedOf ==
  GuardsAccounted
    <=> \A m \in Mutexes : Accounted(m \in muxHeld, m \in muxFiled, Filing(m))
  BY DEF GuardsAccounted, Accounted

\* The types of what a thread's step leaves.
LEMMA TypesKept ==
  ASSUME MuxTypes, OnMutex, NEW t \in Threads, NEW at, NEW on, MuxBecomes(t, at, on),
         at = "idle" \/ on \in Mutexes,
         muxMade' = muxMade, muxOpen' \subseteq Mutexes,
         muxHeld' \subseteq Mutexes, muxFiled' \subseteq Mutexes
  PROVE  MuxTypes' /\ OnMutex'
  <1>1. MuxTypes'
    BY DEF MuxTypes, MuxBecomes, MuxPositions
  <1>2. OnMutex'
    BY DEF OnMutex, MuxAt, MuxBecomes, Mutexes
  <1> QED
    BY <1>1, <1>2

LEMMA MuxStep == MuxInv /\ [MuxNext]_muxVars => MuxInv'
  <1> SUFFICES ASSUME MuxInv, [MuxNext]_muxVars PROVE MuxInv'
    OBVIOUS
  <1>types. /\ MuxTypes /\ OnMutex
            /\ \A m \in Mutexes : Accounted(m \in muxHeld, m \in muxFiled, Filing(m))
    BY AccountedOf DEF MuxInv
  <1>sets. muxOpen \subseteq Mutexes /\ muxHeld \subseteq Mutexes /\ muxFiled \subseteq Mutexes
    BY <1>types DEF MuxTypes
  <1>on. \A t \in Threads : muxThread[t].on \in 0..MaxMutexes
    BY <1>types DEF MuxTypes
  <1>goal. ASSUME MuxTypes', OnMutex',
                  \A m \in Mutexes : Accounted(m \in muxHeld', m \in muxFiled', Filing(m)')
           PROVE  MuxInv'
    BY <1>goal DEF MuxInv, GuardsAccounted, Accounted
  <1>1. ASSUME NEW t \in Threads, MuxCreate(t) PROVE MuxInv'
    <2>1. muxMade \in 0..MaxMutexes /\ muxMade + 1 \in Mutexes
      BY <1>1, <1>types, MutexNumbers DEF MuxCreate, MuxTypes
    <2>2. /\ muxMade' \in 0..MaxMutexes /\ muxOpen' \subseteq Mutexes
          /\ muxHeld' = muxHeld /\ muxFiled' = muxFiled /\ muxThread' = muxThread
      BY <1>1, <1>sets, <2>1, MutexNumbers DEF MuxCreate
    <2>3. MuxTypes' /\ OnMutex'
      BY <1>types, <2>2 DEF MuxTypes, OnMutex, MuxAt
    <2>4. \A m : Filing(m)' = Filing(m)
      BY <2>2 DEF Filing, MuxAt
    <2> QED
      BY <1>types, <1>goal, <2>2, <2>3, <2>4
  <1>2. ASSUME NEW t \in Threads, MuxLookup(t) PROVE MuxInv'
    <2>1. PICK m \in muxOpen, p \in {"lock", "try lock"} :
             muxThread' = [muxThread EXCEPT ![t] = [at |-> p, on |-> m]]
      BY <1>2 DEF MuxLookup
    <2>2. m \in Mutexes /\ m \in 0..MaxMutexes /\ p \in MuxPositions /\ p # "file"
      BY <1>sets, MutexNumbers DEF MuxPositions
    <2>3. MuxBecomes(t, p, m)
      BY <1>types, <2>1, <2>2, MuxRecordBecomes
    <2>4. \A n : Filing(n)' = Filing(n)
      BY <1>2, <2>2, <2>3, FilingKept DEF MuxLookup, MuxAt
    <2>5. MuxTypes' /\ OnMutex'
      BY <1>2, <1>types, <1>sets, <2>2, <2>3, TypesKept DEF MuxLookup
    <2> QED
      BY <1>2, <1>types, <1>goal, <2>4, <2>5 DEF MuxLookup
  <1>3. ASSUME NEW t \in Threads, MuxAcquire(t) PROVE MuxInv'
    <2> DEFINE m == muxThread[t].on
    <2>1. MuxBecomes(t, "file", m)
      BY <1>3, <1>types, MuxGoBecomes DEF MuxAcquire, MuxPositions
    <2>2. \A n : Filing(n)' = IF n = m THEN Filing(n) \cup {t} ELSE Filing(n)
      BY <1>3, <2>1, FilingAdded DEF MuxAcquire, MuxAt
    <2>3. /\ m \in Mutexes /\ m \notin muxHeld
          /\ muxHeld' = muxHeld \cup {m} /\ muxFiled' = muxFiled
          /\ UNCHANGED <<muxMade, muxOpen>>
      BY <1>3, <1>types DEF MuxAcquire, OnMutex, MuxAt
    <2>4. MuxTypes' /\ OnMutex'
      BY <1>types, <1>sets, <2>1, <2>3, TypesKept
    <2>5. ASSUME NEW n \in Mutexes
          PROVE  Accounted(n \in muxHeld', n \in muxFiled', Filing(n)')
      <3>1. CASE n = m
        <4>1. Filing(m) = {} /\ m \notin muxFiled
          BY <1>types, <2>3 DEF Accounted
        <4> QED
          BY <2>2, <2>3, <3>1, <4>1 DEF Accounted
      <3>2. CASE n # m
        <4>1. Accounted(n \in muxHeld, n \in muxFiled, Filing(n))
          BY <1>types
        <4>2. (n \in muxHeld' <=> n \in muxHeld) /\ Filing(n)' = Filing(n)
          BY <2>2, <2>3, <3>2
        <4> QED
          BY <2>3, <4>1, <4>2 DEF Accounted
      <3> QED
        BY <3>1, <3>2
    <2> QED
      BY <1>goal, <2>4, <2>5
  <1>4. ASSUME NEW t \in Threads, MuxTryFails(t) PROVE MuxInv'
    <2>1. MuxBecomes(t, "idle", muxThread[t].on)
      BY <1>4, <1>types, MuxGoBecomes DEF MuxTryFails, MuxPositions
    <2>2. \A n : Filing(n)' = Filing(n)
      BY <1>4, <2>1, FilingKept DEF MuxTryFails, MuxAt
    <2>3. MuxTypes' /\ OnMutex'
      BY <1>4, <1>types, <1>sets, <2>1, TypesKept DEF MuxTryFails
    <2> QED
      BY <1>4, <1>types, <1>goal, <2>2, <2>3 DEF MuxTryFails
  <1>5. ASSUME NEW t \in Threads, MuxFile(t) PROVE MuxInv'
    <2> DEFINE m == muxThread[t].on
    <2>1. MuxBecomes(t, "idle", m)
      BY <1>5, <1>types, MuxGoBecomes DEF MuxFile, MuxPositions
    <2>2. \A n : Filing(n)' = Filing(n) \ {t}
      BY <2>1, FilingEnds
    <2>3. /\ m \in Mutexes
          /\ t \in Filing(m) /\ \A n : n # m => t \notin Filing(n)
      BY <1>5, <1>types DEF MuxFile, Filing, MuxAt, OnMutex
    <2>4. m \in muxHeld /\ m \notin muxFiled /\ Filing(m) = {t}
      BY <1>types, <2>3 DEF Accounted
    <2>5. muxHeld' = muxHeld /\ muxFiled' = muxFiled \cup {m} /\ UNCHANGED <<muxMade, muxOpen>>
      BY <1>5, <2>4 DEF MuxFile
    <2>6. MuxTypes' /\ OnMutex'
      BY <1>types, <1>sets, <2>1, <2>3, <2>5, TypesKept
    <2>7. ASSUME NEW n \in Mutexes
          PROVE  Accounted(n \in muxHeld', n \in muxFiled', Filing(n)')
      <3>1. CASE n = m
        BY <2>2, <2>4, <2>5, <3>1 DEF Accounted
      <3>2. CASE n # m
        <4>1. Accounted(n \in muxHeld, n \in muxFiled, Filing(n))
          BY <1>types
        <4>2. (n \in muxFiled' <=> n \in muxFiled) /\ Filing(n)' = Filing(n)
          BY <2>2, <2>3, <2>5, <3>2
        <4> QED
          BY <2>5, <4>1, <4>2 DEF Accounted
      <3> QED
        BY <3>1, <3>2
    <2> QED
      BY <1>goal, <2>6, <2>7
  <1>6. ASSUME NEW t \in Threads, MuxUnlock(t) PROVE MuxInv'
    <2>1. PICK m \in muxFiled : muxFiled' = muxFiled \ {m} /\ muxHeld' = muxHeld \ {m}
      BY <1>6 DEF MuxUnlock
    <2>2. UNCHANGED <<muxMade, muxOpen, muxThread>>
      BY <1>6 DEF MuxUnlock
    <2>3. MuxTypes' /\ OnMutex'
      BY <1>types, <1>sets, <2>1, <2>2 DEF MuxTypes, OnMutex, MuxAt
    <2>4. \A n : Filing(n)' = Filing(n)
      BY <2>2 DEF Filing, MuxAt
    <2>5. \A n \in Mutexes : Accounted(n \in muxHeld', n \in muxFiled', Filing(n)')
      BY <1>types, <2>1, <2>4 DEF Accounted
    <2> QED
      BY <1>goal, <2>3, <2>5
  <1>7. ASSUME NEW t \in Threads, MuxDestroy(t) PROVE MuxInv'
    <2>1. PICK m \in 1..muxMade :
             /\ muxHeld' = IF m \in muxFiled THEN muxHeld \ {m} ELSE muxHeld
             /\ muxFiled' = muxFiled \ {m}
             /\ muxThread' = [muxThread EXCEPT ![t] = [at |-> "destroy", on |-> m]]
      BY <1>7 DEF MuxDestroy
    <2>2. m \in Mutexes /\ m \in 0..MaxMutexes
      BY <1>types, MutexNumbers DEF MuxTypes
    <2>3. MuxBecomes(t, "destroy", m)
      BY <1>types, <2>1, <2>2, MuxRecordBecomes DEF MuxPositions
    <2>4. \A n : Filing(n)' = Filing(n)
      BY <1>7, <2>3, FilingKept DEF MuxDestroy, MuxAt
    <2>5. UNCHANGED <<muxMade, muxOpen>> /\ muxHeld' \subseteq Mutexes /\ muxFiled' \subseteq Mutexes
      BY <1>7, <1>sets, <2>1 DEF MuxDestroy
    <2>6. MuxTypes' /\ OnMutex'
      BY <1>types, <1>sets, <2>2, <2>3, <2>5, TypesKept
    <2>7. ASSUME NEW n \in Mutexes
          PROVE  Accounted(n \in muxHeld', n \in muxFiled', Filing(n)')
      <3>1. Accounted(n \in muxHeld, n \in muxFiled, Filing(n))
        BY <1>types
      <3>2. CASE m \in muxFiled
        BY <2>1, <2>4, <3>1, <3>2 DEF Accounted
      <3>3. CASE m \notin muxFiled
        <4>1. muxFiled' = muxFiled /\ muxHeld' = muxHeld
          BY <2>1, <3>3
        <4> QED
          BY <2>4, <3>1, <4>1
      <3> QED
        BY <3>2, <3>3
    <2> QED
      BY <1>goal, <2>6, <2>7
  <1>8. ASSUME NEW t \in Threads, MuxUnregister(t) PROVE MuxInv'
    <2>1. MuxBecomes(t, "idle", muxThread[t].on)
      BY <1>8, <1>types, MuxGoBecomes DEF MuxUnregister, MuxPositions
    <2>2. \A n : Filing(n)' = Filing(n)
      BY <1>8, <2>1, FilingKept DEF MuxUnregister, MuxAt
    <2>3. MuxTypes' /\ OnMutex'
      BY <1>8, <1>types, <1>sets, <2>1, TypesKept DEF MuxUnregister
    <2> QED
      BY <1>8, <1>types, <1>goal, <2>2, <2>3 DEF MuxUnregister
  <1>9. CASE UNCHANGED muxVars
    <2>1. /\ muxMade' = muxMade /\ muxOpen' = muxOpen /\ muxHeld' = muxHeld
          /\ muxFiled' = muxFiled /\ muxThread' = muxThread
      BY <1>9 DEF muxVars
    <2>2. MuxTypes' /\ OnMutex' /\ \A n : Filing(n)' = Filing(n)
      BY <1>types, <2>1 DEF MuxTypes, OnMutex, Filing, MuxAt
    <2> QED
      BY <1>types, <1>goal, <2>1, <2>2
  <1> QED
    BY <1>1, <1>2, <1>3, <1>4, <1>5, <1>6, <1>7, <1>8, <1>9 DEF MuxNext

\* "Sole ownership, dropped when it leaves the registry" (sync_ffi.rs:27): a held
\* mutex has one guard and a free one none, however many threads lock, unlock
\* and destroy however many mutexes.
THEOREM GuardsAlwaysAccounted == MuxSpec => []GuardsAccounted
  <1>1. MuxSpec => []MuxInv
    BY MuxInitial, MuxStep, PTL DEF MuxSpec
  <1>2. MuxInv => GuardsAccounted
    BY DEF MuxInv
  <1> QED
    BY <1>1, <1>2, PTL

-----------------------------------------------------------------------------
(* A mailbox and the timer, for every number of mailboxes, letters and ticks. *)

MailPositions == {"idle", "post", "take", "schedule", "notify"}

MailHeld ==
    /\ mailMade \in 0..MaxMailboxes /\ mailOpen \subseteq Mailers
    /\ mailQueue \in [Mailers -> Seq(Nat \ {0})]
    /\ mailAccepted \in [Mailers -> Nat] /\ mailTaken \in [Mailers -> Nat]

\* A thread that is inside a call, and the timer with a letter, know a mailbox.
MailPlaced ==
    /\ mailThread \in [Threads ->
           [at : MailPositions, on : 0..MaxMailboxes, due : Nat, serial : Nat]]
    /\ \A t \in Threads :
          mailThread[t].at \in {"post", "take", "schedule"} => mailThread[t].on \in Mailers

\* The timer's fields.
TimerFields(at, on, wake) == [at |-> at, on |-> on, wake |-> wake]

TimerPlaced ==
    /\ mailTimer = TimerFields(mailTimer.at, mailTimer.on, mailTimer.wake)
    /\ mailTimer.at \in {"unborn", "look", "deliver", "push", "asleep"}
    /\ mailTimer.at \in {"deliver", "push"} => mailTimer.on \in Mailers

\* No two delayed letters have the same number.
SerialsDiffer ==
    /\ mailNow \in Nat /\ mailSerial \in Nat
    /\ mailHeap \subseteq [due : Nat, serial : Nat, box : Mailers]
    /\ \A i \in mailHeap : i.serial < mailSerial
    /\ \A i, j \in mailHeap : i.serial = j.serial => i = j
    /\ \A t \in Threads : MailAt(t, "schedule") =>
          /\ mailThread[t].serial < mailSerial
          /\ \A i \in mailHeap : i.serial # mailThread[t].serial
          /\ \A u \in Threads \ {t} :
                MailAt(u, "schedule") => mailThread[u].serial # mailThread[t].serial

MailInv ==
    MailHeld /\ MailPlaced /\ TimerPlaced /\ SerialsDiffer /\ LettersOnce /\ NoOversleep

LEMMA MailInitial == MailInit => MailInv
<1> SUFFICES ASSUME MailInit PROVE MailInv
  OBVIOUS
<1>1. MailHeld /\ LettersOnce
  BY MailAssumption DEF MailInit, MailHeld, LettersOnce
<1>2. MailPlaced /\ SerialsDiffer
  BY MailAssumption DEF MailInit, MailPlaced, SerialsDiffer, MailIdle, MailPositions, MailAt
<1>3. TimerPlaced /\ NoOversleep
  BY DEF MailInit, TimerPlaced, TimerFields, NoOversleep, TimerUp
<1> QED
  BY <1>1, <1>2, <1>3 DEF MailInv

\* What each step does to the threads: one moves, and the others stay.
MailMoves(t, at, on, due, serial) ==
    /\ mailThread' \in [Threads ->
           [at : MailPositions, on : 0..MaxMailboxes, due : Nat, serial : Nat]]
    /\ mailThread'[t].at = at /\ mailThread'[t].on = on
    /\ mailThread'[t].due = due /\ mailThread'[t].serial = serial
    /\ \A u \in Threads \ {t} : mailThread'[u] = mailThread[u]

LEMMA MailNames ==
    /\ {"idle", "post", "take", "schedule", "notify"} \subseteq MailPositions
    /\ Mailers \subseteq 0..MaxMailboxes /\ 0 \in 0..MaxMailboxes
    /\ \A n \in 0..MaxMailboxes : n < MaxMailboxes => n + 1 \in Mailers
  BY MailAssumption DEF MailPositions, Mailers

LEMMA MailBack ==
    ASSUME MailPlaced, NEW t \in Threads,
           MailReturns(t)
    PROVE  MailMoves(t, "idle", 0, 0, 0)
  BY MailNames DEF MailPlaced, MailMoves, MailReturns, MailIdle

\* Who moves elsewhere than to the scheduling of a letter disturbs no number.
LEMMA SerialsStay ==
    ASSUME SerialsDiffer, NEW t \in Threads, NEW at, NEW on, NEW due, NEW serial,
           MailMoves(t, at, on, due, serial), at # "schedule",
           UNCHANGED <<mailNow, mailHeap, mailSerial>>
    PROVE  SerialsDiffer'
<1>1. \A u \in Threads : MailAt(u, "schedule")' =>
          u # t /\ MailAt(u, "schedule") /\ mailThread'[u] = mailThread[u]
  BY DEF MailMoves, MailAt
<1> QED
  BY <1>1 DEF SerialsDiffer, MailAt

LEMMA ThreadsPlaced ==
    ASSUME MailPlaced, NEW t \in Threads, NEW at, NEW on, NEW due, NEW serial,
           MailMoves(t, at, on, due, serial),
           at \in {"post", "take", "schedule"} => on \in Mailers
    PROVE  MailPlaced'
<1>1. \A u \in Threads : mailThread'[u].at \in {"post", "take", "schedule"} =>
          mailThread'[u].on \in Mailers
  BY DEF MailPlaced, MailMoves
<1>2. mailThread' \in [Threads ->
          [at : MailPositions, on : 0..MaxMailboxes, due : Nat, serial : Nat]]
  BY DEF MailMoves
<1> QED
  BY <1>1, <1>2 DEF MailPlaced

\* While nobody stops being about to notify, the sleep is not too long.
LEMMA SleepStays ==
    ASSUME NoOversleep, UNCHANGED <<mailHeap, mailTimer>>,
           \A t \in Threads : MailAt(t, "notify") => MailAt(t, "notify")'
    PROVE  NoOversleep'
  BY DEF NoOversleep

LEMMA BoxesStay ==
    ASSUME MailHeld, LettersOnce, UNCHANGED <<mailQueue, mailAccepted, mailTaken>>
    PROVE  LettersOnce'
  BY DEF LettersOnce

-----------------------------------------------------------------------------
(* Letters.                                                                  *)

LEMMA AcceptKeeps ==
    ASSUME MailHeld, LettersOnce, NEW m \in Mailers, Accept(m),
           UNCHANGED <<mailMade, mailOpen, mailTaken>>
    PROVE  MailHeld' /\ LettersOnce'
<1>1. CASE Len(mailQueue[m]) >= MailCapacity
  <2>1. UNCHANGED <<mailQueue, mailAccepted>>
    BY <1>1 DEF Accept
  <2> QED
    BY <2>1 DEF MailHeld, LettersOnce
<1>2. CASE ~(Len(mailQueue[m]) >= MailCapacity)
  <2>1. /\ mailQueue' = [mailQueue EXCEPT ![m] = Append(@, mailAccepted[m] + 1)]
        /\ mailAccepted' = [mailAccepted EXCEPT ![m] = @ + 1]
    BY <1>2 DEF Accept
  <2>2. /\ mailQueue[m] \in Seq(Nat \ {0}) /\ mailAccepted[m] \in Nat
        /\ mailAccepted[m] + 1 \in Nat \ {0}
    BY DEF MailHeld
  <2>3. MailHeld'
    BY <2>1, <2>2 DEF MailHeld
  <2>4. ASSUME NEW n \in Mailers
        PROVE  /\ mailAccepted'[n] = mailTaken'[n] + Len(mailQueue'[n])
               /\ \A i \in DOMAIN mailQueue'[n] : mailQueue'[n][i] = mailTaken'[n] + i
    <3>1. CASE n # m
      BY <2>1, <3>1 DEF LettersOnce, MailHeld
    <3>2. CASE n = m
      <4>1. /\ mailQueue'[m] = Append(mailQueue[m], mailAccepted[m] + 1)
            /\ mailAccepted'[m] = mailAccepted[m] + 1 /\ mailTaken'[m] = mailTaken[m]
        BY <2>1 DEF MailHeld
      <4>2. /\ mailAccepted[m] = mailTaken[m] + Len(mailQueue[m])
            /\ \A i \in DOMAIN mailQueue[m] : mailQueue[m][i] = mailTaken[m] + i
            /\ mailTaken[m] \in Nat
        BY DEF LettersOnce, MailHeld
      <4> QED
        BY <2>2, <3>2, <4>1, <4>2, SMTT(30)
    <3> QED
      BY <3>1, <3>2
  <2>5. LettersOnce'
    BY <2>4 DEF LettersOnce
  <2> QED
    BY <2>3, <2>5
<1> QED
  BY <1>1, <1>2

LEMMA TakeKeeps ==
    ASSUME MailHeld, LettersOnce, MailPlaced, NEW t \in Threads, MailTake(t)
    PROVE  MailHeld' /\ LettersOnce'
<1> DEFINE m == mailThread[t].on
<1>1. m \in Mailers /\ UNCHANGED <<mailMade, mailOpen, mailAccepted>>
  BY DEF MailTake, MailPlaced, MailAt
<1>2. CASE mailQueue[m] = <<>>
  BY <1>1, <1>2 DEF MailTake, MailHeld, LettersOnce
<1>3. CASE mailQueue[m] # <<>>
  <2>1. /\ mailQueue' = [mailQueue EXCEPT ![m] = Tail(@)]
        /\ mailTaken' = [mailTaken EXCEPT ![m] = @ + 1]
    BY <1>3 DEF MailTake
  <2>2. /\ mailQueue[m] \in Seq(Nat \ {0}) /\ mailTaken[m] \in Nat
        /\ Tail(mailQueue[m]) \in Seq(Nat \ {0})
        /\ Len(Tail(mailQueue[m])) = Len(mailQueue[m]) - 1
        /\ \A i \in DOMAIN Tail(mailQueue[m]) : Tail(mailQueue[m])[i] = mailQueue[m][i + 1]
                                               /\ i + 1 \in DOMAIN mailQueue[m]
    BY <1>1, <1>3 DEF MailHeld
  <2>3. MailHeld'
    BY <1>1, <2>1, <2>2 DEF MailHeld
  <2>4. ASSUME NEW n \in Mailers
        PROVE  /\ mailAccepted'[n] = mailTaken'[n] + Len(mailQueue'[n])
               /\ \A i \in DOMAIN mailQueue'[n] : mailQueue'[n][i] = mailTaken'[n] + i
    <3>1. CASE n # m
      BY <1>1, <2>1, <3>1 DEF LettersOnce, MailHeld
    <3>2. CASE n = m
      <4>1. /\ mailQueue'[m] = Tail(mailQueue[m])
            /\ mailTaken'[m] = mailTaken[m] + 1 /\ mailAccepted'[m] = mailAccepted[m]
        BY <1>1, <2>1 DEF MailHeld
      <4>2. /\ mailAccepted[m] = mailTaken[m] + Len(mailQueue[m])
            /\ \A i \in DOMAIN mailQueue[m] : mailQueue[m][i] = mailTaken[m] + i
            /\ Len(mailQueue[m]) \in Nat
            /\ DOMAIN Tail(mailQueue[m]) \subseteq Nat
        <5>1. PICK q : q = mailQueue[m] /\ q \in Seq(Nat)
          BY <1>1 DEF MailHeld
        <5>2. Len(q) \in Nat /\ DOMAIN Tail(q) = 1..Len(Tail(q)) /\ Len(Tail(q)) \in Nat
          BY <2>2, <5>1
        <5>3. DOMAIN Tail(q) \subseteq Nat
          BY <5>2
        <5>4. /\ mailAccepted[m] = mailTaken[m] + Len(mailQueue[m])
              /\ \A i \in DOMAIN mailQueue[m] : mailQueue[m][i] = mailTaken[m] + i
          BY <1>1 DEF LettersOnce
        <5> QED
          BY <5>1, <5>2, <5>3, <5>4
      <4> HIDE DEF m
      <4>3. mailAccepted[m] = (mailTaken[m] + 1) + (Len(mailQueue[m]) - 1)
        BY <2>2, <4>2
      <4>4. \A i \in DOMAIN Tail(mailQueue[m]) :
                Tail(mailQueue[m])[i] = (mailTaken[m] + 1) + i
        <5> TAKE i \in DOMAIN Tail(mailQueue[m])
        <5>1. i \in Nat /\ Tail(mailQueue[m])[i] = mailTaken[m] + (i + 1)
          BY <2>2, <4>2
        <5>2. mailTaken[m] \in Nat
          BY <2>2
        <5>3. (mailTaken[m] + 1) + i = mailTaken[m] + (i + 1)
          BY <5>1, <5>2
        <5> QED
          BY <5>1, <5>3
      <4> QED
        BY <2>2, <3>2, <4>1, <4>3, <4>4
    <3> QED
      BY <3>1, <3>2
  <2>5. LettersOnce'
    BY <2>4 DEF LettersOnce
  <2> QED
    BY <2>3, <2>5
<1> QED
  BY <1>2, <1>3

-----------------------------------------------------------------------------
(* The timer.                                                                *)

\* There is a first letter: of those that are due first the one that was
\* numbered first.
LEMMA TopIsFirst ==
    ASSUME SerialsDiffer, mailHeap # {}
    PROVE  Top \in mailHeap /\ \A j \in mailHeap \ {Top} : Earlier(Top, j)
<1> DEFINE Dues == {i.due : i \in mailHeap}
<1>1. Dues \subseteq Nat /\ Dues # {}
  BY DEF SerialsDiffer
<1>2. PICK d \in Dues : \A y \in Dues : ~ (<<y, d>> \in OpToRel(<, Nat))
  <2> HIDE DEF Dues
  <2> QED
    BY <1>1, NatLessThanWellFounded, WFMin
<1>3. \A y \in Dues : ~(y < d)
  BY <1>1, <1>2 DEF OpToRel
<1> DEFINE Serials == {i.serial : i \in {j \in mailHeap : j.due = d}}
<1>4. Serials \subseteq Nat /\ Serials # {}
  BY DEF SerialsDiffer
<1>5. PICK n \in Serials : \A y \in Serials : ~ (<<y, n>> \in OpToRel(<, Nat))
  <2> HIDE DEF Serials
  <2> QED
    BY <1>4, NatLessThanWellFounded, WFMin
<1>6. \A y \in Serials : ~(y < n)
  BY <1>4, <1>5 DEF OpToRel
<1>7. PICK i \in mailHeap : i.due = d /\ i.serial = n
  BY <1>5
<1>8. ASSUME NEW j \in mailHeap \ {i} PROVE Earlier(i, j)
  <2>1. j.due \in Nat /\ j.serial \in Nat /\ d \in Nat /\ n \in Nat
    BY <1>1, <1>4 DEF SerialsDiffer
  <2>2. ~(j.due < d)
    BY <1>3
  <2>3. j.due = d => ~(j.serial < n) /\ j.serial # n
    BY <1>6, <1>7 DEF SerialsDiffer
  <2> QED
    BY <1>7, <2>1, <2>2, <2>3 DEF Earlier
<1>9. \A j \in mailHeap \ {i} : Earlier(i, j)
  BY <1>8
<1> HIDE DEF Dues, Serials
<1> QED
  BY <1>9 DEF Top

\* No letter is due before the first.
LEMMA TopIsDueFirst ==
    ASSUME SerialsDiffer, mailHeap # {}
    PROVE  Top \in mailHeap /\ Top.box \in Mailers /\ Top.due \in Nat
           /\ \A i \in mailHeap : Top.due <= i.due
<1>1. Top \in mailHeap /\ \A j \in mailHeap \ {Top} : Earlier(Top, j)
  BY TopIsFirst
<1>2. \A i \in mailHeap : i.due \in Nat /\ i.box \in Mailers
  BY DEF SerialsDiffer
<1> QED
  BY <1>1, <1>2 DEF Earlier

LEMMA LookKeeps ==
    ASSUME MailInv, TimerLooks
    PROVE  TimerPlaced' /\ SerialsDiffer' /\ NoOversleep'
<1>1. CASE mailHeap # {} /\ Top.due <= mailNow
  <2>1. /\ mailTimer' = [mailTimer EXCEPT !.at = "deliver", !.on = Top.box]
        /\ mailHeap' = mailHeap \ {Top} /\ UNCHANGED <<mailNow, mailSerial, mailThread>>
    BY <1>1 DEF TimerLooks
  <2>2. Top.box \in Mailers
    BY <1>1, TopIsDueFirst DEF MailInv
  <2>3. mailTimer'.at = "deliver" /\ mailTimer'.on \in Mailers
    BY <2>1, <2>2 DEF MailInv, TimerPlaced, TimerFields
  <2>4. SerialsDiffer'
    BY <2>1 DEF MailInv, SerialsDiffer, MailAt
  <2> QED
    BY <2>1, <2>3, <2>4 DEF MailInv, TimerPlaced, TimerFields, NoOversleep
<1>2. CASE ~(mailHeap # {} /\ Top.due <= mailNow)
  <2>1. /\ mailTimer' = [at |-> "asleep", on |-> 0,
                         wake |-> IF mailHeap = {} THEN Never ELSE Top.due]
        /\ UNCHANGED <<mailNow, mailHeap, mailSerial, mailThread>>
    BY <1>2 DEF TimerLooks
  <2>2. TimerPlaced'
    BY <2>1 DEF TimerPlaced, TimerFields
  <2>3. SerialsDiffer'
    BY <2>1 DEF MailInv, SerialsDiffer, MailAt
  <2>4. \A i \in mailHeap' : mailTimer'.wake # Never /\ mailTimer'.wake <= i.due
    BY <2>1, TopIsDueFirst DEF MailInv, Never
  <2> QED
    BY <2>2, <2>3, <2>4 DEF NoOversleep
<1> QED
  BY <1>1, <1>2

-----------------------------------------------------------------------------
(* Every step.                                                               *)

\* A call of a thread that leaves the timer's letters alone.
LEMMA CallKeeps ==
    ASSUME MailInv, NEW t \in Threads, NEW at, NEW on, NEW due, NEW serial,
           MailMoves(t, at, on, due, serial), at # "schedule",
           at \in {"post", "take"} => on \in Mailers,
           ~MailAt(t, "notify"), UNCHANGED mailClock
    PROVE  MailPlaced' /\ TimerPlaced' /\ SerialsDiffer' /\ NoOversleep'
<1>1. UNCHANGED <<mailNow, mailHeap, mailSerial, mailTimer>>
  BY DEF mailClock
<1>2. MailPlaced' /\ SerialsDiffer'
  BY <1>1, ThreadsPlaced, SerialsStay DEF MailInv
<1>3. TimerPlaced'
  BY <1>1 DEF MailInv, TimerPlaced
<1>4. \A u \in Threads : MailAt(u, "notify") => MailAt(u, "notify")'
  BY DEF MailMoves, MailAt
<1> QED
  BY <1>1, <1>2, <1>3, <1>4, SleepStays DEF MailInv

LEMMA CallStep ==
    ASSUME MailInv, NEW t \in Threads,
           MailCreate(t) \/ MailClose(t) \/ MailLookup(t) \/ MailPost(t) \/ MailTake(t)
    PROVE  MailInv'
<1>1. ASSUME MailCreate(t) \/ MailClose(t)
      PROVE  MailInv'
  <2>1. /\ UNCHANGED <<mailQueue, mailAccepted, mailTaken, mailNow, mailHeap, mailSerial,
                       mailTimer, mailThread>>
    BY <1>1 DEF MailCreate, MailClose, mailClock
  <2>2. MailHeld'
    BY <1>1, <2>1, MailNames DEF MailCreate, MailClose, MailInv, MailHeld
  <2>3. MailPlaced' /\ TimerPlaced' /\ SerialsDiffer' /\ NoOversleep' /\ LettersOnce'
    BY <2>1 DEF MailInv, MailPlaced, TimerPlaced, SerialsDiffer, NoOversleep, LettersOnce,
                MailAt
  <2> QED
    BY <2>2, <2>3 DEF MailInv
<1>2. ASSUME MailLookup(t)
      PROVE  MailInv'
  <2>1. UNCHANGED <<mailBoxes, mailClock>> /\ ~MailAt(t, "notify")
    BY <1>2 DEF MailLookup, MailAt
  <2>2. PICK m \in mailOpen, at \in {"post", "take"} :
            mailThread' = [mailThread EXCEPT ![t].at = at, ![t].on = m]
    BY <1>2 DEF MailLookup
  <2>3. m \in Mailers
    BY DEF MailInv, MailHeld
  <2>4. MailMoves(t, at, m, mailThread[t].due, mailThread[t].serial)
    BY <2>2, <2>3, MailNames DEF MailInv, MailPlaced, MailMoves
  <2>5. MailPlaced' /\ TimerPlaced' /\ SerialsDiffer' /\ NoOversleep'
    BY <2>1, <2>3, <2>4, CallKeeps
  <2>6. MailHeld' /\ LettersOnce'
    BY <2>1 DEF mailBoxes, MailInv, MailHeld, LettersOnce
  <2> QED
    BY <2>5, <2>6 DEF MailInv
<1>3. ASSUME MailPost(t) \/ MailTake(t)
      PROVE  MailInv'
  <2>1. MailReturns(t) /\ UNCHANGED mailClock /\ ~MailAt(t, "notify")
    BY <1>3 DEF MailPost, MailTake, MailAt
  <2>2. MailPlaced' /\ TimerPlaced' /\ SerialsDiffer' /\ NoOversleep'
    BY <2>1, MailBack, CallKeeps DEF MailInv
  <2>3. MailHeld' /\ LettersOnce'
    <3>1. CASE MailPost(t)
      <4>1. mailThread[t].on \in Mailers
        BY <3>1 DEF MailPost, MailInv, MailPlaced, MailAt
      <4> QED
        BY <3>1, <4>1, AcceptKeeps DEF MailPost, MailInv
    <3>2. CASE MailTake(t)
      BY <3>2, TakeKeeps DEF MailInv
    <3> QED
      BY <1>3, <3>1, <3>2
  <2> QED
    BY <2>2, <2>3 DEF MailInv
<1> QED
  BY <1>1, <1>2, <1>3

LEMMA ScheduleStep ==
    ASSUME MailInv, NEW t \in Threads, Schedule(t)
    PROVE  MailInv'
<1>1. PICK m \in Mailers, d \in Delays :
          mailThread' = [mailThread EXCEPT ![t] =
              [at |-> "schedule", on |-> m, due |-> mailNow + d, serial |-> mailSerial]]
  BY DEF Schedule
<1>2. /\ MailAt(t, "idle") /\ UNCHANGED mailBoxes /\ UNCHANGED <<mailNow, mailHeap>>
      /\ mailSerial' = mailSerial + 1
      /\ mailTimer' = IF mailTimer.at = "unborn" THEN TimerUp ELSE mailTimer
  BY DEF Schedule
<1>3. mailNow + d \in Nat /\ mailSerial \in Nat
  BY MailAssumption DEF MailInv, SerialsDiffer
<1>4. MailMoves(t, "schedule", m, mailNow + d, mailSerial)
  BY <1>1, <1>3, MailNames DEF MailInv, MailPlaced, MailMoves
<1>5. MailHeld' /\ LettersOnce'
  BY <1>2 DEF mailBoxes, MailInv, MailHeld, LettersOnce
<1>6. MailPlaced'
  BY <1>4, ThreadsPlaced DEF MailInv
<1>7. TimerPlaced'
  BY <1>2 DEF MailInv, TimerPlaced, TimerUp, TimerFields
<1>8. NoOversleep'
  <2>1. \A u \in Threads : MailAt(u, "notify") => MailAt(u, "notify")'
    BY <1>2, <1>4 DEF MailMoves, MailAt
  <2> QED
    BY <1>2, <2>1 DEF MailInv, NoOversleep, TimerUp
<1>9. SerialsDiffer'
  <2>1. \A u \in Threads : MailAt(u, "schedule")' =>
            \/ u = t /\ mailThread'[u].serial = mailSerial
            \/ u # t /\ MailAt(u, "schedule") /\ mailThread'[u] = mailThread[u]
    BY <1>4 DEF MailMoves, MailAt
  <2>2. \A i \in mailHeap : i.serial \in Nat /\ i.serial < mailSerial
    BY DEF MailInv, SerialsDiffer
  <2>3. \A u \in Threads : MailAt(u, "schedule") =>
            mailThread[u].serial \in Nat /\ mailThread[u].serial < mailSerial
    BY DEF MailInv, SerialsDiffer, MailPlaced
  <2>4. /\ \A i \in mailHeap' : i.serial < mailSerial'
        /\ \A i, j \in mailHeap' : i.serial = j.serial => i = j
        /\ mailNow' \in Nat /\ mailSerial' \in Nat
        /\ mailHeap' \subseteq [due : Nat, serial : Nat, box : Mailers]
    BY <1>2, <1>3, <2>2 DEF MailInv, SerialsDiffer
  <2>5. ASSUME NEW u \in Threads, MailAt(u, "schedule")'
        PROVE  /\ mailThread'[u].serial < mailSerial'
               /\ \A i \in mailHeap' : i.serial # mailThread'[u].serial
               /\ \A v \in Threads \ {u} :
                     MailAt(v, "schedule")' => mailThread'[v].serial # mailThread'[u].serial
    <3>1. mailThread'[u].serial < mailSerial'
      BY <1>2, <1>3, <2>1, <2>3, <2>5
    <3>2. \A i \in mailHeap' : i.serial # mailThread'[u].serial
      BY <1>2, <1>3, <2>1, <2>2, <2>5 DEF MailInv, SerialsDiffer
    <3>3. ASSUME NEW v \in Threads \ {u}, MailAt(v, "schedule")'
          PROVE  mailThread'[v].serial # mailThread'[u].serial
      <4>1. CASE u # t /\ v # t
        BY <2>1, <2>5, <3>3, <4>1 DEF MailInv, SerialsDiffer
      <4>2. CASE u = t \/ v = t
        BY <1>3, <2>1, <2>3, <2>5, <3>3, <4>2
      <4> QED
        BY <4>1, <4>2
    <3> QED
      BY <3>1, <3>2, <3>3
  <2> QED
    BY <2>4, <2>5 DEF SerialsDiffer, MailAt
<1> QED
  BY <1>5, <1>6, <1>7, <1>8, <1>9 DEF MailInv

LEMMA PushStep ==
    ASSUME MailInv, NEW t \in Threads, SchedulePush(t)
    PROVE  MailInv'
<1>1. /\ MailAt(t, "schedule") /\ mailHeap' = mailHeap \cup {ItemOf(t)}
      /\ mailThread' = [mailThread EXCEPT ![t] = [MailIdle EXCEPT !.at = "notify"]]
      /\ UNCHANGED mailBoxes /\ UNCHANGED <<mailNow, mailSerial, mailTimer>>
  BY DEF SchedulePush
<1>2. MailMoves(t, "notify", 0, 0, 0)
  BY <1>1, MailNames DEF MailInv, MailPlaced, MailMoves, MailIdle
<1>3. MailHeld' /\ LettersOnce'
  BY <1>1 DEF mailBoxes, MailInv, MailHeld, LettersOnce
<1>4. MailPlaced' /\ TimerPlaced'
  BY <1>1, <1>2, ThreadsPlaced DEF MailInv, TimerPlaced
<1>5. NoOversleep'
  BY <1>2 DEF NoOversleep, MailMoves, MailAt
<1>6. /\ ItemOf(t) \in [due : Nat, serial : Nat, box : Mailers]
      /\ ItemOf(t).serial = mailThread[t].serial
  BY <1>1 DEF ItemOf, MailInv, MailPlaced, MailAt
<1>7. SerialsDiffer'
  <2>1. \A u \in Threads : MailAt(u, "schedule")' =>
            u # t /\ MailAt(u, "schedule") /\ mailThread'[u] = mailThread[u]
    BY <1>2 DEF MailMoves, MailAt
  <2>2. /\ \A i \in mailHeap' : i.serial < mailSerial'
        /\ \A i, j \in mailHeap' : i.serial = j.serial => i = j
        /\ mailNow' \in Nat /\ mailSerial' \in Nat
        /\ mailHeap' \subseteq [due : Nat, serial : Nat, box : Mailers]
    BY <1>1, <1>6 DEF MailInv, SerialsDiffer
  <2>3. ASSUME NEW u \in Threads, MailAt(u, "schedule")'
        PROVE  /\ mailThread'[u].serial < mailSerial'
               /\ \A i \in mailHeap' : i.serial # mailThread'[u].serial
               /\ \A v \in Threads \ {u} :
                     MailAt(v, "schedule")' => mailThread'[v].serial # mailThread'[u].serial
    BY <1>1, <1>6, <2>1, <2>3 DEF MailInv, SerialsDiffer
  <2> QED
    BY <2>2, <2>3 DEF SerialsDiffer, MailAt
<1> QED
  BY <1>3, <1>4, <1>5, <1>7 DEF MailInv

LEMMA NotifyStep ==
    ASSUME MailInv, NEW t \in Threads, ScheduleNotify(t)
    PROVE  MailInv'
<1>1. /\ mailTimer' = IF mailTimer.at = "asleep" THEN TimerUp ELSE mailTimer
      /\ MailReturns(t)
      /\ UNCHANGED mailBoxes /\ UNCHANGED <<mailNow, mailHeap, mailSerial>>
  BY DEF ScheduleNotify
<1>2. MailMoves(t, "idle", 0, 0, 0)
  BY <1>1, MailBack DEF MailInv
<1>3. MailHeld' /\ LettersOnce'
  BY <1>1 DEF mailBoxes, MailInv, MailHeld, LettersOnce
<1>4. MailPlaced' /\ SerialsDiffer'
  BY <1>1, <1>2, ThreadsPlaced, SerialsStay DEF MailInv
<1>5. TimerPlaced' /\ mailTimer'.at # "asleep"
  BY <1>1 DEF MailInv, TimerPlaced, TimerUp, TimerFields
<1>6. NoOversleep'
  BY <1>5 DEF NoOversleep
<1> QED
  BY <1>3, <1>4, <1>5, <1>6 DEF MailInv

LEMMA TimerStep ==
    ASSUME MailInv, TimerLooks \/ TimerPosts \/ TimerPushes \/ TimerWakes \/ MailTick
    PROVE  MailInv'
<1>1. UNCHANGED mailThread
  BY DEF TimerLooks, TimerPosts, TimerPushes, TimerWakes, MailTick
<1>2. MailPlaced'
  BY <1>1 DEF MailInv, MailPlaced
<1>3. CASE TimerLooks
  <2>1. MailHeld' /\ LettersOnce'
    BY <1>3 DEF TimerLooks, mailBoxes, MailInv, MailHeld, LettersOnce
  <2> QED
    BY <1>2, <1>3, <2>1, LookKeeps DEF MailInv
<1>4. CASE TimerPosts \/ TimerPushes \/ TimerWakes
  <2>1. UNCHANGED <<mailNow, mailHeap, mailSerial>>
    BY <1>4 DEF TimerPosts, TimerPushes, TimerWakes
  <2>2. SerialsDiffer'
    BY <1>1, <2>1 DEF MailInv, SerialsDiffer, MailAt
  <2>3. TimerPlaced' /\ mailTimer'.at # "asleep"
    BY <1>4 DEF TimerPosts, TimerPushes, TimerWakes, MailInv, TimerPlaced, TimerUp,
                TimerFields
  <2>4. MailHeld' /\ LettersOnce'
    <3>1. CASE TimerPosts \/ TimerWakes
      BY <3>1 DEF TimerPosts, TimerWakes, mailBoxes, MailInv, MailHeld, LettersOnce
    <3>2. CASE TimerPushes
      <4>1. mailTimer.on \in Mailers
        BY <3>2 DEF TimerPushes, MailInv, TimerPlaced
      <4> QED
        BY <3>2, <4>1, AcceptKeeps DEF TimerPushes, MailInv
    <3> QED
      BY <1>4, <3>1, <3>2
  <2> QED
    BY <1>2, <2>2, <2>3, <2>4 DEF MailInv, NoOversleep
<1>5. CASE MailTick
  <2>1. /\ mailNow' = mailNow + 1
        /\ UNCHANGED mailBoxes /\ UNCHANGED <<mailHeap, mailSerial, mailTimer, mailThread>>
    BY <1>5 DEF MailTick
  <2>2. MailHeld' /\ LettersOnce'
    BY <2>1 DEF mailBoxes, MailInv, MailHeld, LettersOnce
  <2>3. TimerPlaced' /\ SerialsDiffer' /\ NoOversleep'
    BY <2>1 DEF MailInv, TimerPlaced, SerialsDiffer, NoOversleep, MailAt
  <2> QED
    BY <1>2, <2>2, <2>3 DEF MailInv
<1> QED
  BY <1>3, <1>4, <1>5

LEMMA MailInvariant == MailInit /\ [][MailNext]_mailVars => []MailInv
<1>1. ASSUME MailInv, [MailNext]_mailVars PROVE MailInv'
  <2>1. CASE UNCHANGED mailVars
    BY <1>1, <2>1 DEF mailVars, MailInv, MailHeld, MailPlaced, TimerPlaced, SerialsDiffer,
                      LettersOnce, NoOversleep, MailAt
  <2>2. CASE MailNext
    BY <1>1, <2>2, CallStep, ScheduleStep, PushStep, NotifyStep, TimerStep DEF MailNext
  <2> QED
    BY <1>1, <2>1, <2>2
<1> QED
  BY <1>1, MailInitial, PTL

\* "What is full refuses, and does not drop the oldest" (mailbox_ffi.rs:27): of all
\* letters, those of the timer among them, each that was accepted is in its mailbox
\* or was taken, once and in the order in which they were accepted.
THEOREM LettersAreTakenOnce == MailInit /\ [][MailNext]_mailVars => []LettersOnce
<1>1. MailInv => LettersOnce
  BY DEF MailInv
<1> QED
  BY <1>1, MailInvariant, PTL

\* The timer never sleeps beyond a letter that is due, but for the time that a
\* notification takes to arrive (mailbox_ffi.rs:254).
THEOREM TimerNeverOversleeps == MailInit /\ [][MailNext]_mailVars => []NoOversleep
<1>1. MailInv => NoOversleep
  BY DEF MailInv
<1> QED
  BY <1>1, MailInvariant, PTL

-----------------------------------------------------------------------------
(* An LLM session and its streams (LlmStreams).                              *)

LlmMessages == [from : Speakers, question : Nat]
LlmKinds == Asking \cup {"exchange", "none"}
LlmRequests == {"whole", "stream"} \X BOOLEAN \X Seq(Speakers)
LlmThreads == [at : {"idle", "asking", "exchanged", "opening", "reading", "taping", "saving"},
               kind : LlmKinds, question : Nat, more : 0..1, stream : Nat,
               request : LlmRequests \cup {<<>>}, revision : Int, history : Seq(LlmMessages)]
LlmTaskSet == [at : {"asking", "answered"}, question : Nat, request : LlmRequests, may : BOOLEAN]
LlmStreamSet == [at : {"open", "closed", "taped"}, kind : LlmKinds, question : Nat,
                 request : LlmRequests \cup {<<>>}, records : BOOLEAN, sent : Nat, read : Nat,
                 done : BOOLEAN, ended : BOOLEAN]

\* What the conversation's variables are.
LlmShapes ==
    /\ llmHistory \in Seq(LlmMessages) /\ llmRevision \in Nat
    /\ llmLimit \in Nat /\ llmSpent \in Nat /\ llmAsked \in Nat
    /\ llmThread \in [Threads -> LlmThreads]
    /\ llmTasks \subseteq LlmTaskSet
    /\ \A r \in DOMAIN llmTape : llmTape[r] \in Nat
    /\ llmStreams \in Seq(LlmStreamSet)

\* A thread is somewhere else, the others are where they were, and what each has
\* read stays with it.
LlmSteps(t, at, s) ==
    /\ llmThread' \in [Threads -> LlmThreads]
    /\ llmThread'[t].at = at /\ llmThread'[t].stream = s
    /\ llmThread'[t].revision = llmThread[t].revision
    /\ llmThread'[t].history = llmThread[t].history
    /\ \A u \in Threads \ {t} : llmThread'[u] = llmThread[u]

LEMMA LlmRecordSteps ==
    ASSUME LlmShapes, NEW t \in Threads, NEW to \in LlmThreads,
           llmThread' = [llmThread EXCEPT ![t] = to],
           to.revision = llmThread[t].revision, to.history = llmThread[t].history
    PROVE  LlmSteps(t, to.at, to.stream)
  BY DEF LlmShapes, LlmSteps

LEMMA LlmReturnsSteps ==
    ASSUME LlmShapes, NEW t \in Threads, LlmReturns(t)
    PROVE  LlmSteps(t, "idle", 0)
<1> DEFINE to == [LlmIdle EXCEPT !.revision = llmThread[t].revision,
                                 !.history = llmThread[t].history]
<1>1. llmThread[t].revision \in Int /\ llmThread[t].history \in Seq(LlmMessages)
  BY DEF LlmShapes, LlmThreads
<1>2. LlmIdle \in LlmThreads /\ LlmIdle.at = "idle" /\ LlmIdle.stream = 0
  <2>1. <<>> \in Seq(LlmMessages) /\ -1 \in Int
    OBVIOUS
  <2> QED
    BY <2>1 DEF LlmIdle, LlmThreads, LlmKinds
<1>3. to \in LlmThreads
  BY <1>1, <1>2 DEF LlmThreads
<1>4. /\ to.at = "idle" /\ to.stream = 0 /\ to.revision = llmThread[t].revision
      /\ to.history = llmThread[t].history
  BY <1>2 DEF LlmThreads
<1>5. llmThread' = [llmThread EXCEPT ![t] = to]
  BY DEF LlmReturns
<1> HIDE DEF to
<1> QED
  BY <1>3, <1>4, <1>5, LlmRecordSteps

LEMMA LlmGoesSteps ==
    ASSUME LlmShapes, NEW t \in Threads,
           NEW p \in {"asking", "exchanged", "opening", "reading", "taping", "saving"},
           LlmGoes(t, p)
    PROVE  LlmSteps(t, p, llmThread[t].stream)
<1> DEFINE to == [llmThread[t] EXCEPT !.at = p]
<1>1. llmThread[t] \in LlmThreads
  BY DEF LlmShapes
<1>2. /\ to \in LlmThreads /\ to.at = p /\ to.stream = llmThread[t].stream
      /\ to.revision = llmThread[t].revision /\ to.history = llmThread[t].history
  BY <1>1 DEF LlmThreads
<1>3. llmThread' = [llmThread EXCEPT ![t] = to]
  BY DEF LlmGoes
<1> HIDE DEF to
<1> QED
  BY <1>2, <1>3, LlmRecordSteps

\* A thread that turns to a stream.
LEMMA LlmTurnsTo ==
    ASSUME LlmShapes, NEW t \in Threads, NEW p \in {"reading", "taping"}, NEW s \in Nat,
           llmThread' = [llmThread EXCEPT ![t] = [@ EXCEPT !.at = p, !.stream = s]]
    PROVE  LlmSteps(t, p, s)
<1> DEFINE to == [llmThread[t] EXCEPT !.at = p, !.stream = s]
<1>1. llmThread[t] \in LlmThreads
  BY DEF LlmShapes
<1>2. /\ to \in LlmThreads /\ to.at = p /\ to.stream = s
      /\ to.revision = llmThread[t].revision /\ to.history = llmThread[t].history
  BY <1>1 DEF LlmThreads
<1>3. llmThread' = [llmThread EXCEPT ![t] = to]
  OBVIOUS
<1> HIDE DEF to
<1> QED
  BY <1>2, <1>3, LlmRecordSteps

\* Who speaks in a request.
LEMMA LlmRequestTyped ==
    ASSUME LlmShapes, NEW way \in {"whole", "stream"}, NEW kind
    PROVE  Request(way, kind) \in LlmRequests
<1> DEFINE who == [i \in DOMAIN llmHistory |-> llmHistory[i].from]
<1>1. llmHistory \in Seq(LlmMessages) /\ DOMAIN llmHistory = 1..Len(llmHistory)
      /\ Len(llmHistory) \in Nat
  BY DEF LlmShapes
<1>2. \A i \in DOMAIN llmHistory : llmHistory[i].from \in Speakers
  <2>1. \A i \in DOMAIN llmHistory : llmHistory[i] \in LlmMessages
    BY <1>1
  <2> QED
    BY <2>1 DEF LlmMessages
<1>3. who \in Seq(Speakers)
  BY <1>1, <1>2
<1> HIDE DEF who
<1>4. <<>> \in Seq(Speakers) /\ <<"user">> \in Seq(Speakers)
  BY DEF Speakers
<1>5. Says(kind) \in Seq(Speakers)
  BY <1>4 DEF Says
<1>6. who \o Says(kind) \in Seq(Speakers)
  BY <1>3, <1>5
<1>7. (kind \in WithTools) \in BOOLEAN
  OBVIOUS
<1>8. Request(way, kind) = <<way, kind \in WithTools, who \o Says(kind)>>
  BY DEF Request, who
<1>9. \A b \in BOOLEAN, q \in Seq(Speakers) : <<way, b, q>> \in LlmRequests
  BY DEF LlmRequests
<1> QED
  BY <1>6, <1>7, <1>8, <1>9

LEMMA LlmQuestionSteps ==
    ASSUME LlmShapes, NEW t \in Threads, NEW call, NEW way \in {"whole", "stream"},
           NEW kind \in Asking \cup {"exchange"}, NEW p \in {"asking", "opening"},
           Question(t, call, way, kind, p)
    PROVE  LlmSteps(t, p, llmThread[t].stream)
<1> DEFINE to == [llmThread[t] EXCEPT !.at = p, !.kind = kind, !.question = llmAsked + 1,
                                      !.request = Request(way, kind)]
<1>1. llmThread[t] \in LlmThreads /\ llmAsked + 1 \in Nat /\ Request(way, kind) \in LlmRequests
  BY LlmRequestTyped DEF LlmShapes
<1>2. /\ to \in LlmThreads /\ to.at = p /\ to.stream = llmThread[t].stream
      /\ to.revision = llmThread[t].revision /\ to.history = llmThread[t].history
  BY <1>1 DEF LlmThreads, LlmKinds
<1>3. llmThread' = [llmThread EXCEPT ![t] = to]
  BY DEF Question
<1> HIDE DEF to
<1> QED
  BY <1>2, <1>3, LlmRecordSteps

LEMMA LlmMoreSteps ==
    ASSUME LlmShapes, NEW t \in Threads, llmThread' = [llmThread EXCEPT ![t].more = 1]
    PROVE  LlmSteps(t, llmThread[t].at, llmThread[t].stream)
<1> DEFINE to == [llmThread[t] EXCEPT !.more = 1]
<1>1. llmThread[t] \in LlmThreads
  BY DEF LlmShapes
<1>2. /\ to \in LlmThreads /\ to.at = llmThread[t].at /\ to.stream = llmThread[t].stream
      /\ to.revision = llmThread[t].revision /\ to.history = llmThread[t].history
  BY <1>1 DEF LlmThreads
<1>3. llmThread' = [llmThread EXCEPT ![t] = to]
  OBVIOUS
<1> HIDE DEF to
<1> QED
  BY <1>2, <1>3, LlmRecordSteps

-----------------------------------------------------------------------------
(* What is said stays in order: what steps do to the history, to what the    *)
(* threads have read of it, and to the budget.                               *)

LlmHistoryMoves ==
    \/ UNCHANGED <<llmHistory, llmRevision>>
    \/ /\ llmRevision' = llmRevision + 1
       /\ \/ \E q \in Nat : llmHistory' = llmHistory \o Turn(q)
          \/ \E q \in Nat : llmHistory' = llmHistory \o <<Message("assistant", q)>>
          \/ llmHistory' = llmHistory \o <<Message("tool", 0)>>
          \/ llmHistory' = <<>>
          \/ llmHistory' = <<Message("summary", 0)>>

LlmReads ==
    \A u \in Threads :
       \/ /\ llmThread'[u].revision = llmThread[u].revision
          /\ llmThread'[u].history = llmThread[u].history
       \/ /\ llmThread'[u].revision = llmRevision /\ llmThread'[u].history = llmHistory
          /\ UNCHANGED <<llmHistory, llmRevision>>

\* Threads whose question was within the budget and is not accounted for yet.
LlmOwing == {t \in Threads : llmThread[t].at \in {"asking", "exchanged"}}

LlmCharges ==
    \/ /\ UNCHANGED <<llmLimit, llmSpent>> /\ llmAsked' \in {llmAsked, llmAsked + 1}
       /\ LlmOwing' \subseteq LlmOwing
    \/ /\ UNCHANGED <<llmLimit, llmSpent>> /\ llmAsked' = llmAsked + 1
       /\ WithinBudget(llmSpent)
    \/ /\ UNCHANGED <<llmLimit, llmAsked>> /\ llmSpent' = llmSpent + 1
       /\ \E t \in LlmOwing : LlmOwing' \subseteq LlmOwing \ {t}
    \/ /\ UNCHANGED <<llmLimit, llmAsked>> /\ llmSpent' = llmSpent + 1
       /\ LlmOwing # {} /\ LlmOwing' \subseteq LlmOwing /\ WithinBudget(llmSpent + 1)
    \/ /\ UNCHANGED <<llmSpent, llmAsked>> /\ llmAsked = 0 /\ llmLimit' \in Nat \ {0}
       /\ LlmOwing' \subseteq LlmOwing

\* A revision somebody has read is one the history had, and has if it is the last.
RevisionsRead ==
    \A t \in Threads : /\ llmThread[t].revision <= llmRevision
                       /\ llmThread[t].revision = llmRevision => llmThread[t].history = llmHistory

\* Who is still to be charged is one of those who may be one too many.
BudgetOwed ==
    /\ llmAsked = 0 => llmSpent = 0 /\ LlmOwing = {}
    /\ llmLimit > 0 =>
          llmSpent + Cardinality(LlmOwing) <= llmLimit - 1 + Cardinality(Threads)

\* A history that questions and their answers are added to.
LEMMA AnsweredAppend ==
    ASSUME NEW h \in Seq(LlmMessages), NEW b \in Seq(LlmMessages),
           \A i \in DOMAIN h : h[i].from = "user" =>
              i < Len(h) /\ h[i + 1] = Message("assistant", h[i].question),
           \A i \in DOMAIN b : b[i].from = "user" =>
              i < Len(b) /\ b[i + 1] = Message("assistant", b[i].question)
    PROVE  /\ h \o b \in Seq(LlmMessages)
           /\ \A i \in DOMAIN (h \o b) : (h \o b)[i].from = "user" =>
                 /\ i < Len(h \o b)
                 /\ (h \o b)[i + 1] = Message("assistant", (h \o b)[i].question)
<1> DEFINE w == h \o b
<1>1. /\ w \in Seq(LlmMessages) /\ Len(w) = Len(h) + Len(b)
      /\ DOMAIN w = 1..Len(w) /\ DOMAIN h = 1..Len(h) /\ DOMAIN b = 1..Len(b)
      /\ Len(h) \in Nat /\ Len(b) \in Nat
  OBVIOUS
<1>2. /\ \A i \in 1..Len(h) : w[i] = h[i]
      /\ \A i \in 1..Len(b) : w[Len(h) + i] = b[i]
  OBVIOUS
<1> HIDE DEF w
<1>3. ASSUME NEW i \in DOMAIN w, w[i].from = "user"
      PROVE  i < Len(w) /\ w[i + 1] = Message("assistant", w[i].question)
  <2>1. CASE i \in 1..Len(h)
    <3>1. w[i] = h[i] /\ i < Len(h) /\ h[i + 1] = Message("assistant", h[i].question)
      BY <1>1, <1>2, <1>3, <2>1
    <3>2. i + 1 \in 1..Len(h) /\ i < Len(w)
      BY <1>1, <2>1, <3>1
    <3> QED
      BY <1>2, <3>1, <3>2
  <2>2. CASE i \notin 1..Len(h)
    <3>1. PICK j \in Nat : i = Len(h) + j /\ j \in 1..Len(b)
      <4>1. i - Len(h) \in 1..Len(b) /\ i = Len(h) + (i - Len(h)) /\ i - Len(h) \in Nat
        BY <1>1, <2>2
      <4> QED
        BY <4>1
    <3>2. w[i] = b[j] /\ j < Len(b) /\ b[j + 1] = Message("assistant", b[j].question)
      BY <1>1, <1>2, <1>3, <3>1
    <3>3. j + 1 \in 1..Len(b) /\ i < Len(w) /\ i + 1 = Len(h) + (j + 1)
      <4>1. PICK m \in Nat, n \in Nat : m = Len(h) /\ n = Len(b)
        BY <1>1
      <4>2. i = m + j /\ j \in 1..n /\ j < n /\ Len(w) = m + n
        BY <1>1, <3>1, <3>2, <4>1
      <4>3. j + 1 \in 1..n /\ i < m + n /\ i + 1 = m + (j + 1)
        BY <4>2
      <4> QED
        BY <4>1, <4>2, <4>3
    <3>4. w[Len(h) + (j + 1)] = b[j + 1]
      BY <1>2, <3>3
    <3> QED
      BY <3>2, <3>3, <3>4
  <2> QED
    BY <2>1, <2>2
<1> QED
  BY <1>1, <1>3 DEF w

LEMMA HistoryKept ==
    ASSUME LlmShapes, QuestionsAnswered, LlmHistoryMoves
    PROVE  /\ llmHistory' \in Seq(LlmMessages) /\ llmRevision' \in Nat
           /\ QuestionsAnswered'
<1>1. llmHistory \in Seq(LlmMessages) /\ llmRevision \in Nat
  BY DEF LlmShapes
<1>2. \A i \in DOMAIN llmHistory : llmHistory[i].from = "user" =>
              /\ i < Len(llmHistory)
              /\ llmHistory[i + 1] = Message("assistant", llmHistory[i].question)
  BY DEF QuestionsAnswered
<1>3. \A who \in Speakers, q \in Nat :
          /\ Message(who, q) \in LlmMessages
          /\ Message(who, q).from = who /\ Message(who, q).question = q
  BY DEF Message, LlmMessages
<1>4. ASSUME NEW b \in Seq(LlmMessages), llmHistory' = llmHistory \o b,
             \A i \in DOMAIN b : b[i].from = "user" =>
                i < Len(b) /\ b[i + 1] = Message("assistant", b[i].question)
      PROVE  llmHistory' \in Seq(LlmMessages) /\ QuestionsAnswered'
  BY <1>1, <1>2, <1>4, AnsweredAppend DEF QuestionsAnswered
<1>5. ASSUME NEW who \in {"assistant", "tool", "summary"}, NEW q \in Nat
      PROVE  /\ <<Message(who, q)>> \in Seq(LlmMessages)
             /\ \A i \in DOMAIN <<Message(who, q)>> :
                   <<Message(who, q)>>[i].from # "user"
  <2>1. Message(who, q) \in LlmMessages /\ Message(who, q).from # "user"
    BY <1>3 DEF Speakers
  <2> QED
    BY <2>1
<1>6. CASE UNCHANGED <<llmHistory, llmRevision>>
  BY <1>1, <1>6 DEF QuestionsAnswered
<1>7. ASSUME NEW q \in Nat, llmHistory' = llmHistory \o Turn(q)
      PROVE  llmHistory' \in Seq(LlmMessages) /\ QuestionsAnswered'
  <2>1. PICK m \in LlmMessages, n \in LlmMessages :
            /\ m = Message("user", q) /\ n = Message("assistant", q)
            /\ m.question = q /\ m.from = "user" /\ n.from = "assistant"
    BY <1>3 DEF Speakers
  <2>2. Turn(q) = <<m, n>>
    BY <2>1 DEF Turn
  <2>3. /\ Turn(q) \in Seq(LlmMessages) /\ DOMAIN Turn(q) = 1..2 /\ Len(Turn(q)) = 2
        /\ Turn(q)[1] = m /\ Turn(q)[2] = n
    BY <2>2
  <2>4. \A i \in DOMAIN Turn(q) : Turn(q)[i].from = "user" =>
           i < Len(Turn(q)) /\ Turn(q)[i + 1] = Message("assistant", Turn(q)[i].question)
    <3>1. \A i \in 1..2 : i = 1 \/ i = 2
      OBVIOUS
    <3>2. 1 + 1 = 2 /\ 1 < 2
      OBVIOUS
    <3> QED
      BY <2>1, <2>3, <3>1, <3>2
  <2> QED
    BY <1>4, <1>7, <2>3, <2>4
<1>8. ASSUME NEW who \in {"assistant", "tool", "summary"}, NEW q \in Nat,
             llmHistory' = llmHistory \o <<Message(who, q)>>
      PROVE  llmHistory' \in Seq(LlmMessages) /\ QuestionsAnswered'
  BY <1>4, <1>5, <1>8
<1>9. ASSUME llmHistory' = <<>>
      PROVE  llmHistory' \in Seq(LlmMessages) /\ QuestionsAnswered'
  <2>1. <<>> \in Seq(LlmMessages) /\ DOMAIN <<>> = {}
    OBVIOUS
  <2> QED
    BY <1>9, <2>1 DEF QuestionsAnswered
<1>10. ASSUME llmHistory' = <<Message("summary", 0)>>
       PROVE  llmHistory' \in Seq(LlmMessages) /\ QuestionsAnswered'
  <2>1. \A i \in DOMAIN llmHistory' : llmHistory'[i].from # "user"
    BY <1>5, <1>10
  <2> QED
    BY <1>5, <1>10, <2>1 DEF QuestionsAnswered
<1>11. llmRevision' \in Nat
  BY <1>1 DEF LlmHistoryMoves
<1> QED
  BY <1>6, <1>7, <1>8, <1>9, <1>10, <1>11 DEF LlmHistoryMoves

LEMMA RevisionsKept ==
    ASSUME LlmShapes, RevisionsRead, LlmHistoryMoves, LlmReads
    PROVE  RevisionsRead'
<1>1. llmRevision \in Nat /\ \A u \in Threads : llmThread[u].revision \in Int
  BY DEF LlmShapes, LlmThreads
<1>2. \/ UNCHANGED <<llmHistory, llmRevision>>
      \/ llmRevision' = llmRevision + 1
  BY DEF LlmHistoryMoves
<1> QED
  BY <1>1, <1>2 DEF RevisionsRead, LlmReads

LEMMA BudgetKept ==
    ASSUME IsFiniteSet(Threads), LlmShapes, BudgetOwed, LlmCharges
    PROVE  /\ llmLimit' \in Nat /\ llmSpent' \in Nat /\ llmAsked' \in Nat
           /\ BudgetOwed'
<1>1. llmLimit \in Nat /\ llmSpent \in Nat /\ llmAsked \in Nat
  BY DEF LlmShapes
<1>2. llmLimit' \in Nat /\ llmSpent' \in Nat /\ llmAsked' \in Nat
  BY <1>1 DEF LlmCharges
<1>3. /\ LlmOwing \subseteq Threads /\ LlmOwing' \subseteq Threads
  BY DEF LlmOwing
<1>4. /\ IsFiniteSet(LlmOwing) /\ IsFiniteSet(LlmOwing')
      /\ Cardinality(LlmOwing) \in Nat /\ Cardinality(LlmOwing') \in Nat
      /\ Cardinality(Threads) \in Nat /\ Cardinality(LlmOwing') <= Cardinality(Threads)
  BY <1>3, FS_Subset, FS_CardinalityType
<1>5. LlmOwing' \subseteq LlmOwing => Cardinality(LlmOwing') <= Cardinality(LlmOwing)
  BY <1>4, FS_Subset
<1>6. \A t \in LlmOwing : LlmOwing' \subseteq LlmOwing \ {t} =>
          Cardinality(LlmOwing') + 1 <= Cardinality(LlmOwing)
  <2> SUFFICES ASSUME NEW t \in LlmOwing, LlmOwing' \subseteq LlmOwing \ {t}
               PROVE  Cardinality(LlmOwing') + 1 <= Cardinality(LlmOwing)
    OBVIOUS
  <2>1. /\ IsFiniteSet(LlmOwing \ {t})
        /\ Cardinality(LlmOwing \ {t}) = Cardinality(LlmOwing) - 1
    BY <1>4, FS_RemoveElement
  <2>2. Cardinality(LlmOwing') <= Cardinality(LlmOwing \ {t})
    BY <2>1, FS_Subset
  <2> QED
    BY <1>4, <2>1, <2>2
<1>7. llmAsked' = 0 => llmSpent' = 0 /\ LlmOwing' = {}
  BY <1>1 DEF BudgetOwed, LlmCharges
<1>8. llmAsked = 0 => llmSpent = 0 /\ Cardinality(LlmOwing) = 0
  BY FS_EmptySet DEF BudgetOwed
<1>9. llmLimit > 0 =>
          llmSpent + Cardinality(LlmOwing) <= llmLimit - 1 + Cardinality(Threads)
  BY DEF BudgetOwed
<1>10. PICK o \in Nat, p \in Nat, n \in Nat :
          o = Cardinality(LlmOwing) /\ p = Cardinality(LlmOwing') /\ n = Cardinality(Threads)
  BY <1>4
<1>11. llmLimit' > 0 => llmSpent' + p <= llmLimit' - 1 + n
  <2>1. p <= n
    BY <1>4, <1>10
  <2>2. llmLimit > 0 => llmSpent + o <= llmLimit - 1 + n
    BY <1>9, <1>10
  <2>3. CASE UNCHANGED <<llmLimit, llmSpent>> /\ LlmOwing' \subseteq LlmOwing
    <3>1. p <= o
      BY <1>5, <1>10, <2>3
    <3> QED
      BY <1>1, <2>2, <2>3, <3>1
  <2>4. CASE UNCHANGED <<llmLimit, llmSpent>> /\ WithinBudget(llmSpent)
    BY <1>1, <2>1, <2>4 DEF WithinBudget
  <2>5. CASE /\ UNCHANGED llmLimit /\ llmSpent' = llmSpent + 1
             /\ \E t \in LlmOwing : LlmOwing' \subseteq LlmOwing \ {t}
    <3>1. p + 1 <= o
      BY <1>6, <1>10, <2>5
    <3> QED
      BY <1>1, <2>2, <2>5, <3>1
  <2>6. CASE /\ UNCHANGED llmLimit /\ llmSpent' = llmSpent + 1 /\ WithinBudget(llmSpent + 1)
    BY <1>1, <2>1, <2>6 DEF WithinBudget
  <2>7. CASE /\ UNCHANGED llmSpent /\ llmAsked = 0 /\ LlmOwing' \subseteq LlmOwing
             /\ llmLimit' \in Nat \ {0}
    <3>1. llmSpent' = 0 /\ p = 0
      BY <1>4, <1>5, <1>8, <1>10, <2>7
    <3>2. PICK l \in Nat : llmLimit' = l /\ l # 0
      BY <2>7
    <3>3. 0 + 0 <= l - 1 + n
      BY <1>10, <3>2
    <3> QED
      BY <3>1, <3>2, <3>3
  <2> QED
    BY <2>3, <2>4, <2>5, <2>6, <2>7 DEF LlmCharges
<1> QED
  BY <1>2, <1>7, <1>10, <1>11 DEF BudgetOwed

-----------------------------------------------------------------------------
(* What steps do to streams, and the steps of sessions, which do nothing to  *)
(* them.                                                                     *)

\* Who was told of the end has read everything, and a stream on the tape is
\* complete.
StreamsWhole ==
    \A s \in DOMAIN llmStreams :
       /\ llmStreams[s].ended => llmStreams[s].read = llmStreams[s].sent
       /\ llmStreams[s].at = "taped" => llmStreams[s].done

\* Who waits for a stream's provider has the streams to itself, and whoever puts
\* a stream away has closed it.
AtStreams ==
    \A t \in Threads :
       /\ llmThread[t].at = "reading" =>
             /\ llmStreamPool = t /\ llmThread[t].stream \in DOMAIN llmStreams
             /\ llmStreams[llmThread[t].stream].at = "open"
             /\ llmStreams[llmThread[t].stream].read = llmStreams[llmThread[t].stream].sent
       /\ llmThread[t].at \in {"taping", "saving"} =>
             /\ llmThread[t].stream \in DOMAIN llmStreams
             /\ llmStreams[llmThread[t].stream].at # "open"

LlmInv ==
    /\ LlmShapes /\ QuestionsAnswered /\ RevisionsRead /\ BudgetOwed
    /\ StreamsWhole /\ AtStreams

\* The threads go nowhere near a stream, and read nothing but the history.
LlmStays ==
    /\ llmThread' \in [Threads -> LlmThreads] /\ LlmReads
    /\ \A u \in Threads : llmThread'[u].at \in {"reading", "taping", "saving"} =>
          llmThread'[u].at = llmThread[u].at /\ llmThread'[u].stream = llmThread[u].stream

LlmTapeKeeps == \A r \in DOMAIN llmTape' : llmTape'[r] \in Nat

LEMMA LlmQuiet ==
    ASSUME IsFiniteSet(Threads), LlmInv, LlmStays, LlmHistoryMoves, LlmCharges,
           llmTasks' \subseteq LlmTaskSet, LlmTapeKeeps, NoStreams
    PROVE  LlmInv'
<1>1. /\ llmHistory' \in Seq(LlmMessages) /\ llmRevision' \in Nat
      /\ QuestionsAnswered'
  BY HistoryKept DEF LlmInv
<1>2. RevisionsRead'
  BY RevisionsKept DEF LlmInv, LlmStays
<1>3. /\ llmLimit' \in Nat /\ llmSpent' \in Nat /\ llmAsked' \in Nat
      /\ BudgetOwed'
  BY BudgetKept DEF LlmInv
<1>4. LlmShapes'
  BY <1>1, <1>3 DEF LlmInv, LlmShapes, LlmStays, LlmTapeKeeps, NoStreams
<1>5. StreamsWhole'
  BY DEF LlmInv, StreamsWhole, NoStreams
<1>6. AtStreams'
  BY DEF LlmInv, AtStreams, LlmStays, NoStreams
<1> QED
  BY <1>1, <1>2, <1>3, <1>4, <1>5, <1>6 DEF LlmInv

LEMMA LlmStepStays ==
    ASSUME NEW t \in Threads, NEW at, NEW s, LlmSteps(t, at, s),
           at \notin {"reading", "taping", "saving"}
    PROVE  /\ LlmStays
           /\ at \notin {"asking", "exchanged"} => LlmOwing' \subseteq LlmOwing \ {t}
           /\ llmThread[t].at \in {"asking", "exchanged"} =>
                 t \in LlmOwing /\ LlmOwing' \subseteq LlmOwing
  BY DEF LlmSteps, LlmStays, LlmReads, LlmOwing

LEMMA LlmStandsStill ==
    ASSUME LlmShapes, UNCHANGED llmThread
    PROVE  LlmStays /\ LlmOwing' = LlmOwing
  BY DEF LlmShapes, LlmStays, LlmReads, LlmOwing

LEMMA PutOnTapeKeeps ==
    ASSUME LlmShapes, NEW r, NEW n \in Nat, PutOnTape(r, n)
    PROVE  LlmTapeKeeps
  BY DEF LlmShapes, PutOnTape, LlmTapeKeeps

LEMMA AnswerKeepsTape ==
    ASSUME LlmShapes, NEW r, AnswerComes(r)
    PROVE  LlmTapeKeeps
<1>1. CASE UNCHANGED llmTape
  BY <1>1 DEF LlmShapes, LlmTapeKeeps
<1>2. CASE PutOnTape(r, 0)
  BY <1>2, PutOnTapeKeeps
<1> QED
  BY <1>1, <1>2 DEF AnswerComes

LEMMA LlmAskKeeps ==
    ASSUME IsFiniteSet(Threads), LlmInv, NEW t \in Threads,
           NEW kind \in Asking \cup {"exchange"}, LlmAsk(t, kind), NoStreams
    PROVE  LlmInv'
<1>1. LlmShapes
  BY DEF LlmInv
<1>2. LlmSteps(t, "asking", llmThread[t].stream)
  BY <1>1, LlmQuestionSteps DEF LlmAsk
<1>3. LlmStays
  BY <1>2, LlmStepStays
<1>4. LlmCharges
  BY DEF LlmAsk, Question, llmSession, LlmCharges
<1>5. LlmHistoryMoves
  BY DEF LlmAsk, llmSession, LlmHistoryMoves
<1>6. llmTasks' \subseteq LlmTaskSet /\ LlmTapeKeeps
  BY <1>1 DEF LlmAsk, LlmShapes, LlmTapeKeeps
<1> QED
  BY <1>3, <1>4, <1>5, <1>6, LlmQuiet

LEMMA LlmFirstChoiceKeeps ==
    ASSUME IsFiniteSet(Threads), LlmInv, NEW t \in Threads, LlmFirstChoice(t), NoStreams
    PROVE  LlmInv'
<1>1. LlmShapes
  BY DEF LlmInv
<1>2. LlmHistoryMoves /\ llmTasks' \subseteq LlmTaskSet
  BY <1>1 DEF LlmFirstChoice, LlmHistoryMoves, LlmShapes
<1>3. LlmTapeKeeps
  BY <1>1, AnswerKeepsTape DEF LlmFirstChoice
<1>4. llmThread[t].at = "asking"
  BY DEF LlmFirstChoice, LlmAt
<1>5. LlmStays /\ LlmCharges
  <2>1. CASE WithinBudget(llmSpent + 1)
    <3>1. LlmSteps(t, "asking", llmThread[t].stream)
      BY <1>1, <1>4, <2>1, LlmMoreSteps DEF LlmFirstChoice
    <3>2. LlmStays /\ t \in LlmOwing /\ LlmOwing' \subseteq LlmOwing
      BY <1>4, <3>1, LlmStepStays
    <3> QED
      BY <2>1, <3>2 DEF LlmFirstChoice, LlmCharges, Charged
  <2>2. CASE ~WithinBudget(llmSpent + 1)
    <3>1. LlmSteps(t, "idle", 0)
      BY <1>1, <2>2, LlmReturnsSteps DEF LlmFirstChoice
    <3>2. LlmStays /\ t \in LlmOwing /\ LlmOwing' \subseteq LlmOwing \ {t}
      BY <1>4, <3>1, LlmStepStays
    <3> QED
      BY <3>2 DEF LlmFirstChoice, LlmCharges, Charged
  <2> QED
    BY <2>1, <2>2
<1> QED
  BY <1>2, <1>3, <1>5, LlmQuiet

\* An answer, whichever way it was asked for.
LEMMA LlmAnswersKeep ==
    ASSUME IsFiniteSet(Threads), LlmInv, NEW t \in Threads, NEW kind, NEW messages,
           Answers(t, kind, messages), NoStreams,
           \E q \in Nat : messages = Turn(q) \/ messages = <<Message("assistant", q)>>
    PROVE  LlmInv'
<1>1. LlmShapes
  BY DEF LlmInv
<1>2. LlmSteps(t, "idle", 0)
  BY <1>1, LlmReturnsSteps DEF Answers
<1>3. llmThread[t].at = "asking"
  BY DEF Answers, LlmAt
<1>4. LlmStays /\ t \in LlmOwing /\ LlmOwing' \subseteq LlmOwing \ {t}
  BY <1>2, <1>3, LlmStepStays
<1>5. LlmCharges
  BY <1>4 DEF Answers, LlmCharges, Charged
<1>6. LlmHistoryMoves
  BY DEF Answers, Add, LlmHistoryMoves
<1>7. LlmTapeKeeps
  BY <1>1, AnswerKeepsTape DEF Answers
<1>8. llmTasks' \subseteq LlmTaskSet
  BY <1>1 DEF Answers, LlmShapes
<1> QED
  BY <1>4, <1>5, <1>6, <1>7, <1>8, LlmQuiet

LEMMA LlmAnsweredKeeps ==
    ASSUME IsFiniteSet(Threads), LlmInv, NEW t \in Threads, NoStreams,
           \/ LlmChatAnswered(t) \/ LlmImageAnswered(t) \/ LlmChoicesAnswered(t)
           \/ LlmToolsAnswered(t) \/ LlmContinueAnswered(t)
    PROVE  LlmInv'
<1>1. llmThread[t].question \in Nat
  BY DEF LlmInv, LlmShapes, LlmThreads
<1>2. ASSUME NEW kind, Answers(t, kind, Turn(llmThread[t].question))
      PROVE  LlmInv'
  BY <1>1, <1>2, LlmAnswersKeep
<1>3. ASSUME NEW kind, Answers(t, kind, <<Message("assistant", llmThread[t].question)>>)
      PROVE  LlmInv'
  BY <1>1, <1>3, LlmAnswersKeep
<1> QED
  BY <1>2, <1>3 DEF LlmChatAnswered, LlmImageAnswered, LlmChoicesAnswered,
                    LlmToolsAnswered, LlmContinueAnswered

\* A request that comes to nothing, or whose answer the program accounts for.
LEMMA LlmFailedKeeps ==
    ASSUME IsFiniteSet(Threads), LlmInv, NEW t \in Threads, NoStreams,
           LlmAskFailed(t) \/ LlmExchanged(t)
    PROVE  LlmInv'
<1>1. LlmShapes
  BY DEF LlmInv
<1>2. llmThread[t].at = "asking"
  BY DEF LlmAskFailed, LlmExchanged, LlmAt
<1>3. LlmSteps(t, "idle", 0) \/ LlmSteps(t, "exchanged", llmThread[t].stream)
  BY <1>1, LlmReturnsSteps, LlmGoesSteps DEF LlmAskFailed, LlmExchanged
<1>4. LlmStays /\ LlmOwing' \subseteq LlmOwing
  BY <1>2, <1>3, LlmStepStays
<1>5. LlmCharges /\ LlmHistoryMoves
  BY <1>4 DEF LlmAskFailed, LlmExchanged, Uncharged, llmSession, LlmCharges, LlmHistoryMoves
<1>6. LlmTapeKeeps
  <2>1. CASE UNCHANGED llmTape
    BY <1>1, <2>1 DEF LlmShapes, LlmTapeKeeps
  <2> QED
    BY <1>1, <2>1, AnswerKeepsTape DEF LlmAskFailed, LlmExchanged
<1>7. llmTasks' \subseteq LlmTaskSet
  BY <1>1 DEF LlmAskFailed, LlmExchanged, LlmShapes
<1> QED
  BY <1>4, <1>5, <1>6, <1>7, LlmQuiet

LEMMA LlmCommitKeeps ==
    ASSUME IsFiniteSet(Threads), LlmInv, NEW t \in Threads, LlmCommit(t), NoStreams
    PROVE  LlmInv'
<1>1. LlmShapes
  BY DEF LlmInv
<1>2. llmThread[t].at = "exchanged"
  BY DEF LlmCommit, LlmAt
<1>3. LlmSteps(t, "idle", 0)
  BY <1>1, LlmReturnsSteps DEF LlmCommit
<1>4. LlmStays /\ t \in LlmOwing /\ LlmOwing' \subseteq LlmOwing \ {t}
  BY <1>2, <1>3, LlmStepStays
<1>5. LlmCharges
  BY <1>4 DEF LlmCommit, LlmCharges, ChargedLater
<1>6. LlmHistoryMoves
  <2>1. llmThread[t].question \in Nat
    BY <1>1 DEF LlmShapes, LlmThreads
  <2> QED
    BY <2>1 DEF LlmCommit, Add, LlmHistoryMoves
<1>7. llmTasks' \subseteq LlmTaskSet /\ LlmTapeKeeps
  BY <1>1 DEF LlmCommit, LlmShapes, LlmTapeKeeps
<1> QED
  BY <1>4, <1>5, <1>6, <1>7, LlmQuiet

LEMMA LlmChatAsyncKeeps ==
    ASSUME IsFiniteSet(Threads), LlmInv, NEW t \in Threads, LlmChatAsync(t), NoStreams
    PROVE  LlmInv'
<1>1. LlmShapes
  BY DEF LlmInv
<1>2. LlmStays /\ LlmOwing' = LlmOwing
  BY <1>1, LlmStandsStill DEF LlmChatAsync
<1>3. LlmCharges /\ LlmHistoryMoves
  BY <1>2 DEF LlmChatAsync, llmSession, LlmCharges, LlmHistoryMoves
<1>4. /\ Request("whole", "chat") \in LlmRequests /\ WithinBudget(llmSpent) \in BOOLEAN
      /\ llmAsked + 1 \in Nat
  BY <1>1, LlmRequestTyped DEF LlmShapes, WithinBudget
<1>5. [at |-> "asking", question |-> llmAsked + 1, request |-> Request("whole", "chat"),
            may |-> WithinBudget(llmSpent)] \in LlmTaskSet
  BY <1>4 DEF LlmTaskSet
<1>6. llmTasks' \subseteq LlmTaskSet /\ LlmTapeKeeps
  BY <1>1, <1>5 DEF LlmChatAsync, LlmShapes, LlmTapeKeeps
<1> QED
  BY <1>2, <1>3, <1>6, LlmQuiet

LEMMA LlmTaskKeeps ==
    ASSUME IsFiniteSet(Threads), LlmInv, NEW task \in llmTasks, LlmTaskRuns(task), NoStreams
    PROVE  LlmInv'
<1>1. LlmShapes /\ task \in LlmTaskSet
  BY DEF LlmInv, LlmShapes
<1>2. LlmStays /\ LlmOwing' = LlmOwing
  BY <1>1, LlmStandsStill DEF LlmTaskRuns, LlmTaskAnswered, LlmTaskFailed, LlmTaskWrites
<1>3. LlmCharges
  BY <1>2
  DEF LlmTaskRuns, LlmTaskAnswered, LlmTaskFailed, LlmTaskWrites, Uncharged, llmSession,
      LlmCharges
<1>4. LlmHistoryMoves
  <2>1. task.question \in Nat
    BY <1>1 DEF LlmTaskSet
  <2> QED
    BY <2>1 DEF LlmTaskRuns, LlmTaskAnswered, LlmTaskFailed, LlmTaskWrites, llmSession, Add,
                LlmHistoryMoves
<1>5. LlmTapeKeeps
  <2>1. CASE UNCHANGED llmTape
    BY <1>1, <2>1 DEF LlmShapes, LlmTapeKeeps
  <2> QED
    BY <1>1, <2>1, AnswerKeepsTape
    DEF LlmTaskRuns, LlmTaskAnswered, LlmTaskFailed, LlmTaskWrites
<1>6. llmTasks' \subseteq LlmTaskSet
  <2>1. llmTasks \subseteq LlmTaskSet /\ [task EXCEPT !.at = "answered"] \in LlmTaskSet
    BY <1>1 DEF LlmShapes, LlmTaskSet
  <2> QED
    BY <2>1 DEF LlmTaskRuns, LlmTaskAnswered, LlmTaskFailed, LlmTaskWrites, TaskGoes
<1> QED
  BY <1>2, <1>3, <1>4, <1>5, <1>6, LlmQuiet

\* The calls that ask nothing.
LEMMA LlmBriefKeeps ==
    ASSUME IsFiniteSet(Threads), LlmInv, NEW t \in Threads, NoStreams,
           \/ LlmAddToolResult(t) \/ LlmClearHistory(t) \/ LlmSetHistory(t)
           \/ LlmSetBudget(t) \/ LlmCloseSession(t)
    PROVE  LlmInv'
<1>1. LlmShapes
  BY DEF LlmInv
<1>2. UNCHANGED <<llmThread, llmTape, llmTasks>>
  BY DEF LlmAddToolResult, LlmClearHistory, LlmSetHistory, LlmSetBudget, LlmCloseSession,
         OutsideSession
<1>3. LlmStays /\ LlmOwing' = LlmOwing
  BY <1>1, <1>2, LlmStandsStill
<1>4. LlmCharges
  <2>1. Budgets \subseteq Nat
    BY LlmAssumption DEF LlmAssumption
  <2> QED
    BY <1>3, <2>1
    DEF LlmAddToolResult, LlmClearHistory, LlmSetHistory, LlmSetBudget, LlmCloseSession,
         OutsideSession, LlmCharges
<1>5. LlmHistoryMoves
  BY DEF LlmAddToolResult, LlmClearHistory, LlmSetHistory, LlmSetBudget, LlmCloseSession,
         OutsideSession, LlmHistoryMoves, Add
<1>6. llmTasks' \subseteq LlmTaskSet /\ LlmTapeKeeps
  BY <1>1, <1>2 DEF LlmShapes, LlmTapeKeeps
<1> QED
  BY <1>3, <1>4, <1>5, <1>6, LlmQuiet

LEMMA LlmReadHistoryKeeps ==
    ASSUME IsFiniteSet(Threads), LlmInv, NEW t \in Threads, LlmReadHistory(t), NoStreams
    PROVE  LlmInv'
<1>1. LlmShapes
  BY DEF LlmInv
<1>2. /\ llmThread' \in [Threads -> LlmThreads]
      /\ llmThread'[t].revision = llmRevision /\ llmThread'[t].history = llmHistory
      /\ llmThread'[t].at = llmThread[t].at /\ llmThread'[t].stream = llmThread[t].stream
      /\ \A u \in Threads \ {t} : llmThread'[u] = llmThread[u]
  <2>1. /\ llmThread[t] \in LlmThreads /\ llmRevision \in Int
        /\ llmHistory \in Seq(LlmMessages) /\ llmThread \in [Threads -> LlmThreads]
    BY <1>1 DEF LlmShapes
  <2>2. PICK to : to = [[llmThread[t] EXCEPT !.revision = llmRevision]
                          EXCEPT !.history = llmHistory]
    OBVIOUS
  <2>3. llmThread' = [llmThread EXCEPT ![t] = to]
    BY <2>1, <2>2 DEF LlmReadHistory
  <2>4. /\ to \in LlmThreads /\ to.revision = llmRevision /\ to.history = llmHistory
        /\ to.at = llmThread[t].at /\ to.stream = llmThread[t].stream
    BY <2>1, <2>2 DEF LlmThreads
  <2> QED
    BY <2>1, <2>3, <2>4
<1>3. UNCHANGED <<llmHistory, llmRevision, llmTasks, llmTape, llmLimit, llmSpent, llmAsked>>
  BY DEF LlmReadHistory, OutsideSession
<1>4. LlmStays
  BY <1>2, <1>3 DEF LlmStays, LlmReads
<1>5. LlmOwing' \subseteq LlmOwing
  BY <1>2 DEF LlmOwing
<1>6. LlmCharges /\ LlmHistoryMoves
  BY <1>3, <1>5 DEF LlmCharges, LlmHistoryMoves
<1>7. llmTasks' \subseteq LlmTaskSet /\ LlmTapeKeeps
  BY <1>1, <1>3 DEF LlmShapes, LlmTapeKeeps
<1> QED
  BY <1>4, <1>6, <1>7, LlmQuiet

-----------------------------------------------------------------------------
(* The steps of streams.                                                     *)

LEMMA LlmOpensKeeps ==
    ASSUME IsFiniteSet(Threads), LlmInv, NEW t \in Threads,
           LlmStreamChat(t) \/ LlmStreamChatTools(t) \/ LlmStreamContinue(t)
    PROVE  LlmInv'
<1>1. LlmShapes
  BY DEF LlmInv
<1>2. PICK call : \E kind \in Asking : Opens(t, call, kind)
  BY DEF LlmStreamChat, LlmStreamChatTools, LlmStreamContinue, Asking
<1>3. LlmSteps(t, "opening", llmThread[t].stream) /\ NoStreams
  BY <1>1, <1>2, LlmQuestionSteps DEF Opens
<1>4. LlmStays /\ LlmOwing' \subseteq LlmOwing
  BY <1>3, LlmStepStays
<1>5. LlmCharges /\ LlmHistoryMoves
  BY <1>2, <1>4 DEF Opens, Question, llmSession, LlmCharges, LlmHistoryMoves
<1>6. llmTasks' \subseteq LlmTaskSet /\ LlmTapeKeeps
  BY <1>1, <1>2 DEF Opens, LlmShapes, LlmTapeKeeps
<1> QED
  BY <1>3, <1>4, <1>5, <1>6, LlmQuiet

LEMMA LlmSavedKeeps ==
    ASSUME IsFiniteSet(Threads), LlmInv, NEW t \in Threads, LlmStreamSaved(t)
    PROVE  LlmInv'
<1>1. LlmShapes
  BY DEF LlmInv
<1>2. LlmSteps(t, "idle", 0)
  BY <1>1, LlmReturnsSteps DEF LlmStreamSaved
<1>3. LlmStays /\ LlmOwing' \subseteq LlmOwing
  BY <1>2, LlmStepStays
<1>4. LlmCharges
  BY <1>3 DEF LlmStreamSaved, OutsideSession, LlmCharges
<1>5. LlmHistoryMoves
  <2>1. llmThread[t].stream \in DOMAIN llmStreams
    BY DEF LlmStreamSaved, LlmAt, LlmInv, AtStreams
  <2>2. llmStreams[llmThread[t].stream] \in LlmStreamSet
    BY <1>1, <2>1 DEF LlmShapes
  <2>3. llmStreams[llmThread[t].stream].question \in Nat
    BY <2>2 DEF LlmStreamSet
  <2> QED
    BY <2>3 DEF LlmStreamSaved, Add, LlmHistoryMoves
<1>6. llmTasks' \subseteq LlmTaskSet /\ LlmTapeKeeps /\ NoStreams
  BY <1>1 DEF LlmStreamSaved, OutsideSession, LlmShapes, LlmTapeKeeps
<1> QED
  BY <1>3, <1>4, <1>5, <1>6, LlmQuiet

\* A step of a stream does nothing to the session.
LEMMA LlmStreamStep ==
    ASSUME LlmInv, NoSessions, llmThread' \in [Threads -> LlmThreads],
           LlmReads, LlmOwing' \subseteq LlmOwing, LlmTapeKeeps,
           llmStreams' \in Seq(LlmStreamSet), StreamsWhole', AtStreams',
           IsFiniteSet(Threads)
    PROVE  LlmInv'
<1>1. UNCHANGED <<llmHistory, llmRevision, llmLimit, llmSpent, llmAsked, llmTasks>>
  BY DEF NoSessions, llmSession
<1>2. QuestionsAnswered'
  BY <1>1 DEF LlmInv, QuestionsAnswered
<1>3. LlmHistoryMoves /\ LlmCharges
  BY <1>1 DEF LlmHistoryMoves, LlmCharges
<1>4. RevisionsRead' /\ BudgetOwed'
  BY <1>3, RevisionsKept, BudgetKept DEF LlmInv
<1>5. LlmShapes'
  BY <1>1 DEF LlmInv, LlmShapes, LlmTapeKeeps
<1> QED
  BY <1>2, <1>4, <1>5 DEF LlmInv

\* Where the thread of a step leaves the others, and what it owes.
LEMMA LlmStepReads ==
    ASSUME NEW t \in Threads, NEW at, NEW s, LlmSteps(t, at, s),
           at \notin {"asking", "exchanged"}
    PROVE  llmThread' \in [Threads -> LlmThreads] /\ LlmReads /\ LlmOwing' \subseteq LlmOwing
  BY DEF LlmSteps, LlmReads, LlmOwing

\* One stream becomes another record.
LEMMA LlmStreamBecomes ==
    ASSUME LlmShapes, NEW s \in DOMAIN llmStreams, NEW stream \in LlmStreamSet,
           Become(s, stream)
    PROVE  /\ llmStreams' \in Seq(LlmStreamSet) /\ DOMAIN llmStreams' = DOMAIN llmStreams
           /\ llmStreams'[s] = stream
           /\ \A i \in DOMAIN llmStreams \ {s} : llmStreams'[i] = llmStreams[i]
  BY DEF LlmShapes, Become

LEMMA LlmOpenedKeeps ==
    ASSUME IsFiniteSet(Threads), LlmInv, NEW t \in Threads, LlmStreamOpened(t)
    PROVE  LlmInv'
<1> DEFINE call == llmThread[t]
           taped == Taped(call.request)
           stream == [at |-> "open", kind |-> call.kind, question |-> call.question,
               request |-> call.request, records |-> ~taped /\ TapeRecords,
               sent |-> IF taped THEN llmTape[call.request] ELSE 0,
               read |-> 0, done |-> taped, ended |-> FALSE]
<1>1. LlmShapes
  BY DEF LlmInv
<1>2. LlmSteps(t, "idle", 0)
  BY <1>1, LlmReturnsSteps DEF LlmStreamOpened
<1>3. NoSessions /\ UNCHANGED <<llmTape, llmStreamPool>>
      /\ llmStreams' = Append(llmStreams, stream)
  BY DEF LlmStreamOpened
<1>4. stream \in LlmStreamSet
  <2>1. /\ call.kind \in LlmKinds /\ call.question \in Nat
        /\ call.request \in LlmRequests \cup {<<>>}
    BY <1>1 DEF LlmShapes, LlmThreads
  <2>2. taped \in BOOLEAN /\ (~taped /\ TapeRecords) \in BOOLEAN
    BY DEF Taped, TapeRecords
  <2>3. (IF taped THEN llmTape[call.request] ELSE 0) \in Nat
    BY <1>1 DEF LlmShapes, Taped
  <2> HIDE DEF call, taped
  <2> QED
    BY <2>1, <2>2, <2>3 DEF LlmStreamSet
<1>5. stream.at = "open" /\ ~stream.ended
  OBVIOUS
<1> HIDE DEF stream
<1>6. /\ llmStreams' \in Seq(LlmStreamSet)
      /\ DOMAIN llmStreams' = DOMAIN llmStreams \cup {Len(llmStreams) + 1}
      /\ llmStreams'[Len(llmStreams) + 1] = stream
      /\ \A i \in DOMAIN llmStreams : llmStreams'[i] = llmStreams[i]
  <2>1. llmStreams \in Seq(LlmStreamSet)
    BY <1>1 DEF LlmShapes
  <2> QED
    BY <1>3, <1>4, <2>1
<1>7. StreamsWhole'
  BY <1>5, <1>6 DEF LlmInv, StreamsWhole
<1>8. AtStreams'
  BY <1>2, <1>3, <1>6 DEF LlmInv, AtStreams, LlmSteps
<1>9. LlmTapeKeeps
  BY <1>1, <1>3 DEF LlmShapes, LlmTapeKeeps
<1> QED
  BY <1>2, <1>3, <1>6, <1>7, <1>8, <1>9, LlmStepReads, LlmStreamStep

\* The provider does not answer: no stream, or an end of the wait for one.
LEMMA LlmRefusedKeeps ==
    ASSUME IsFiniteSet(Threads), LlmInv, NEW t \in Threads,
           LlmStreamRefused(t) \/ LlmStreamBreaks(t)
    PROVE  LlmInv'
<1>1. LlmShapes
  BY DEF LlmInv
<1>2. LlmSteps(t, "idle", 0)
  BY <1>1, LlmReturnsSteps DEF LlmStreamRefused, LlmStreamBreaks
<1>3. NoSessions /\ UNCHANGED <<llmTape, llmStreams>>
  BY DEF LlmStreamRefused, LlmStreamBreaks, NoStreams
<1>4. llmStreamPool' = llmStreamPool \/ llmThread[t].at = "reading"
  BY DEF LlmStreamRefused, LlmStreamBreaks, LlmAt, NoStreams
<1>5. AtStreams'
  BY <1>2, <1>3, <1>4 DEF LlmInv, AtStreams, LlmSteps
<1>6. StreamsWhole' /\ llmStreams' \in Seq(LlmStreamSet)
  BY <1>1, <1>3 DEF LlmInv, StreamsWhole, LlmShapes
<1>7. LlmTapeKeeps
  BY <1>1, <1>3 DEF LlmShapes, LlmTapeKeeps
<1> QED
  BY <1>2, <1>3, <1>5, <1>6, <1>7, LlmStepReads, LlmStreamStep

LEMMA LlmNextKeeps ==
    ASSUME IsFiniteSet(Threads), LlmInv, NEW t \in Threads, NEW s \in DOMAIN llmStreams,
           LlmStreamNext(t, s)
    PROVE  LlmInv'
<1>1. LlmShapes /\ StreamsWhole /\ AtStreams
  BY DEF LlmInv
<1>2. PICK stream \in LlmStreamSet : stream = llmStreams[s]
  BY <1>1 DEF LlmShapes
<1>3. NoSessions /\ UNCHANGED llmTape /\ llmStreamPool = None /\ stream.at = "open"
      /\ llmThread[t].at = "idle" /\ s \in Nat
  BY <1>1, <1>2 DEF LlmStreamNext, LlmAt, LlmShapes
<1>4. \A u \in Threads : llmThread[u].at # "reading"
  BY <1>1, <1>3, ThreadsAssumption DEF AtStreams, ThreadsAssumption
<1>5. LlmTapeKeeps
  BY <1>1, <1>3 DEF LlmShapes, LlmTapeKeeps
<1>6. ASSUME NEW to \in LlmStreamSet, Become(s, to), UNCHANGED <<llmStreamPool, llmThread>>,
             to.at = "open", to.ended => to.read = to.sent
      PROVE  LlmInv'
  <2>1. /\ llmStreams' \in Seq(LlmStreamSet) /\ DOMAIN llmStreams' = DOMAIN llmStreams
        /\ llmStreams'[s] = to
        /\ \A i \in DOMAIN llmStreams \ {s} : llmStreams'[i] = llmStreams[i]
    BY <1>1, <1>6, LlmStreamBecomes
  <2>2. StreamsWhole'
    BY <1>1, <1>6, <2>1 DEF StreamsWhole
  <2>3. AtStreams'
    BY <1>1, <1>2, <1>3, <1>4, <1>6, <2>1 DEF AtStreams
  <2>4. llmThread' \in [Threads -> LlmThreads] /\ LlmReads /\ LlmOwing' \subseteq LlmOwing
    BY <1>1, <1>6, LlmStandsStill DEF LlmStays
  <2> QED
    BY <1>3, <1>5, <2>1, <2>2, <2>3, <2>4, LlmStreamStep
<1>7. CASE /\ stream.read < stream.sent /\ UNCHANGED <<llmStreamPool, llmThread>>
           /\ Become(s, [stream EXCEPT !.read = stream.read + 1])
  <2>1. stream.read \in Nat /\ stream.sent \in Nat /\ ~stream.ended
    BY <1>1, <1>2, <1>7 DEF StreamsWhole, LlmStreamSet
  <2>2. PICK to : to = [stream EXCEPT !.read = stream.read + 1]
    OBVIOUS
  <2>3. to \in LlmStreamSet /\ to.at = "open" /\ ~to.ended
    BY <1>3, <2>1, <2>2 DEF LlmStreamSet
  <2> QED
    BY <1>6, <1>7, <2>2, <2>3
<1>8. CASE /\ stream.read = stream.sent /\ UNCHANGED <<llmStreamPool, llmThread>>
           /\ Become(s, [stream EXCEPT !.ended = TRUE])
  <2>1. PICK to : to = [stream EXCEPT !.ended = TRUE]
    OBVIOUS
  <2>2. to \in LlmStreamSet /\ to.at = "open" /\ to.read = to.sent
    BY <1>3, <1>8, <2>1 DEF LlmStreamSet
  <2> QED
    BY <1>6, <1>8, <2>1, <2>2
<1>9. CASE /\ stream.read = stream.sent /\ llmStreamPool' = t /\ UNCHANGED llmStreams
           /\ llmThread' = [llmThread EXCEPT ![t] =
                               [@ EXCEPT !.at = "reading", !.stream = s]]
  <2>1. LlmSteps(t, "reading", s)
    BY <1>1, <1>3, <1>9, LlmTurnsTo
  <2>2. StreamsWhole' /\ llmStreams' \in Seq(LlmStreamSet)
    BY <1>1, <1>9 DEF StreamsWhole, LlmShapes
  <2>3. AtStreams'
    BY <1>1, <1>2, <1>3, <1>4, <1>9, <2>1 DEF AtStreams, LlmSteps
  <2> QED
    BY <1>3, <1>5, <2>1, <2>2, <2>3, LlmStepReads, LlmStreamStep
<1> QED
  BY <1>2, <1>7, <1>8, <1>9 DEF LlmStreamNext

LEMMA LlmBringsKeeps ==
    ASSUME IsFiniteSet(Threads), LlmInv, NEW t \in Threads, LlmStreamBrings(t)
    PROVE  LlmInv'
<1> DEFINE s == llmThread[t].stream
<1>1. LlmShapes /\ StreamsWhole /\ AtStreams
  BY DEF LlmInv
<1>2. /\ llmThread[t].at = "reading" /\ llmStreamPool = t /\ s \in DOMAIN llmStreams
      /\ llmStreams[s].at = "open" /\ llmStreams[s].read = llmStreams[s].sent
  BY <1>1 DEF LlmStreamBrings, LlmAt, AtStreams
<1>3. LlmSteps(t, "idle", 0)
  BY <1>1, LlmReturnsSteps DEF LlmStreamBrings
<1>4. NoSessions /\ UNCHANGED llmTape
  BY DEF LlmStreamBrings
<1>5. PICK n \in 0..(MaxChunks - llmStreams[s].sent), done \in BOOLEAN :
         Become(s, [llmStreams[s] EXCEPT !.sent = @ + n, !.done = done,
                               !.read = IF n > 0 THEN @ + 1 ELSE @, !.ended = (n = 0)])
  BY DEF LlmStreamBrings
<1>6. PICK stream \in LlmStreamSet : stream = llmStreams[s]
  BY <1>1, <1>2 DEF LlmShapes
<1>7. PICK to \in LlmStreamSet : /\ Become(s, to)
                                 /\ to.at = "open"
                                 /\ to.ended => to.read = to.sent
  <2>1. stream.sent \in Nat /\ stream.read \in Nat /\ n \in Nat /\ stream.read = stream.sent
    BY <1>2, <1>5, <1>6 DEF LlmStreamSet
  <2>2. PICK sent \in Nat, read \in Nat, ended \in BOOLEAN :
            /\ sent = stream.sent + n /\ ended = (n = 0)
            /\ read = IF n > 0 THEN stream.read + 1 ELSE stream.read
    <3>1. /\ stream.sent + n \in Nat /\ (n = 0) \in BOOLEAN
          /\ (IF n > 0 THEN stream.read + 1 ELSE stream.read) \in Nat
      BY <2>1
    <3> QED
      BY <3>1
  <2>3. PICK to : to = [stream EXCEPT !.sent = sent, !.done = done, !.read = read,
                                      !.ended = ended]
    OBVIOUS
  <2>4. Become(s, to)
    BY <1>5, <1>6, <2>2, <2>3
  <2>5. /\ to \in LlmStreamSet /\ to.at = "open" /\ to.sent = sent /\ to.read = read
        /\ to.ended = ended
    BY <1>2, <1>6, <2>3 DEF LlmStreamSet
  <2>6. ended => read = sent
    <3>1. ended => n = 0
      BY <2>2
    <3>2. n = 0 => read = stream.read /\ sent = stream.sent
      BY <2>1, <2>2
    <3> QED
      BY <2>1, <3>1, <3>2
  <2> QED
    BY <2>4, <2>5, <2>6
<1> HIDE DEF s
<1>8. /\ llmStreams' \in Seq(LlmStreamSet) /\ DOMAIN llmStreams' = DOMAIN llmStreams
      /\ llmStreams'[s] = to
      /\ \A i \in DOMAIN llmStreams \ {s} : llmStreams'[i] = llmStreams[i]
  BY <1>1, <1>2, <1>7, LlmStreamBecomes
<1>9. StreamsWhole'
  BY <1>1, <1>7, <1>8 DEF StreamsWhole
<1>10. AtStreams'
  BY <1>1, <1>2, <1>3, <1>8 DEF AtStreams, LlmSteps
<1>11. LlmTapeKeeps
  BY <1>1, <1>4 DEF LlmShapes, LlmTapeKeeps
<1> QED
  BY <1>3, <1>4, <1>8, <1>9, <1>10, <1>11, LlmStepReads, LlmStreamStep

LEMMA LlmCloseKeeps ==
    ASSUME IsFiniteSet(Threads), LlmInv, NEW t \in Threads, NEW s \in DOMAIN llmStreams,
           LlmStreamClose(t, s)
    PROVE  LlmInv'
<1>1. LlmShapes /\ StreamsWhole /\ AtStreams
  BY DEF LlmInv
<1>2. PICK stream \in LlmStreamSet : stream = llmStreams[s]
  BY <1>1 DEF LlmShapes
<1>3. /\ NoSessions /\ UNCHANGED <<llmTape, llmStreamPool>> /\ llmStreamPool = None
      /\ s \in Nat
  BY <1>1, <1>2 DEF LlmStreamClose, LlmShapes
<1>4. \A u \in Threads : llmThread[u].at # "reading"
  BY <1>1, <1>3, ThreadsAssumption DEF AtStreams, ThreadsAssumption
<1>5. LlmSteps(t, "taping", s)
  BY <1>1, <1>3, LlmTurnsTo DEF LlmStreamClose
<1>6. PICK to \in LlmStreamSet : /\ Become(s, to) /\ to.at = "closed"
                                 /\ to.ended = stream.ended
                                 /\ to.read = stream.read /\ to.sent = stream.sent
  <2>1. PICK to : to = [stream EXCEPT !.at = "closed"]
    OBVIOUS
  <2>2. to \in LlmStreamSet /\ to.at = "closed" /\ to.ended = stream.ended
        /\ to.read = stream.read /\ to.sent = stream.sent
    BY <2>1 DEF LlmStreamSet
  <2> QED
    BY <1>2, <2>1, <2>2 DEF LlmStreamClose
<1>7. /\ llmStreams' \in Seq(LlmStreamSet) /\ DOMAIN llmStreams' = DOMAIN llmStreams
      /\ llmStreams'[s] = to
      /\ \A i \in DOMAIN llmStreams \ {s} : llmStreams'[i] = llmStreams[i]
  BY <1>1, <1>6, LlmStreamBecomes
<1>8. StreamsWhole'
  BY <1>1, <1>2, <1>3, <1>6, <1>7 DEF StreamsWhole
<1>9. AtStreams'
  BY <1>1, <1>4, <1>5, <1>6, <1>7 DEF AtStreams, LlmSteps
<1>10. LlmTapeKeeps
  BY <1>1, <1>3 DEF LlmShapes, LlmTapeKeeps
<1> QED
  BY <1>3, <1>5, <1>7, <1>8, <1>9, <1>10, LlmStepReads, LlmStreamStep

LEMMA LlmTapedKeeps ==
    ASSUME IsFiniteSet(Threads), LlmInv, NEW t \in Threads, LlmStreamTaped(t)
    PROVE  LlmInv'
<1> DEFINE s == llmThread[t].stream
<1>1. LlmShapes /\ StreamsWhole /\ AtStreams
  BY DEF LlmInv
<1>2. llmThread[t].at = "taping" /\ s \in DOMAIN llmStreams /\ llmStreams[s].at # "open"
  BY <1>1 DEF LlmStreamTaped, LlmAt, AtStreams
<1>3. LlmSteps(t, "saving", s)
  BY <1>1, LlmGoesSteps DEF LlmStreamTaped
<1>4. NoSessions /\ UNCHANGED llmStreamPool
  BY DEF LlmStreamTaped
<1>5. PICK stream \in LlmStreamSet : stream = llmStreams[s]
  BY <1>1, <1>2 DEF LlmShapes
<1>6. CASE UNCHANGED <<llmTape, llmStreams>>
  <2>1. StreamsWhole' /\ llmStreams' \in Seq(LlmStreamSet) /\ LlmTapeKeeps
    BY <1>1, <1>6 DEF StreamsWhole, LlmShapes, LlmTapeKeeps
  <2>2. AtStreams'
    BY <1>1, <1>2, <1>3, <1>4, <1>6 DEF AtStreams, LlmSteps
  <2> QED
    BY <1>3, <1>4, <2>1, <2>2, LlmStepReads, LlmStreamStep
<1>7. CASE /\ PutOnTape(stream.request, stream.read) /\ stream.done
           /\ Become(s, [stream EXCEPT !.at = "taped"])
  <2>1. PICK to : to = [stream EXCEPT !.at = "taped"]
    OBVIOUS
  <2>2. /\ to \in LlmStreamSet /\ to.at = "taped" /\ to.ended = stream.ended
        /\ to.done = stream.done
        /\ to.read = stream.read /\ to.sent = stream.sent /\ stream.read \in Nat
    BY <2>1 DEF LlmStreamSet
  <2>3. Become(s, to)
    BY <1>7, <2>1
  <2> HIDE DEF s
  <2>4. /\ llmStreams' \in Seq(LlmStreamSet) /\ DOMAIN llmStreams' = DOMAIN llmStreams
        /\ llmStreams'[s] = to
        /\ \A i \in DOMAIN llmStreams \ {s} : llmStreams'[i] = llmStreams[i]
    BY <1>1, <1>2, <2>2, <2>3, LlmStreamBecomes
  <2>5. StreamsWhole'
    BY <1>1, <1>2, <1>5, <1>7, <2>2, <2>4 DEF StreamsWhole
  <2>6. AtStreams'
    BY <1>1, <1>2, <1>3, <1>4, <2>2, <2>4 DEF AtStreams, LlmSteps, s
  <2>7. LlmTapeKeeps
    BY <1>1, <1>7, <2>2, PutOnTapeKeeps
  <2> QED
    BY <1>3, <1>4, <2>4, <2>5, <2>6, <2>7, LlmStepReads, LlmStreamStep
<1> QED
  BY <1>5, <1>6, <1>7 DEF LlmStreamTaped

-----------------------------------------------------------------------------
\* The session is new, and nobody has asked.
LEMMA LlmInitial == IsFiniteSet(Threads) /\ LlmInit => LlmInv
<1> SUFFICES ASSUME IsFiniteSet(Threads), LlmInit PROVE LlmInv
  OBVIOUS
<1>1. LlmIdle \in LlmThreads /\ LlmIdle.at = "idle" /\ LlmIdle.revision = -1
  <2>1. <<>> \in Seq(LlmMessages) /\ -1 \in Int
    OBVIOUS
  <2> QED
    BY <2>1 DEF LlmIdle, LlmThreads, LlmKinds
<1>2. llmThread = [t \in Threads |-> LlmIdle]
  BY DEF LlmInit
<1>3. \A t \in Threads : llmThread[t].at = "idle" /\ llmThread[t].revision = -1
  BY <1>1, <1>2
<1>4. \A r \in DOMAIN llmTape : llmTape[r] \in Nat
  <2>1. MaxChunks \in Nat
    BY StreamsAssumption DEF StreamsAssumption
  <2> QED
    BY <2>1 DEF LlmInit
<1>5. llmStreams = <<>> /\ llmHistory = <<>> /\ DOMAIN <<>> = {}
  BY DEF LlmInit
<1>6. LlmShapes
  <2>1. llmHistory \in Seq(LlmMessages) /\ llmStreams \in Seq(LlmStreamSet)
    BY <1>5
  <2>2. llmThread \in [Threads -> LlmThreads]
    BY <1>1, <1>2
  <2> QED
    BY <1>4, <2>1, <2>2 DEF LlmInit, LlmShapes
<1>7. QuestionsAnswered /\ StreamsWhole
  BY <1>5 DEF QuestionsAnswered, StreamsWhole
<1>8. AtStreams
  BY <1>3 DEF AtStreams
<1>9. RevisionsRead
  <2>1. llmRevision = 0 /\ -1 <= 0 /\ -1 # 0
    BY DEF LlmInit
  <2> QED
    BY <1>3, <2>1 DEF RevisionsRead
<1>10. BudgetOwed
  BY <1>3 DEF LlmInit, BudgetOwed, LlmOwing
<1> QED
  BY <1>6, <1>7, <1>8, <1>9, <1>10 DEF LlmInv

LEMMA LlmStep ==
    ASSUME IsFiniteSet(Threads), LlmInv, [LlmNext]_llmVars
    PROVE  LlmInv'
<1>1. ASSUME NEW t \in Threads, LlmCalls(t)
      PROVE  LlmInv'
  BY <1>1, LlmAskKeeps, LlmOpensKeeps, LlmNextKeeps, LlmCloseKeeps, LlmChatAsyncKeeps,
     LlmBriefKeeps, LlmReadHistoryKeeps DEF LlmCalls
<1>2. ASSUME NEW t \in Threads, LlmRuns(t)
      PROVE  LlmInv'
  BY <1>2, LlmFirstChoiceKeeps, LlmAnsweredKeeps, LlmFailedKeeps, LlmCommitKeeps,
     LlmOpenedKeeps, LlmRefusedKeeps, LlmBringsKeeps, LlmTapedKeeps, LlmSavedKeeps DEF LlmRuns
<1>3. ASSUME NEW task \in llmTasks, LlmTaskRuns(task), NoStreams
      PROVE  LlmInv'
  BY <1>3, LlmTaskKeeps
<1>4. CASE UNCHANGED llmVars
  <2>1. LlmShapes
    BY DEF LlmInv
  <2>2. UNCHANGED <<llmThread, llmTape, llmTasks, llmHistory, llmRevision, llmLimit, llmSpent,
                    llmAsked>> /\ NoStreams
    BY <1>4 DEF llmVars, llmSessionVars, llmSession, NoStreams
  <2>3. LlmStays /\ LlmOwing' = LlmOwing
    BY <2>1, <2>2, LlmStandsStill
  <2>4. LlmCharges /\ LlmHistoryMoves
    BY <2>2, <2>3 DEF LlmCharges, LlmHistoryMoves
  <2>5. llmTasks' \subseteq LlmTaskSet /\ LlmTapeKeeps
    BY <2>1, <2>2 DEF LlmShapes, LlmTapeKeeps
  <2> QED
    BY <2>2, <2>3, <2>4, <2>5, LlmQuiet
<1> QED
  BY <1>1, <1>2, <1>3, <1>4 DEF LlmNext

-----------------------------------------------------------------------------
(* What the provider's answers cost, and who is charged for it.              *)

\* Threads with an answer that is the program's to account for, or on its way.
Exchanging ==
    {t \in Threads : \/ llmThread[t].at = "exchanged"
                     \/ llmThread[t].at = "asking" /\ llmThread[t].kind = "exchange"}

LlmBills ==
    /\ llmCost \in Int /\ llmFree \in Int /\ llmSpent \in Int
    /\ llmCost = llmSpent + llmFree
    /\ Exchanging # {} => "exchange" \in llmUse
    /\ llmTasks # {} => "async" \in llmUse
    /\ llmUse \cap {"async", "exchange"} = {} => llmFree = 0

\* Only an exchange or an asynchronous chat leaves an answer uncharged.
LlmPays ==
    \/ UNCHANGED <<llmSpent, llmBill>>
    \/ Charged
    \/ Uncharged /\ (Exchanging # {} \/ llmTasks # {})
    \/ ChargedLater /\ Exchanging # {}

LlmAsksNobody ==
    /\ UNCHANGED llmUse
    /\ Exchanging' \subseteq Exchanging \/ "exchange" \in llmUse
    /\ llmTasks' # {} => llmTasks # {} \/ "async" \in llmUse

LEMMA LlmBillsKept ==
    ASSUME LlmBills, LlmPays, LlmAsksNobody
    PROVE  LlmBills'
<1>1. Exchanging' # {} => "exchange" \in llmUse
  BY DEF LlmBills, LlmAsksNobody
<1>2. llmTasks' # {} => "async" \in llmUse
  BY DEF LlmBills, LlmAsksNobody
<1>3. /\ llmCost' \in Int /\ llmFree' \in Int /\ llmSpent' \in Int
      /\ llmCost' = llmSpent' + llmFree'
  BY DEF LlmBills, LlmPays, Charged, Uncharged, ChargedLater, llmBill
<1>4. ASSUME llmUse \cap {"async", "exchange"} = {}
      PROVE  llmFree' = 0
  <2>1. Exchanging = {} /\ llmTasks = {} /\ llmFree = 0
    BY <1>4 DEF LlmBills
  <2> QED
    BY <2>1 DEF LlmPays, Charged, llmBill
<1> QED
  BY <1>1, <1>2, <1>3, <1>4 DEF LlmBills, LlmAsksNobody

\* A thread that waits for no answer afterwards, or as one that it waited for.
LEMMA ExchangingStep ==
    ASSUME NEW t \in Threads, NEW at, NEW s, LlmSteps(t, at, s),
           at \notin {"asking", "exchanged"}
    PROVE  Exchanging' \subseteq Exchanging
  BY DEF LlmSteps, Exchanging

LEMMA ExchangingStays ==
    ASSUME UNCHANGED llmThread
    PROVE  Exchanging' = Exchanging
  BY DEF Exchanging

\* A thread's own step, the bill apart.
LEMMA LlmCallBills ==
    ASSUME LlmInv, NEW t \in Threads, LlmCalls(t)
    PROVE  LlmPays /\ LlmAsksNobody
<1> USE DEF llmFixed, llmSession, LlmPays, LlmAsksNobody
<1>0. LlmShapes /\ llmThread \in [Threads -> LlmThreads] /\ llmThread[t] \in LlmThreads
  BY DEF LlmInv, LlmShapes
<1>1. ASSUME NEW kind \in Asking \cup {"exchange"}, LlmAsk(t, kind)
      PROVE  LlmPays /\ LlmAsksNobody
  <2>1. /\ UNCHANGED <<llmSpent, llmBill, llmUse, llmTasks>>
        /\ Question(t, kind, "whole", kind, "asking") /\ kind \in llmUse
    BY <1>1 DEF LlmAsk, Question, MayAsk
  <2>2. kind # "exchange" => Exchanging' \subseteq Exchanging
    <3> DEFINE to == [llmThread[t] EXCEPT !.at = "asking", !.kind = kind,
                         !.question = llmAsked + 1, !.request = Request("whole", kind)]
    <3>1. llmThread' = [llmThread EXCEPT ![t] = to]
      BY <2>1 DEF Question
    <3>2. to.kind = kind /\ to.at = "asking"
      BY <1>0 DEF LlmThreads
    <3> HIDE DEF to
    <3> QED
      BY <1>0, <3>1, <3>2 DEF Exchanging
  <2> QED
    BY <2>1, <2>2
<1>2. ASSUME LlmStreamChat(t) \/ LlmStreamChatTools(t) \/ LlmStreamContinue(t)
      PROVE  LlmPays /\ LlmAsksNobody
  <2>1. PICK call : \E kind \in Asking : Opens(t, call, kind)
    BY <1>2 DEF LlmStreamChat, LlmStreamChatTools, LlmStreamContinue, Asking
  <2>2. LlmSteps(t, "opening", llmThread[t].stream)
    BY <1>0, <2>1, LlmQuestionSteps DEF Opens
  <2> QED
    BY <2>1, <2>2, ExchangingStep DEF Opens
<1>3. ASSUME NEW s \in DOMAIN llmStreams, LlmStreamNext(t, s)
      PROVE  LlmPays /\ LlmAsksNobody
  <2>1. s \in Nat
    BY <1>0 DEF LlmShapes
  <2>2. Exchanging' \subseteq Exchanging
    <3>1. CASE UNCHANGED llmThread
      BY <3>1, ExchangingStays
    <3>2. CASE llmThread' = [llmThread EXCEPT ![t] =
                                [@ EXCEPT !.at = "reading", !.stream = s]]
      <4>1. LlmSteps(t, "reading", s)
        BY <1>0, <2>1, <3>2, LlmTurnsTo
      <4> QED
        BY <4>1, ExchangingStep
    <3> QED
      BY <1>3, <3>1, <3>2 DEF LlmStreamNext
  <2> QED
    BY <1>3, <2>2 DEF LlmStreamNext, NoSessions
<1>4. ASSUME NEW s \in DOMAIN llmStreams, LlmStreamClose(t, s)
      PROVE  LlmPays /\ LlmAsksNobody
  <2>1. s \in Nat
    BY <1>0 DEF LlmShapes
  <2>2. LlmSteps(t, "taping", s)
    BY <1>0, <1>4, <2>1, LlmTurnsTo DEF LlmStreamClose
  <2> QED
    BY <1>4, <2>2, ExchangingStep DEF LlmStreamClose, NoSessions
<1>5. ASSUME LlmChatAsync(t)
      PROVE  LlmPays /\ LlmAsksNobody
  BY <1>5, ExchangingStays DEF LlmChatAsync, MayAsk
<1>6. ASSUME \/ LlmAddToolResult(t) \/ LlmClearHistory(t) \/ LlmSetHistory(t)
             \/ LlmSetBudget(t) \/ LlmCloseSession(t)
      PROVE  LlmPays /\ LlmAsksNobody
  BY <1>6, ExchangingStays
  DEF LlmAddToolResult, LlmClearHistory, LlmSetHistory, LlmSetBudget, LlmCloseSession,
      OutsideSession
<1>7. ASSUME LlmReadHistory(t)
      PROVE  LlmPays /\ LlmAsksNobody
  <2>1. PICK to : to = [[llmThread[t] EXCEPT !.revision = llmRevision]
                          EXCEPT !.history = llmHistory]
    OBVIOUS
  <2>2. llmThread' = [llmThread EXCEPT ![t] = to]
    BY <1>0, <1>7, <2>1 DEF LlmReadHistory
  <2>3. to.at = llmThread[t].at /\ to.kind = llmThread[t].kind
    BY <1>0, <2>1 DEF LlmThreads
  <2>4. Exchanging' = Exchanging
    BY <1>0, <2>2, <2>3 DEF Exchanging
  <2> QED
    BY <1>7, <2>4 DEF LlmReadHistory, OutsideSession
<1> QED
  BY <1>1, <1>2, <1>3, <1>4, <1>5, <1>6, <1>7 DEF LlmCalls

LEMMA LlmRunBills ==
    ASSUME LlmInv, NEW t \in Threads, LlmRuns(t)
    PROVE  LlmPays /\ LlmAsksNobody
<1> USE DEF llmFixed, llmSession, LlmPays, LlmAsksNobody
<1>0. LlmShapes /\ llmThread \in [Threads -> LlmThreads] /\ llmThread[t] \in LlmThreads
  BY DEF LlmInv, LlmShapes
<1>1. ASSUME LlmReturns(t) PROVE Exchanging' \subseteq Exchanging
  BY <1>0, <1>1, LlmReturnsSteps, ExchangingStep
<1>2. ASSUME LlmFirstChoice(t)
      PROVE  LlmPays /\ LlmAsksNobody
  <2>1. CASE llmThread' = [llmThread EXCEPT ![t].more = 1]
    <3>1. PICK to : to = [llmThread[t] EXCEPT !.more = 1]
      OBVIOUS
    <3>2. to.at = llmThread[t].at /\ to.kind = llmThread[t].kind
      BY <1>0, <3>1 DEF LlmThreads
    <3>3. llmThread' = [llmThread EXCEPT ![t] = to]
      BY <1>0, <2>1, <3>1
    <3>4. Exchanging' = Exchanging
      BY <1>0, <3>2, <3>3 DEF Exchanging
    <3> QED
      BY <1>2, <3>4 DEF LlmFirstChoice
  <2>2. CASE LlmReturns(t)
    BY <1>1, <1>2, <2>2 DEF LlmFirstChoice
  <2> QED
    BY <1>2, <2>1, <2>2 DEF LlmFirstChoice
<1>3. ASSUME NEW kind, NEW messages, Answers(t, kind, messages)
      PROVE  LlmPays /\ LlmAsksNobody
  BY <1>1, <1>3 DEF Answers
<1>4. ASSUME LlmAskFailed(t)
      PROVE  LlmPays /\ LlmAsksNobody
  BY <1>1, <1>4 DEF LlmAskFailed
<1>5. ASSUME LlmExchanged(t)
      PROVE  LlmPays /\ LlmAsksNobody
  <2>1. t \in Exchanging
    BY <1>5 DEF LlmExchanged, LlmAt, Exchanging
  <2>2. Exchanging' \subseteq Exchanging
    <3>1. CASE LlmReturns(t)
      BY <1>1, <3>1
    <3>2. CASE LlmGoes(t, "exchanged")
      <4>1. LlmSteps(t, "exchanged", llmThread[t].stream)
        BY <1>0, <3>2, LlmGoesSteps
      <4> QED
        BY <2>1, <4>1 DEF LlmSteps, Exchanging
    <3> QED
      BY <1>5, <3>1, <3>2 DEF LlmExchanged
  <2> QED
    BY <1>5, <2>1, <2>2 DEF LlmExchanged
<1>6. ASSUME LlmCommit(t)
      PROVE  LlmPays /\ LlmAsksNobody
  <2>1. t \in Exchanging
    BY <1>6 DEF LlmCommit, LlmAt, Exchanging
  <2> QED
    BY <1>1, <1>6, <2>1 DEF LlmCommit
<1>7. ASSUME \/ LlmStreamOpened(t) \/ LlmStreamRefused(t) \/ LlmStreamBrings(t)
             \/ LlmStreamBreaks(t)
      PROVE  LlmPays /\ LlmAsksNobody
  BY <1>1, <1>7 DEF LlmStreamOpened, LlmStreamRefused, LlmStreamBrings, LlmStreamBreaks,
                    NoSessions
<1>8. ASSUME LlmStreamTaped(t)
      PROVE  LlmPays /\ LlmAsksNobody
  <2>1. LlmSteps(t, "saving", llmThread[t].stream)
    BY <1>0, <1>8, LlmGoesSteps DEF LlmStreamTaped
  <2> QED
    BY <1>8, <2>1, ExchangingStep DEF LlmStreamTaped, NoSessions
<1>9. ASSUME LlmStreamSaved(t)
      PROVE  LlmPays /\ LlmAsksNobody
  BY <1>1, <1>9 DEF LlmStreamSaved, OutsideSession
<1> QED
  BY <1>2, <1>3, <1>4, <1>5, <1>6, <1>7, <1>8, <1>9
  DEF LlmRuns, LlmChatAnswered, LlmImageAnswered, LlmChoicesAnswered, LlmToolsAnswered,
      LlmContinueAnswered

LEMMA LlmTaskBills ==
    ASSUME NEW task \in llmTasks, LlmTaskRuns(task)
    PROVE  LlmPays /\ LlmAsksNobody
  BY ExchangingStays
  DEF LlmTaskRuns, LlmTaskAnswered, LlmTaskFailed, LlmTaskWrites, LlmPays, LlmAsksNobody,
      llmFixed, llmSession

LEMMA LlmBillsStep ==
    ASSUME LlmInv, LlmBills, [LlmNext]_llmVars
    PROVE  LlmBills'
<1>1. CASE UNCHANGED llmVars
  <2>1. LlmPays /\ LlmAsksNobody
    BY <1>1, ExchangingStays
    DEF llmVars, llmSessionVars, llmSession, llmFixed, LlmPays, LlmAsksNobody
  <2> QED
    BY <2>1, LlmBillsKept
<1>2. CASE LlmNext
  <2>1. LlmPays /\ LlmAsksNobody
    BY <1>2, LlmCallBills, LlmRunBills, LlmTaskBills DEF LlmNext
  <2> QED
    BY <2>1, LlmBillsKept
<1> QED
  BY <1>1, <1>2

LEMMA LlmBillsInitial == LlmInit => LlmBills
<1> SUFFICES ASSUME LlmInit PROVE LlmBills
  OBVIOUS
<1>1. \A t \in Threads : llmThread[t].at = "idle"
  BY DEF LlmInit, LlmIdle
<1>2. Exchanging = {}
  BY <1>1 DEF Exchanging
<1> QED
  BY <1>2 DEF LlmInit, LlmBills

\* A session's history is whole and its revision tells which one it is, whoever
\* asks it, rewrites it or closes it meanwhile; every answer but those of
\* asynchronous chats and exchanges is charged, once, and only one request of
\* each thread goes over the budget; what is on the tape is all that was sent, if
\* the program read on until it was told of the end (llm_ffi.rs:154, 1734, 2853
\* and 3281).
THEOREM ConversationsAreKept ==
    ASSUME IsFiniteSet(Threads)
    PROVE  LlmInit /\ [][LlmNext]_llmVars => []ConversationsKept
<1>1. LlmInv /\ LlmBills => ConversationsKept
  <2> SUFFICES ASSUME LlmInv, LlmBills PROVE ConversationsKept
    OBVIOUS
  <2>1. QuestionsAnswered
    BY DEF LlmInv
  <2>2. RevisionsTell
    BY DEF LlmInv, RevisionsRead, RevisionsTell
  <2>3. BudgetHolds
    <3>1. /\ llmLimit \in Nat /\ llmSpent \in Nat
          /\ llmLimit > 0 => llmSpent + Cardinality(LlmOwing)
                                <= llmLimit - 1 + Cardinality(Threads)
      BY DEF LlmInv, LlmShapes, BudgetOwed
    <3>2. LlmOwing \subseteq Threads
      BY DEF LlmOwing
    <3>3. Cardinality(LlmOwing) \in Nat /\ Cardinality(Threads) \in Nat
      BY <3>2, FS_Subset, FS_CardinalityType
    <3> QED
      BY <3>1, <3>3 DEF BudgetHolds, LlmBills
  <2>4. TapesWhole
    BY DEF LlmInv, StreamsWhole, TapesWhole
  <2> QED
    BY <2>1, <2>2, <2>3, <2>4 DEF ConversationsKept
<1>2. LlmInit => LlmInv /\ LlmBills
  BY LlmInitial, LlmBillsInitial
<1>3. LlmInv /\ LlmBills /\ [LlmNext]_llmVars => (LlmInv /\ LlmBills)'
  BY LlmStep, LlmBillsStep
<1> QED
  BY <1>1, <1>2, <1>3, PTL

-----------------------------------------------------------------------------
(* The body of an HTTP stream.                                              *)
\* The largest of some numbers that have a bound.
LEMMA MaxOfBounded ==
    ASSUME NEW S, NEW b \in Nat, S # {}, S \subseteq 0..b
    PROVE  Max(S) \in S /\ \A y \in S : Max(S) >= y
<1> DEFINE Gaps == {b - x : x \in S}
<1>1. Gaps \subseteq Nat /\ Gaps # {}
  <2>1. \A x \in S : b - x \in Nat
    OBVIOUS
  <2> QED
    BY <2>1
<1>2. PICK d \in Gaps : \A y \in Gaps : ~ (<<y, d>> \in OpToRel(<, Nat))
  <2> HIDE DEF Gaps
  <2> QED
    BY <1>1, NatLessThanWellFounded, WFMin
<1>3. \A y \in Gaps : ~(y < d)
  BY <1>1, <1>2 DEF OpToRel
<1>4. PICK x \in S : d = b - x
  BY <1>2
<1>5. ASSUME NEW y \in S PROVE x >= y
  <2>1. ~(b - y < b - x) /\ x \in Nat /\ y \in Nat
    BY <1>3, <1>4, SMTT(30)
  <2> QED
    BY <2>1
<1> HIDE DEF Gaps
<1>6. \E z \in S : \A y \in S : z >= y
  BY <1>5
<1> QED
  BY <1>6 DEF Max

HstPlaces == {"idle", "receive", "decode", "leftover", "cancel"}
HstCalls == [at : HstPlaces, from : Nat, to : Nat]
HstBusy(t) == hstThread[t].at \in {"receive", "decode", "leftover"}

HstShapes ==
    /\ hstEnds \subseteq Nat /\ hstOpen \in BOOLEAN /\ hstCancelled \in BOOLEAN
    /\ hstReader \in {"top", "read", "send", "send error", "over"}
    /\ hstRead \in Nat /\ hstReceived \in Nat
    /\ hstQueue \in Seq(Nat) /\ hstFinished \in BOOLEAN
    /\ hstThread \in [Threads -> HstCalls]

\* One call reads at a time.
OneReads == \A t, u \in Threads : HstBusy(t) /\ HstBusy(u) => t = u

\* Where the bytes received, or waiting to be, end.
BytesEnd(n) ==
    IF hstQueue = <<>> THEN n = hstReceived ELSE n = hstQueue[Len(hstQueue)]

\* What waits are chunks of the body in order, an error perhaps behind them; all
\* that was read is there, but for the chunk that is being sent.
ChunksInOrder ==
    /\ \A i \in DOMAIN hstQueue :
          IF hstQueue[i] = 0 THEN i = Len(hstQueue) /\ hstReader = "over"
          ELSE /\ hstReceived < hstQueue[i] /\ hstQueue[i] <= hstRead
               /\ \A j \in 1..(i - 1) : hstQueue[j] < hstQueue[i]
    /\ hstReader \in {"top", "read", "send error"} => BytesEnd(hstRead)
    /\ hstReader = "send" =>
          hstReceived < hstRead /\ \A i \in DOMAIN hstQueue : hstQueue[i] < hstRead
    /\ hstReader = "over" /\ ~hstError =>
          \/ ~Lives
          \/ hstQueue # <<>> /\ hstQueue[Len(hstQueue)] = 0
          \/ BytesEnd(hstRead) /\ (hstCancelled \/ hstRead = BodyLength)

\* Handed out and kept are what was received, without the chunk in hand.
TextSoFar ==
    ~hstError =>
       /\ hstGiven \in Nat /\ hstPartial \in Nat
       /\ (\A t \in Threads : hstThread[t].at # "decode") =>
             hstGiven + hstPartial = hstReceived
       /\ \A t \in Threads : hstThread[t].at = "decode" =>
             /\ hstThread[t].from = hstGiven + hstPartial + 1
             /\ hstThread[t].to = hstReceived /\ hstGiven + hstPartial < hstReceived
       /\ hstGiven > 0 => hstGiven \in hstEnds

\* After the end there is nothing more, and nothing kept but by who has just seen it.
EndIsEnd ==
    /\ hstFinished =>
          /\ hstQueue = <<>> /\ hstReader = "over"
          /\ \A t \in Threads : hstThread[t].at # "decode"
          /\ ~hstError => /\ hstReceived = hstRead
                          /\ hstCancelled \/ hstRead = BodyLength
    /\ hstState = "end" =>
          /\ hstFinished
          /\ ~hstError /\ (\A t \in Threads : hstThread[t].at # "leftover") => hstPartial = 0

HstInv == HstShapes /\ OneReads /\ ChunksInOrder /\ TextSoFar /\ EndIsEnd

\* A thread is somewhere else, and the others are where they were.
HstMoves(t, at) ==
    /\ hstThread' \in [Threads -> HstCalls] /\ hstThread'[t].at = at
    /\ \A u \in Threads \ {t} : hstThread'[u] = hstThread[u]

LEMMA HstGoMoves ==
    ASSUME HstShapes, NEW t \in Threads, NEW p \in HstPlaces, HstGo(t, p)
    PROVE  HstMoves(t, p)
<1>1. PICK to : to = [hstThread[t] EXCEPT !.at = p]
  OBVIOUS
<1>2. to \in HstCalls /\ to.at = p
  BY <1>1 DEF HstShapes, HstCalls
<1>3. hstThread' = [hstThread EXCEPT ![t] = to]
  BY <1>1 DEF HstGo
<1> QED
  BY <1>2, <1>3 DEF HstShapes, HstMoves

LEMMA HstInitial == HstInit => HstInv
<1> SUFFICES ASSUME HstInit PROVE HstInv
  OBVIOUS
<1>1. \A t \in Threads : hstThread[t] = [at |-> "idle", from |-> 1, to |-> 0]
  BY DEF HstInit
<1>2. HstShapes
  <2>1. hstQueue \in Seq(Nat)
    BY DEF HstInit
  <2>2. hstEnds \subseteq Nat
    BY DEF HstInit, Bytes
  <2>3. hstThread \in [Threads -> HstCalls]
    BY DEF HstInit, HstCalls, HstPlaces
  <2> QED
    BY <2>1, <2>2, <2>3 DEF HstInit, HstShapes
<1>3. OneReads
  BY <1>1 DEF OneReads, HstBusy
<1>4. hstQueue = <<>> /\ DOMAIN <<>> = {}
  BY DEF HstInit
<1>5. ChunksInOrder
  BY <1>4 DEF HstInit, ChunksInOrder, BytesEnd
<1>6. TextSoFar
  BY <1>1 DEF HstInit, TextSoFar
<1>7. EndIsEnd
  BY DEF HstInit, EndIsEnd
<1> QED
  BY <1>2, <1>3, <1>5, <1>6, <1>7 DEF HstInv

-----------------------------------------------------------------------------
(* The reading thread.                                                       *)
LEMMA HstTopKeeps ==
    ASSUME HstInv, HstTop PROVE HstInv'
<1>1. HstShapes' /\ OneReads'
  BY DEF HstInv, HstTop, HstShapes, OneReads, HstBusy, hstText, hstTold, hstBody
<1>2. ChunksInOrder'
  BY DEF HstInv, HstTop, HstShapes, ChunksInOrder, BytesEnd, Lives, hstTold
<1>3. TextSoFar' /\ EndIsEnd'
  BY DEF HstInv, HstTop, TextSoFar, EndIsEnd, hstText, hstTold, hstBody
<1> QED
  BY <1>1, <1>2, <1>3 DEF HstInv

LEMMA HstReadsKeep ==
    ASSUME HstInv, HstReads PROVE HstInv'
<1>1. BodyLength \in Nat
  BY StreamAssumption DEF StreamAssumption
<1>2. hstReader = "read" /\ hstRead \in Nat /\ hstReceived \in Nat /\ hstQueue \in Seq(Nat)
      /\ UNCHANGED <<hstQueue, hstReceived, hstThread, hstOpen, hstCancelled>>
  BY DEF HstInv, HstShapes, HstReads
<1>3. /\ hstRead' \in Nat /\ hstRead' >= hstRead
      /\ hstReader' \in {"send", "send error", "over"}
      /\ hstReader' = "send" => hstRead' > hstRead
      /\ hstReader' # "send" => hstRead' = hstRead
      /\ hstReader' = "over" => hstRead = BodyLength
  <2>1. \/ hstRead' \in (hstRead + 1)..BodyLength /\ hstReader' = "send"
        \/ hstRead = BodyLength /\ hstReader' = "over" /\ UNCHANGED hstRead
        \/ hstReader' = "send error" /\ UNCHANGED hstRead
    BY DEF HstReads
  <2>2. \A n \in (hstRead + 1)..BodyLength : n \in Nat /\ n > hstRead /\ n >= hstRead
    BY <1>1, <1>2
  <2>3. hstRead >= hstRead
    BY <1>2
  <2> QED
    BY <1>2, <2>1, <2>2, <2>3
<1>4. HstShapes' /\ OneReads'
  BY <1>3 DEF HstInv, HstReads, HstShapes, OneReads, HstBusy, hstText, hstTold, hstBody
<1>5. ChunksInOrder'
  <2>1. \A i \in DOMAIN hstQueue : /\ hstQueue[i] \in Nat /\ hstQueue[i] # 0
                                   /\ hstReceived < hstQueue[i] /\ hstQueue[i] <= hstRead
                                   /\ \A j \in 1..(i - 1) : hstQueue[j] < hstQueue[i]
    BY <1>2 DEF HstInv, ChunksInOrder
  <2>2. BytesEnd(hstRead)
    BY <1>2 DEF HstInv, ChunksInOrder
  <2>3. hstReceived <= hstRead
    <3>1. CASE hstQueue = <<>>
      BY <1>2, <2>2, <3>1 DEF BytesEnd
    <3>2. CASE hstQueue # <<>>
      <4>1. Len(hstQueue) \in DOMAIN hstQueue
        BY <1>2, <3>2
      <4> QED
        BY <1>2, <2>1, <4>1
    <3> QED
      BY <3>1, <3>2
  <2>4. \A i \in DOMAIN hstQueue' :
           /\ hstQueue'[i] # 0 /\ hstReceived' < hstQueue'[i] /\ hstQueue'[i] <= hstRead'
           /\ \A j \in 1..(i - 1) : hstQueue'[j] < hstQueue'[i]
    <3>1. PICK n \in Nat : n = hstRead'
      BY <1>3
    <3>2. \A i \in DOMAIN hstQueue : hstQueue[i] <= n
      <4>1. hstRead <= n /\ hstRead \in Nat
        BY <1>2, <1>3, <3>1
      <4>2. \A i \in DOMAIN hstQueue : hstQueue[i] \in Nat /\ hstQueue[i] <= hstRead
        BY <2>1
      <4> QED
        BY <4>1, <4>2
    <3> QED
      BY <1>2, <2>1, <3>1, <3>2
  <2>5. hstReader' = "send" =>
          hstReceived' < hstRead' /\ \A i \in DOMAIN hstQueue' : hstQueue'[i] < hstRead'
    BY <1>2, <1>3, <2>1, <2>3
  <2>6. hstReader' # "send" => BytesEnd(hstRead)'
    BY <1>2, <1>3, <2>2 DEF BytesEnd
  <2> QED
    BY <1>3, <2>4, <2>5, <2>6 DEF ChunksInOrder
<1>6. TextSoFar' /\ EndIsEnd'
  BY <1>2 DEF HstInv, HstReads, TextSoFar, EndIsEnd, hstText, hstTold, hstBody
<1> QED
  BY <1>4, <1>5, <1>6 DEF HstInv

LEMMA HstSendsKeep ==
    ASSUME HstInv, HstSends PROVE HstInv'
<1>1. /\ hstReader \in {"send", "send error"} /\ hstRead \in Nat /\ hstReceived \in Nat
      /\ hstQueue \in Seq(Nat)
      /\ UNCHANGED <<hstReceived, hstRead, hstThread, hstOpen, hstCancelled, hstError>>
  BY DEF HstInv, HstShapes, HstSends, hstTold
<1>2. \A i \in DOMAIN hstQueue : /\ hstQueue[i] \in Nat /\ hstQueue[i] # 0
                                 /\ hstReceived < hstQueue[i] /\ hstQueue[i] <= hstRead
                                 /\ \A j \in 1..(i - 1) : hstQueue[j] < hstQueue[i]
  <2>1. \A i \in DOMAIN hstQueue : hstQueue[i] \in Nat
    <3>1. hstQueue \in Seq(Nat)
      BY <1>1
    <3> QED
      BY <3>1
  <2> QED
    BY <1>1, <2>1 DEF HstInv, ChunksInOrder
<1>3. UNCHANGED Lives
  BY <1>1 DEF Lives
<1>6. OneReads' /\ TextSoFar' /\ EndIsEnd'
  <2>1. OneReads' /\ TextSoFar'
    BY <1>1 DEF HstInv, HstSends, OneReads, HstBusy, TextSoFar, hstText, hstBody
  <2>2. ~hstFinished /\ hstState # "end" /\ UNCHANGED <<hstFinished, hstState>>
    BY <1>1 DEF HstInv, EndIsEnd, HstSends, hstTold
  <2>3. EndIsEnd'
    BY <2>2 DEF EndIsEnd
  <2> QED
    BY <2>1, <2>3
<1>4. CASE ~Lives /\ hstReader' = "over" /\ UNCHANGED hstQueue
  <2>1. ChunksInOrder'
    BY <1>1, <1>2, <1>3, <1>4 DEF ChunksInOrder
  <2>2. HstShapes'
    BY <1>4 DEF HstInv, HstSends, HstShapes, hstText, hstTold, hstBody
  <2>3. OneReads' /\ TextSoFar' /\ EndIsEnd'
    BY <1>6
  <2> QED
    BY <2>1, <2>2, <2>3 DEF HstInv
<1>5. ASSUME NEW n \in Nat, hstQueue' = Append(hstQueue, n),
             \/ n = hstRead /\ hstReader = "send" /\ hstReader' = "top"
             \/ n = 0 /\ hstReader = "send error" /\ hstReader' = "over"
      PROVE  HstInv'
  <2>1. /\ hstQueue' \in Seq(Nat) /\ Len(hstQueue') = Len(hstQueue) + 1
        /\ DOMAIN hstQueue' = 1..(Len(hstQueue) + 1) /\ DOMAIN hstQueue = 1..Len(hstQueue)
        /\ hstQueue'[Len(hstQueue) + 1] = n /\ Len(hstQueue) \in Nat
        /\ \A i \in 1..Len(hstQueue) : hstQueue'[i] = hstQueue[i]
        /\ hstQueue' # <<>>
    <3>1. /\ hstQueue' \in Seq(Nat) /\ Len(hstQueue') = Len(hstQueue) + 1
          /\ hstQueue'[Len(hstQueue) + 1] = n /\ Len(hstQueue) \in Nat
          /\ \A i \in 1..Len(hstQueue) : hstQueue'[i] = hstQueue[i]
      <4>1. PICK q \in Seq(Nat) : q = hstQueue
        BY <1>1
      <4>2. hstQueue' = Append(q, n)
        BY <1>5, <4>1
      <4>3. /\ Append(q, n) \in Seq(Nat) /\ Len(Append(q, n)) = Len(q) + 1
            /\ Append(q, n)[Len(q) + 1] = n /\ Len(q) \in Nat
            /\ \A i \in 1..Len(q) : Append(q, n)[i] = q[i]
        OBVIOUS
      <4> QED
        BY <4>1, <4>2, <4>3
    <3>2. DOMAIN hstQueue' = 1..(Len(hstQueue) + 1) /\ DOMAIN hstQueue = 1..Len(hstQueue)
      <4>1. hstQueue \in Seq(Nat)
        BY <1>1
      <4> QED
        BY <3>1, <4>1
    <3>3. hstQueue' # <<>>
      BY <3>1
    <3> QED
      BY <3>1, <3>2, <3>3
  <2>2. BytesEnd(n)'
    BY <2>1 DEF BytesEnd
  <2>3. ASSUME NEW i \in DOMAIN hstQueue'
        PROVE  IF hstQueue'[i] = 0 THEN i = Len(hstQueue') /\ hstReader' = "over"
               ELSE /\ hstReceived' < hstQueue'[i] /\ hstQueue'[i] <= hstRead'
                    /\ \A j \in 1..(i - 1) : hstQueue'[j] < hstQueue'[i]
    <3>1. CASE i \in 1..Len(hstQueue)
      <4>1. \A j \in 1..(i - 1) : j \in 1..Len(hstQueue)
        BY <2>1, <3>1
      <4> QED
        BY <1>1, <1>2, <2>1, <3>1, <4>1
    <3>2. CASE i = Len(hstQueue) + 1
      <4>1. \A j \in 1..(i - 1) : j \in 1..Len(hstQueue)
        BY <2>1, <3>2
      <4>2. CASE n = hstRead /\ hstReader = "send"
        <5>1. hstReceived < hstRead /\ \A k \in DOMAIN hstQueue : hstQueue[k] < hstRead
          BY <4>2 DEF HstInv, ChunksInOrder
        <5>2. hstQueue'[i] # 0
          BY <1>1, <2>1, <3>2, <4>2, <5>1
        <5> QED
          BY <1>1, <2>1, <3>2, <4>1, <4>2, <5>1, <5>2
      <4>3. CASE n = 0 /\ hstReader' = "over"
        BY <2>1, <3>2, <4>3
      <4> QED
        BY <1>5, <4>2, <4>3
    <3> QED
      BY <2>1, <3>1, <3>2
  <2>4. ChunksInOrder'
    BY <1>1, <1>5, <2>1, <2>2, <2>3 DEF ChunksInOrder
  <2>5. HstShapes'
    BY <1>5, <2>1 DEF HstInv, HstSends, HstShapes, hstText, hstTold, hstBody
  <2>6. OneReads' /\ TextSoFar' /\ EndIsEnd'
    BY <1>6
  <2> QED
    BY <2>4, <2>5, <2>6 DEF HstInv
<1> QED
  BY <1>1, <1>4, <1>5 DEF HstSends

-----------------------------------------------------------------------------
(* The calls.                                                                *)

\* A step that leaves the source and the queue alone, and tells nothing.
LEMMA HstQueueStays ==
    ASSUME ChunksInOrder, Lives' => Lives, hstCancelled => hstCancelled',
           hstError => hstError',
           UNCHANGED <<hstSource, hstQueue, hstReceived>>
    PROVE  ChunksInOrder'
  BY DEF ChunksInOrder, BytesEnd, hstSource

LEMMA HstCallKeeps ==
    ASSUME HstInv, NEW t \in Threads, HstCall(t) PROVE HstInv'
<1>1. HstMoves(t, "receive")
  BY HstGoMoves DEF HstInv, HstCall, HstPlaces
<1>2. /\ hstOpen /\ \A u \in Threads : hstThread[u].at = "idle"
      /\ UNCHANGED <<hstEnds, hstOpen, hstCancelled, hstSource, hstQueue, hstReceived,
                     hstGiven, hstPartial, hstFinished, hstState, hstError>>
  BY DEF HstCall, HstAt, hstBody, hstText, hstTold
<1>3. Lives
  BY <1>2 DEF Lives
<1>4. ChunksInOrder'
  BY <1>2, <1>3, HstQueueStays DEF HstInv
<1>5. HstShapes' /\ OneReads'
  BY <1>1, <1>2 DEF HstInv, HstShapes, OneReads, HstBusy, HstMoves, hstSource
<1>6. TextSoFar' /\ EndIsEnd'
  BY <1>1, <1>2 DEF HstInv, TextSoFar, EndIsEnd, HstMoves, hstSource
<1> QED
  BY <1>4, <1>5, <1>6 DEF HstInv

LEMMA HstCloseKeeps ==
    ASSUME HstInv, NEW t \in Threads, HstClose(t) PROVE HstInv'
<1>1. /\ hstThread[t].at \in {"idle", "cancel"}
      /\ HstMoves(t, "idle") \/ HstMoves(t, "cancel")
  BY HstGoMoves DEF HstInv, HstClose, HstPlaces, HstAt
<1>2. /\ UNCHANGED <<hstEnds, hstSource, hstQueue, hstReceived,
                     hstGiven, hstPartial, hstFinished, hstState, hstError>>
      /\ hstOpen' => hstOpen
      /\ hstCancelled => hstCancelled'
      /\ hstOpen' \in BOOLEAN /\ hstCancelled' \in BOOLEAN
  <2>1. UNCHANGED <<hstEnds, hstSource, hstQueue, hstReceived,
                     hstGiven, hstPartial, hstFinished, hstState, hstError>>
    BY DEF HstClose, hstBody, hstText, hstTold
  <2>2. hstOpen \in BOOLEAN /\ hstCancelled \in BOOLEAN
    BY DEF HstInv, HstShapes
  <2>3. \/ hstOpen' = FALSE /\ hstCancelled' = hstCancelled
        \/ hstOpen' = hstOpen /\ hstCancelled' = TRUE
    BY DEF HstClose
  <2>4. CASE hstOpen' = FALSE /\ hstCancelled' = hstCancelled
    <3>1. ~hstOpen' /\ hstOpen' \in BOOLEAN
      BY <2>4
    <3>2. (hstCancelled => hstCancelled') /\ hstCancelled' \in BOOLEAN
      BY <2>2, <2>4
    <3> QED
      BY <2>1, <3>1, <3>2
  <2>5. CASE hstOpen' = hstOpen /\ hstCancelled' = TRUE
    <3>1. (hstOpen' => hstOpen) /\ hstOpen' \in BOOLEAN
      BY <2>2, <2>5
    <3>2. hstCancelled' /\ hstCancelled' \in BOOLEAN
      BY <2>5
    <3> QED
      BY <2>1, <3>1, <3>2
  <2> QED
    BY <2>3, <2>4, <2>5
<1>3. Lives' => Lives
  BY <1>1, <1>2 DEF Lives, HstMoves
<1>4. ChunksInOrder'
  BY <1>2, <1>3, HstQueueStays DEF HstInv
<1>5. HstShapes' /\ OneReads'
  BY <1>1, <1>2 DEF HstInv, HstShapes, OneReads, HstBusy, HstMoves, hstSource
<1>6. TextSoFar' /\ EndIsEnd'
  BY <1>1, <1>2 DEF HstInv, TextSoFar, EndIsEnd, HstMoves, hstSource
<1> QED
  BY <1>4, <1>5, <1>6 DEF HstInv

LEMMA HstTimesOutKeeps ==
    ASSUME HstInv, NEW t \in Threads, HstTimesOut(t) PROVE HstInv'
<1>1. HstMoves(t, "idle") /\ hstThread[t].at = "receive"
  BY HstGoMoves DEF HstInv, HstTimesOut, HstPlaces, HstAt
<1>2. /\ ~hstFinished /\ hstState' = "timeout"
      /\ UNCHANGED <<hstEnds, hstOpen, hstCancelled, hstSource, hstQueue, hstReceived,
                     hstGiven, hstPartial, hstFinished, hstError>>
  BY DEF HstTimesOut, hstBody, hstText
<1>3. Lives' => Lives
  BY <1>1, <1>2 DEF Lives, HstMoves
<1>4. ChunksInOrder'
  BY <1>2, <1>3, HstQueueStays DEF HstInv
<1>5. HstShapes' /\ OneReads'
  BY <1>1, <1>2 DEF HstInv, HstShapes, OneReads, HstBusy, HstMoves, hstSource
<1>6. TextSoFar' /\ EndIsEnd'
  BY <1>1, <1>2 DEF HstInv, TextSoFar, EndIsEnd, HstMoves
<1> QED
  BY <1>4, <1>5, <1>6 DEF HstInv

LEMMA HstEndKeeps ==
    ASSUME HstInv, NEW t \in Threads, HstEnd(t) PROVE HstInv'
<1>1. HstMoves(t, "leftover") /\ hstThread[t].at = "receive"
  BY HstGoMoves DEF HstInv, HstEnd, HstPlaces, HstAt
<1>2. /\ hstFinished \/ (hstQueue = <<>> /\ hstReader = "over")
      /\ hstFinished' = TRUE /\ hstState' = "end"
      /\ UNCHANGED <<hstEnds, hstBad, hstOpen, hstCancelled, hstReader, hstRead, hstQueue,
                     hstReceived, hstGiven, hstPartial, hstError>>
  BY DEF HstEnd, hstBody, hstText, hstSource
<1>3. Lives /\ (Lives' => Lives)
  BY <1>1 DEF Lives
<1>4. ChunksInOrder'
  BY <1>2, <1>3, HstQueueStays DEF HstInv, hstSource
<1>5. HstShapes' /\ OneReads'
  BY <1>1, <1>2 DEF HstInv, HstShapes, OneReads, HstBusy, HstMoves
<1>6. TextSoFar'
  BY <1>1, <1>2 DEF HstInv, TextSoFar, HstMoves
<1>7. EndIsEnd'
  <2>1. /\ hstQueue = <<>> /\ hstReader = "over"
        /\ ~hstError => hstReceived = hstRead /\ (hstCancelled \/ hstRead = BodyLength)
    <3>1. CASE hstFinished
      BY <3>1 DEF HstInv, EndIsEnd
    <3>2. CASE hstQueue = <<>> /\ hstReader = "over"
      BY <1>3, <3>2 DEF HstInv, ChunksInOrder, BytesEnd
    <3> QED
      BY <1>2, <3>1, <3>2
  <2>2. \A u \in Threads : hstThread[u].at # "decode"
    BY <1>1 DEF HstInv, OneReads, HstBusy
  <2>3. hstThread'[t].at = "leftover" /\ \A u \in Threads : hstThread'[u].at # "decode"
    BY <1>1, <2>2 DEF HstMoves
  <2> QED
    BY <1>2, <2>1, <2>3 DEF EndIsEnd
<1> QED
  BY <1>4, <1>5, <1>6, <1>7 DEF HstInv

LEMMA HstLeftoverKeeps ==
    ASSUME HstInv, NEW t \in Threads, HstLeftover(t) PROVE HstInv'
<1>1. HstMoves(t, "idle") /\ hstThread[t].at = "leftover"
  BY HstGoMoves DEF HstInv, HstLeftover, HstPlaces, HstAt
<1>2. /\ UNCHANGED <<hstEnds, hstOpen, hstCancelled, hstSource, hstQueue,
                     hstReceived, hstGiven, hstFinished>>
      /\ IF hstPartial > 0
         THEN hstPartial' = 0 /\ hstState' = "error" /\ hstError' = TRUE
         ELSE UNCHANGED <<hstPartial, hstState, hstError>>
  BY DEF HstLeftover, hstBody
<1>3. Lives' => Lives
  BY <1>1, <1>2 DEF Lives, HstMoves
<1>4. hstError => hstError'
  BY <1>2
<1>5. ChunksInOrder'
  BY <1>2, <1>3, <1>4, HstQueueStays DEF HstInv
<1>6. HstShapes' /\ OneReads'
  BY <1>1, <1>2 DEF HstInv, HstShapes, OneReads, HstBusy, HstMoves, hstSource
<1>7. TextSoFar'
  BY <1>1, <1>2 DEF HstInv, TextSoFar, HstMoves
<1>8. EndIsEnd'
  <2>1. ~hstError' /\ hstState' = "end" => hstState = "end" /\ hstPartial' = 0
    BY <1>2, <1>4 DEF HstInv, TextSoFar
  <2>3. hstState' = "end" => hstState = "end"
    BY <1>2
  <2>2. (\A u \in Threads : hstThread[u].at # "decode") =>
            \A u \in Threads : hstThread'[u].at # "decode"
    BY <1>1 DEF HstMoves
  <2> QED
    BY <1>2, <1>4, <2>1, <2>2, <2>3 DEF HstInv, EndIsEnd, hstSource
<1> QED
  BY <1>5, <1>6, <1>7, <1>8 DEF HstInv

LEMMA HstDecodeKeeps ==
    ASSUME HstInv, NEW t \in Threads, HstDecode(t) PROVE HstInv'
<1> DEFINE last == hstThread[t].to
           first == hstThread[t].from - hstPartial
           whole == Max({first - 1} \cup ((first..last) \cap hstEnds))
<1>1. HstMoves(t, "idle") /\ hstThread[t].at = "decode"
  BY HstGoMoves DEF HstInv, HstDecode, HstPlaces, HstAt
<1>2. /\ UNCHANGED <<hstEnds, hstOpen, hstCancelled, hstSource, hstQueue,
                     hstReceived, hstFinished>>
      /\ IF hstBad \in first..last
         THEN /\ hstPartial' = 0 /\ hstState' = "error" /\ hstError' = TRUE
              /\ UNCHANGED hstGiven
         ELSE /\ hstGiven' = IF whole < first THEN hstGiven ELSE whole
              /\ hstPartial' = last - whole
              /\ hstState' = "data" /\ UNCHANGED hstError
  BY DEF HstDecode, hstBody
<1>3. Lives' => Lives
  BY <1>1, <1>2 DEF Lives, HstMoves
<1>4. hstError => hstError'
  BY <1>2
<1>5. ChunksInOrder'
  BY <1>2, <1>3, <1>4, HstQueueStays DEF HstInv
<1>6. OneReads'
  BY <1>1 DEF HstInv, OneReads, HstBusy, HstMoves
<1>7. \A u \in Threads : hstThread'[u].at # "decode"
  BY <1>1 DEF HstInv, OneReads, HstBusy, HstMoves
<1>8. ~hstFinished /\ hstState' # "end"
  BY <1>1, <1>2 DEF HstInv, EndIsEnd
<1>9. EndIsEnd'
  BY <1>2, <1>8 DEF EndIsEnd
<1>10. /\ ~hstError => hstPartial \in Nat /\ hstGiven \in Nat
       /\ last \in Nat /\ hstThread[t].from \in Nat /\ hstReceived \in Nat /\ hstEnds \subseteq Nat
  BY DEF HstInv, HstShapes, HstCalls, TextSoFar
<1> HIDE DEF last
<1>11. ASSUME ~hstError', hstBad \notin first..last
       PROVE  /\ hstGiven' \in Nat /\ hstPartial' \in Nat
              /\ hstGiven' + hstPartial' = hstReceived
              /\ hstGiven' > 0 => hstGiven' \in hstEnds
  <2>1. ~hstError
    BY <1>4, <1>11
  <2>2. /\ hstThread[t].from = hstGiven + hstPartial + 1 /\ last = hstReceived
        /\ hstGiven + hstPartial < hstReceived
        /\ hstGiven > 0 => hstGiven \in hstEnds
    BY <1>1, <2>1 DEF HstInv, TextSoFar, last
  <2>3. first = hstGiven + 1 /\ first - 1 = hstGiven /\ hstGiven < last
    BY <1>10, <2>1, <2>2
  <2> DEFINE S == {first - 1} \cup ((first..last) \cap hstEnds)
  <2>4. S # {} /\ S \subseteq 0..last /\ first - 1 \in S
    BY <1>10, <2>1, <2>3
  <2>5. \A x \in S : x = hstGiven \/ (x \in hstEnds /\ x > hstGiven)
    BY <1>10, <2>1, <2>3
  <2>6. whole \in S
    <3> HIDE DEF S, first
    <3>1. Max(S) \in S
      BY <1>10, <2>4, MaxOfBounded
    <3> QED
      BY <3>1 DEF S
  <2> HIDE DEF S, whole
  <2>7. whole \in Nat /\ whole <= last /\ (whole = hstGiven \/ (whole \in hstEnds /\ whole > hstGiven))
    BY <1>10, <2>4, <2>5, <2>6
  <2>8. hstGiven' = whole /\ hstPartial' = last - whole
    <3>1. whole < first => whole = hstGiven
      BY <1>10, <2>1, <2>3, <2>7
    <3> QED
      BY <1>2, <1>11, <3>1
  <2> QED
    BY <1>10, <2>2, <2>7, <2>8
<1>12. TextSoFar'
  <2>1. hstBad \in first..last => hstError'
    BY <1>2
  <2> QED
    BY <1>2, <1>7, <1>11, <2>1 DEF TextSoFar
<1>13. HstShapes'
  BY <1>1, <1>2 DEF HstInv, HstShapes, HstMoves, hstSource
<1> QED
  BY <1>5, <1>6, <1>9, <1>12, <1>13 DEF HstInv

LEMMA HstReceiveKeeps ==
    ASSUME HstInv, NEW t \in Threads, HstReceive(t) PROVE HstInv'
<1> DEFINE head == Head(hstQueue)
           to == [at |-> "decode", from |-> hstReceived + 1, to |-> head]
<1>1. /\ hstThread[t].at = "receive" /\ ~hstFinished /\ hstQueue # <<>>
      /\ hstQueue' = Tail(hstQueue)
      /\ UNCHANGED <<hstEnds, hstOpen, hstCancelled, hstReader, hstRead, hstGiven, hstPartial,
                     hstFinished>>
  BY DEF HstReceive, HstAt, hstBody, hstSource, hstText
<1>2. /\ hstQueue \in Seq(Nat) /\ Len(hstQueue) \in Nat /\ hstRead \in Nat
      /\ hstReceived \in Nat
  <2>1. hstQueue \in Seq(Nat) /\ hstRead \in Nat /\ hstReceived \in Nat
    BY DEF HstInv, HstShapes
  <2> QED
    BY <2>1
<1>3. /\ hstQueue' \in Seq(Nat) /\ Len(hstQueue') = Len(hstQueue) - 1
      /\ DOMAIN hstQueue' = 1..(Len(hstQueue) - 1) /\ DOMAIN hstQueue = 1..Len(hstQueue)
      /\ \A i \in DOMAIN hstQueue' : hstQueue'[i] = hstQueue[i + 1]
      /\ Len(hstQueue) >= 1 /\ head \in Nat /\ head = hstQueue[1]
  <2>1. PICK q \in Seq(Nat) : q = hstQueue /\ q # <<>>
    BY <1>1, <1>2
  <2>2. /\ Tail(q) \in Seq(Nat) /\ Len(Tail(q)) = Len(q) - 1 /\ Len(q) >= 1
        /\ Head(q) \in Nat /\ Head(q) = q[1]
    BY <2>1
  <2>3. DOMAIN q = 1..Len(q) /\ DOMAIN Tail(q) = 1..(Len(q) - 1)
    BY <2>1, <2>2
  <2>4. \A i \in 1..(Len(q) - 1) : Tail(q)[i] = q[i + 1]
    BY <2>1
  <2> QED
    BY <1>1, <2>1, <2>2, <2>3, <2>4
<1>4. \A u \in Threads \ {t} : ~HstBusy(u)
  BY <1>1 DEF HstInv, OneReads, HstBusy
<1>5. \A u \in Threads : hstThread[u].at # "decode"
  BY <1>1, <1>4 DEF HstBusy
<1>6. Lives
  BY <1>1 DEF Lives
\* The rest of the queue, behind its head.
<1>7. ASSUME head # 0
      PROVE  /\ \A i \in DOMAIN hstQueue' :
                   IF hstQueue'[i] = 0 THEN i = Len(hstQueue') /\ hstReader = "over"
                   ELSE /\ head < hstQueue'[i] /\ hstQueue'[i] <= hstRead
                        /\ \A j \in 1..(i - 1) : hstQueue'[j] < hstQueue'[i]
             /\ hstReceived < head /\ head <= hstRead
  <2>1. \A i \in 1..Len(hstQueue) :
          IF hstQueue[i] = 0 THEN i = Len(hstQueue) /\ hstReader = "over"
          ELSE /\ hstReceived < hstQueue[i] /\ hstQueue[i] <= hstRead
               /\ \A j \in 1..(i - 1) : hstQueue[j] < hstQueue[i]
    BY <1>3 DEF HstInv, ChunksInOrder
  <2>2. hstReceived < head /\ head <= hstRead
    BY <1>3, <1>7, <2>1
  <2>3. ASSUME NEW i \in DOMAIN hstQueue'
        PROVE  IF hstQueue'[i] = 0 THEN i = Len(hstQueue') /\ hstReader = "over"
               ELSE /\ head < hstQueue'[i] /\ hstQueue'[i] <= hstRead
                    /\ \A j \in 1..(i - 1) : hstQueue'[j] < hstQueue'[i]
    <3> HIDE DEF head
    <3>1. PICK n \in Nat : n = Len(hstQueue)
      BY <1>2
    <3>2. /\ i \in Nat /\ i + 1 \in 1..n /\ 1 \in 1..((i + 1) - 1)
          /\ \A j \in 1..(i - 1) : j + 1 \in 1..((i + 1) - 1) /\ j \in 1..(n - 1)
          /\ i + 1 = n => i = n - 1
      BY <1>3, <3>1, SMTT(30)
    <3>3. hstQueue'[i] = hstQueue[i + 1]
          /\ \A j \in 1..(i - 1) : hstQueue'[j] = hstQueue[j + 1]
      BY <1>3, <3>1, <3>2, ZenonT(30)
    <3>4. IF hstQueue[i + 1] = 0 THEN i + 1 = n /\ hstReader = "over"
          ELSE /\ hstReceived < hstQueue[i + 1] /\ hstQueue[i + 1] <= hstRead
               /\ \A j \in 1..((i + 1) - 1) : hstQueue[j] < hstQueue[i + 1]
      BY <2>1, <3>1, <3>2
    <3>5. Len(hstQueue') = n - 1
      BY <1>3, <3>1
    <3>6. hstQueue[i + 1] = 0 => i = Len(hstQueue') /\ hstReader = "over"
      BY <3>2, <3>4, <3>5
    <3>7. hstQueue[i + 1] # 0 =>
             /\ head < hstQueue[i + 1] /\ hstQueue[i + 1] <= hstRead
             /\ \A j \in 1..(i - 1) : hstQueue[j + 1] < hstQueue[i + 1]
      BY <1>3, <3>2, <3>4
    <3> QED
      BY <3>3, <3>6, <3>7
  <2> QED
    BY <2>2, <2>3
<1>8. CASE head = 0
  <2>1. /\ hstState' = "error" /\ hstError' = TRUE /\ UNCHANGED hstReceived
        /\ HstMoves(t, "idle")
    BY <1>8, HstGoMoves DEF HstReceive, HstInv, HstPlaces
  <2>2. hstReader = "over" /\ Len(hstQueue) = 1
    <3>1. 1 \in DOMAIN hstQueue /\ hstQueue[1] = 0
      BY <1>2, <1>3, <1>8
    <3> QED
      BY <3>1 DEF HstInv, ChunksInOrder
  <2>3. DOMAIN hstQueue' = {}
    BY <1>3, <2>2
  <2>4. ChunksInOrder'
    BY <1>1, <2>1, <2>2, <2>3 DEF ChunksInOrder
  <2>5. HstShapes' /\ OneReads'
    BY <1>1, <1>3, <2>1 DEF HstInv, HstShapes, OneReads, HstBusy, HstMoves
  <2>6. TextSoFar' /\ EndIsEnd'
    BY <1>1, <2>1 DEF TextSoFar, EndIsEnd
  <2> QED
    BY <2>4, <2>5, <2>6 DEF HstInv
<1>9. CASE head # 0
  <2>1. /\ hstReceived' = head /\ hstThread' = [hstThread EXCEPT ![t] = to]
        /\ UNCHANGED <<hstState, hstError>>
    BY <1>9 DEF HstReceive
  <2>2. HstMoves(t, "decode") /\ hstThread'[t] = to
    <3>1. to \in HstCalls /\ to.at = "decode"
      BY <1>2, <1>3 DEF HstCalls, HstPlaces
    <3> HIDE DEF to
    <3> QED
      BY <2>1, <3>1 DEF HstInv, HstShapes, HstMoves
  <2>3. to.from = hstReceived + 1 /\ to.to = head
    OBVIOUS
  <2> HIDE DEF to
  <2>4. Lives'
    BY <2>2 DEF Lives, HstMoves
  <2>5. \A n : BytesEnd(n) => BytesEnd(n)'
    <3>1. hstQueue' = <<>> => Len(hstQueue) = 1
      BY <1>3
    <3>2. hstQueue' # <<>> => /\ Len(hstQueue') \in DOMAIN hstQueue'
                              /\ Len(hstQueue') + 1 = Len(hstQueue)
      BY <1>2, <1>3
    <3>3. hstQueue' # <<>> => hstQueue'[Len(hstQueue')] = hstQueue[Len(hstQueue)]
      BY <1>3, <3>2
    <3> QED
      BY <1>1, <1>3, <2>1, <3>1, <3>3 DEF BytesEnd
  <2>6. hstQueue[Len(hstQueue)] = 0 => hstQueue' # <<>> /\ hstQueue'[Len(hstQueue')] = 0
    <3>1. hstQueue[Len(hstQueue)] = 0 => Len(hstQueue) # 1
      BY <1>3, <1>9
    <3>2. Len(hstQueue) # 1 => /\ Len(hstQueue') \in DOMAIN hstQueue' /\ hstQueue' # <<>>
                               /\ Len(hstQueue') + 1 = Len(hstQueue)
      BY <1>2, <1>3
    <3> QED
      BY <1>3, <3>1, <3>2
  <2>7. hstReader = "send" => head < hstRead /\ \A i \in DOMAIN hstQueue' : hstQueue'[i] < hstRead
    <3>0. PICK n \in Nat : n = Len(hstQueue)
      BY <1>2
    <3>4. n >= 1 /\ DOMAIN hstQueue = 1..n /\ DOMAIN hstQueue' = 1..(n - 1)
      BY <1>3, <3>0
    <3>5. 1 \in 1..n /\ \A i \in 1..(n - 1) : i + 1 \in 1..n
      BY <3>4
    <3>1. \A i \in DOMAIN hstQueue' : i + 1 \in DOMAIN hstQueue
      BY <3>4, <3>5
    <3>2. 1 \in DOMAIN hstQueue
      BY <3>4, <3>5
    <3> QED
      BY <1>3, <3>1, <3>2 DEF HstInv, ChunksInOrder
  <2>8. ChunksInOrder'
    <3>1. /\ hstReader' \in {"top", "read", "send error"} => BytesEnd(hstRead)'
          /\ hstReader' = "over" /\ ~hstError' =>
               \/ ~Lives'
               \/ hstQueue' # <<>> /\ hstQueue'[Len(hstQueue')] = 0
               \/ BytesEnd(hstRead)' /\ (hstCancelled' \/ hstRead' = BodyLength)
      BY <1>1, <1>6, <2>1, <2>5, <2>6 DEF HstInv, ChunksInOrder
    <3> QED
      BY <1>1, <1>7, <1>9, <2>1, <2>7, <3>1 DEF ChunksInOrder
  <2>9. HstShapes'
    BY <1>1, <1>3, <2>1, <2>2 DEF HstInv, HstShapes, HstMoves
  <2>10. OneReads'
    BY <1>4, <2>2 DEF OneReads, HstBusy, HstMoves
  <2>11. TextSoFar'
    <3>1. ~hstError => /\ hstGiven + hstPartial = hstReceived
                       /\ hstGiven \in Nat /\ hstPartial \in Nat
                       /\ hstGiven > 0 => hstGiven \in hstEnds
      BY <1>5 DEF HstInv, TextSoFar
    <3>2. \A u \in Threads : hstThread'[u].at = "decode" => u = t
      BY <1>5, <2>2 DEF HstMoves
    <3>3. hstReceived < head
      BY <1>7, <1>9
    <3> QED
      BY <1>1, <2>1, <2>2, <2>3, <3>1, <3>2, <3>3 DEF TextSoFar, HstMoves
  <2>12. EndIsEnd'
    BY <1>1, <2>1 DEF HstInv, EndIsEnd
  <2> QED
    BY <2>8, <2>9, <2>10, <2>11, <2>12 DEF HstInv
<1> QED
  BY <1>8, <1>9

LEMMA HstStep == HstInv /\ [HstNext]_hstVars => HstInv'
<1> SUFFICES ASSUME HstInv, [HstNext]_hstVars PROVE HstInv'
  OBVIOUS
<1>1. CASE UNCHANGED hstVars
  <2>1. UNCHANGED <<hstEnds, hstBad, hstOpen, hstCancelled, hstReader, hstRead, hstQueue,
             hstReceived, hstGiven, hstPartial, hstFinished, hstState, hstError, hstThread>>
    BY <1>1 DEF hstVars
  <2>2. HstShapes' /\ OneReads'
    BY <2>1 DEF HstInv, HstShapes, OneReads, HstBusy
  <2>3. ChunksInOrder'
    BY <2>1 DEF HstInv, ChunksInOrder, BytesEnd, Lives
  <2>4. TextSoFar' /\ EndIsEnd'
    BY <2>1 DEF HstInv, TextSoFar, EndIsEnd
  <2> QED
    BY <2>2, <2>3, <2>4 DEF HstInv
<1> QED
  BY <1>1, HstTopKeeps, HstReadsKeep, HstSendsKeep, HstCallKeeps, HstReceiveKeeps,
     HstTimesOutKeeps, HstEndKeeps, HstLeftoverKeeps, HstDecodeKeeps, HstCloseKeeps DEF HstNext

\* Of a body, what was handed out and the character that is kept are all that was
\* received, whatever chunks it comes in; an end without an error is told when all
\* that was read was handed out, which is all there is if nobody has closed the
\* stream (http_stream_ffi.rs:331 and 341).
THEOREM BodiesAreText == HstInit /\ [][HstNext]_hstVars => []TextIsBody
<1>1. HstInv => TextIsBody
  <2> SUFFICES ASSUME HstInv, ~hstError, \A t \in Threads : ~HstAt(t, "decode")
               PROVE  /\ hstGiven + hstPartial = hstReceived
                      /\ hstGiven > 0 => hstGiven \in hstEnds
                      /\ hstState = "end" /\ (\A t \in Threads : ~HstAt(t, "leftover"))
                            => hstGiven = hstRead /\ (hstCancelled \/ hstRead = BodyLength)
    BY DEF TextIsBody
  <2>1. /\ hstGiven \in Nat /\ hstPartial \in Nat /\ hstGiven + hstPartial = hstReceived
        /\ hstGiven > 0 => hstGiven \in hstEnds
    BY DEF HstInv, TextSoFar, HstAt
  <2>2. ASSUME hstState = "end", \A t \in Threads : ~HstAt(t, "leftover")
        PROVE  hstGiven = hstRead /\ (hstCancelled \/ hstRead = BodyLength)
    <3>1. /\ hstPartial = 0 /\ hstReceived = hstRead
          /\ hstCancelled \/ hstRead = BodyLength
      BY <2>2 DEF HstInv, EndIsEnd, HstAt
    <3> QED
      BY <2>1, <3>1
  <2> QED
    BY <2>1, <2>2
<1> QED
  BY <1>1, HstInitial, HstStep, PTL

-----------------------------------------------------------------------------
(* The texts of a WebSocket.                                                 *)
WsThreads == [at : {"idle", "wait", "frame", "handle", "lock", "seal", "write", "cut"},
              timed : BOOLEAN,
              writes : {"nothing", "pong", "text", "close", "close reply"},
              header : WsHalves \cup {None}, parts : Seq(WsFrames), collects : BOOLEAN]

\* What has come and nobody has read.
WsBytes == wsAhead \o wsPipe

WsShapes ==
    /\ wsThread \in [Threads -> WsThreads]
    /\ wsAhead \in Seq(WsHalves) /\ wsPipe \in Seq(WsHalves)
    /\ wsPeer \in [texts : Nat, parts : 0..1, pings : Nat, half : WsFrames \cup {None},
                   gone : BOOLEAN]
    /\ wsPeer.texts + wsPeer.pings <= WsMessages
    /\ wsTexts \in Seq(Seq(WsFrames))

\* A thread that reads a frame writes nothing, and has no header until it has read one.
WsPlaced(r) ==
    /\ r.at \in {"idle", "wait", "frame", "handle"} => r.writes = "nothing"
    /\ r.at = "wait" => r.header = None
    /\ r.at = "handle" => r.header # None
    /\ r.header # None => r.header.half = "header"

\* One thread reads at a time.
WsOneReads == \A t, u \in Threads : Reading(t) /\ Reading(u) => t = u

\* A thread that will go on reading, and one that will not, or only to cut.
WsAlive(r) == r.at \in {"wait", "frame", "handle"} \/ r.writes = "pong"
WsDoomed(r) == r.writes = "close reply"
WsLive ==
    /\ \A t \in Threads : ~WsDoomed(wsThread[t])
    /\ wsPool \/ \E t \in Threads : WsAlive(wsThread[t])

\* A header is read, its payload is not.
WsHalfRead(r) == r.at = "frame" /\ r.header # None

\* Headers and payloads take turns, from what was read to what is still to come.
WsAlternates(w, read, due) ==
    /\ \A i \in 1..(Len(w) - 1) : w[i].half # w[i + 1].half
    /\ w # <<>> => (w[1].half = "payload" <=> read)
    /\ w # <<>> => (w[Len(w)].half = "header" <=> due)
    /\ w = <<>> => (read <=> due)

\* The frames of texts: after text n, with a part to come or not, comes its second
\* part or a new text.
WsOpens(f) == IF f.last THEN 0 ELSE 1
IsData(h) == h.half = "header" /\ h.f.kind \in {"text", "continuation"}
WsBegins(n, open, f) ==
    IF open = 1 THEN f.kind = "continuation" /\ f.text = n /\ f.part = 2 /\ f.last
    ELSE f.kind = "text" /\ f.text = n + 1 /\ f.part = 1

\* What waits goes on from text n and leads to text m.
WsChained(w, n, o, m, p) ==
    /\ \A j \in 1..Len(w) : IsData(w[j]) /\ (\A i \in 1..(j - 1) : ~IsData(w[i])) =>
          WsBegins(n, o, w[j].f)
    /\ \A i, j \in 1..Len(w) :
          i < j /\ IsData(w[i]) /\ IsData(w[j]) /\ (\A k \in (i + 1)..(j - 1) : ~IsData(w[k])) =>
             WsBegins(w[i].f.text, WsOpens(w[i].f), w[j].f)
    /\ (\A j \in 1..Len(w) : ~IsData(w[j])) => m = n /\ p = o
    /\ \A j \in 1..Len(w) : IsData(w[j]) /\ (\A i \in (j + 1)..Len(w) : ~IsData(w[i])) =>
          m = w[j].f.text /\ p = WsOpens(w[j].f)

WsReturned(m) == \E i \in DOMAIN wsTexts : wsTexts[i][1].text = m

\* Up to text n every text was returned or passed over; its first part may be in
\* somebody's hands.
WsSettled(collects, parts, n, o) ==
    /\ \A m \in 1..n : m < n \/ o = 0 => WsReturned(m) \/ m \in wsMissed
    /\ collects => o = 1 /\ Len(parts) = 1 /\ parts[1].text = n /\ parts[1].part = 1
    /\ o = 1 /\ ~collects => n \in wsMissed
    /\ \A i \in DOMAIN wsTexts : wsTexts[i][1].text <= n /\ (o = 1 => wsTexts[i][1].text < n)

\* A header of a text is in hand.
WsInHand(r) == r.at \in {"frame", "handle"} /\ r.header # None /\ IsData(r.header)

\* Whoever reads is at text n; what is in hand is one step ahead of what it has done.
WsAtText(r, n, o) ==
    IF WsInHand(r)
    THEN /\ n = r.header.f.text /\ o = WsOpens(r.header.f)
         /\ IF r.header.f.kind = "text"
            THEN r.header.f.part = 1 /\ n > 0 /\ WsSettled(r.collects, r.parts, n - 1, 0)
            ELSE r.header.f.part = 2 /\ r.header.f.last /\ WsSettled(r.collects, r.parts, n, 1)
    ELSE WsSettled(r.collects, r.parts, n, o)

WsReaderAt(n, o) ==
    /\ (\A t \in Threads : ~WsAlive(wsThread[t])) => WsSettled(FALSE, <<>>, n, o)
    /\ \A t \in Threads : WsAlive(wsThread[t]) => WsAtText(wsThread[t], n, o)

WsInOrder ==
    \E n \in Nat, o \in 0..1 :
       WsChained(WsBytes, n, o, wsPeer.texts, wsPeer.parts) /\ WsReaderAt(n, o)

\* What was returned.
WsTextsRight ==
    /\ \A i \in DOMAIN wsTexts :
          /\ wsTexts[i] # <<>> /\ wsTexts[i][Len(wsTexts[i])].last
          /\ \A j \in DOMAIN wsTexts[i] :
                wsTexts[i][j].part = j /\ wsTexts[i][j].text = wsTexts[i][1].text
    /\ \A i \in DOMAIN wsTexts, m \in 1..WsMessages :
          /\ m < wsTexts[i][1].text
          /\ \A k \in 1..(i - 1) : wsTexts[k][1].text # m
          => m \in wsMissed
    /\ \A i, k \in DOMAIN wsTexts : i < k => wsTexts[i][1].text < wsTexts[k][1].text

WsReadable ==
    /\ WsAlternates(WsBytes, \E t \in Threads : WsHalfRead(wsThread[t]), wsPeer.half # None)
    /\ WsInOrder

WsInv ==
    /\ WsShapes /\ (\A t \in Threads : WsPlaced(wsThread[t])) /\ WsOneReads /\ WsTextsRight
    /\ WsLive => WsReadable

-----------------------------------------------------------------------------
(* Frames that wait.                                                         *)

LEMMA ChainTail ==
    ASSUME NEW w \in Seq(WsHalves), w # <<>>, NEW n, NEW o, NEW m, NEW p,
           WsChained(w, n, o, m, p)
    PROVE  IF IsData(w[1])
           THEN /\ WsBegins(n, o, w[1].f)
                /\ WsChained(Tail(w), w[1].f.text, WsOpens(w[1].f), m, p)
           ELSE WsChained(Tail(w), n, o, m, p)
<1> DEFINE v == Tail(w)
<1>1. /\ v \in Seq(WsHalves) /\ Len(v) = Len(w) - 1 /\ Len(w) \in Nat /\ Len(w) >= 1
      /\ \A i \in 1..Len(v) : i + 1 \in 1..Len(w) /\ v[i] = w[i + 1]
  <2>1. v \in Seq(WsHalves) /\ Len(v) = Len(w) - 1 /\ Len(w) \in Nat /\ Len(w) >= 1
    OBVIOUS
  <2>2. \A i \in 1..(Len(w) - 1) : v[i] = w[i + 1] /\ i + 1 \in 1..Len(w)
    OBVIOUS
  <2> QED
    BY <2>1, <2>2
<1> HIDE DEF v
<1>2. \A i \in 1..Len(w) : i = 1 \/ (i - 1 \in 1..Len(v) /\ v[i - 1] = w[i])
  <2>1. \A i \in 1..Len(w) : i = 1 \/ (i - 1 \in 1..Len(v) /\ (i - 1) + 1 = i)
    BY <1>1
  <2> QED
    BY <1>1, <2>1
<1>3. 1 \in 1..Len(w) /\ \A i \in 1..(1 - 1) : FALSE
  BY <1>1
\* Between two that wait nothing else has come.
<1>4. ASSUME NEW i \in 1..Len(v), NEW j \in 1..Len(v), i < j, IsData(v[i]), IsData(v[j]),
             \A k \in (i + 1)..(j - 1) : ~IsData(v[k])
      PROVE  WsBegins(v[i].f.text, WsOpens(v[i].f), v[j].f)
  <2>1. \A k \in ((i + 1) + 1)..((j + 1) - 1) :
            k \in 1..Len(w) /\ k # 1 /\ k - 1 \in (i + 1)..(j - 1)
    BY <1>1
  <2>2. \A k \in ((i + 1) + 1)..((j + 1) - 1) : ~IsData(w[k])
    BY <1>2, <1>4, <2>1
  <2>3. i + 1 < j + 1 /\ i + 1 \in 1..Len(w) /\ j + 1 \in 1..Len(w)
    BY <1>1, <1>4
  <2>4. IsData(w[i + 1]) /\ IsData(w[j + 1])
    BY <1>1, <1>4
  <2>5. WsBegins(w[i + 1].f.text, WsOpens(w[i + 1].f), w[j + 1].f)
    BY <2>2, <2>3, <2>4 DEF WsChained
  <2> QED
    BY <1>1, <2>5
\* The last that waits is still the last.
<1>5. ASSUME NEW j \in 1..Len(v), IsData(v[j]), \A i \in (j + 1)..Len(v) : ~IsData(v[i])
      PROVE  m = v[j].f.text /\ p = WsOpens(v[j].f)
  <2>1. \A i \in ((j + 1) + 1)..Len(w) : i \in 1..Len(w) /\ i # 1 /\ i - 1 \in (j + 1)..Len(v)
    BY <1>1
  <2>2. \A i \in ((j + 1) + 1)..Len(w) : ~IsData(w[i])
    BY <1>2, <1>5, <2>1
  <2>3. j + 1 \in 1..Len(w) /\ IsData(w[j + 1]) /\ w[j + 1] = v[j]
    BY <1>1, <1>5
  <2> QED
    BY <2>2, <2>3 DEF WsChained
<1>6. CASE IsData(w[1])
  <2>1. WsBegins(n, o, w[1].f)
    BY <1>3, <1>6 DEF WsChained
  <2>2. ASSUME NEW j \in 1..Len(v), IsData(v[j]), \A i \in 1..(j - 1) : ~IsData(v[i])
        PROVE  WsBegins(w[1].f.text, WsOpens(w[1].f), v[j].f)
    <3>1. \A k \in (1 + 1)..((j + 1) - 1) : k \in 1..Len(w) /\ k # 1 /\ k - 1 \in 1..(j - 1)
      BY <1>1
    <3>2. \A k \in (1 + 1)..((j + 1) - 1) : ~IsData(w[k])
      BY <1>2, <2>2, <3>1
    <3>3. 1 < j + 1 /\ j + 1 \in 1..Len(w) /\ IsData(w[j + 1]) /\ w[j + 1] = v[j]
      BY <1>1, <2>2
    <3> QED
      BY <1>3, <1>6, <3>2, <3>3 DEF WsChained
  <2>3. ASSUME \A j \in 1..Len(v) : ~IsData(v[j])
        PROVE  m = w[1].f.text /\ p = WsOpens(w[1].f)
    <3>1. \A i \in (1 + 1)..Len(w) : i \in 1..Len(w) /\ i # 1
      BY <1>1
    <3>2. \A i \in (1 + 1)..Len(w) : ~IsData(w[i])
      BY <1>2, <2>3, <3>1
    <3> QED
      BY <1>3, <1>6, <3>2 DEF WsChained
  <2>4. WsChained(v, w[1].f.text, WsOpens(w[1].f), m, p)
    BY <1>4, <1>5, <2>2, <2>3 DEF WsChained
  <2> QED
    BY <1>6, <2>1, <2>4 DEF v
<1>7. CASE ~IsData(w[1])
  <2>2. ASSUME NEW j \in 1..Len(v), IsData(v[j]), \A i \in 1..(j - 1) : ~IsData(v[i])
        PROVE  WsBegins(n, o, v[j].f)
    <3>1. \A k \in 1..((j + 1) - 1) : k \in 1..Len(w) /\ (k = 1 \/ k - 1 \in 1..(j - 1))
      BY <1>1
    <3>2. \A k \in 1..((j + 1) - 1) : ~IsData(w[k])
      BY <1>2, <1>7, <2>2, <3>1
    <3>3. j + 1 \in 1..Len(w) /\ IsData(w[j + 1]) /\ w[j + 1] = v[j]
      BY <1>1, <2>2
    <3> QED
      BY <3>2, <3>3 DEF WsChained
  <2>3. ASSUME \A j \in 1..Len(v) : ~IsData(v[j])
        PROVE  m = n /\ p = o
    <3>1. \A i \in 1..Len(w) : ~IsData(w[i])
      BY <1>2, <1>7, <2>3
    <3> QED
      BY <3>1 DEF WsChained
  <2>4. WsChained(v, n, o, m, p)
    BY <1>4, <1>5, <2>2, <2>3 DEF WsChained
  <2> QED
    BY <1>7, <2>4 DEF v
<1> QED
  BY <1>6, <1>7

LEMMA ChainAppend ==
    ASSUME NEW w \in Seq(WsHalves), NEW h \in WsHalves, NEW n, NEW o, NEW m, NEW p,
           WsChained(w, n, o, m, p), IsData(h) => WsBegins(m, p, h.f)
    PROVE  IF IsData(h) THEN WsChained(Append(w, h), n, o, h.f.text, WsOpens(h.f))
           ELSE WsChained(Append(w, h), n, o, m, p)
<1> DEFINE v == Append(w, h)
<1>1. /\ Len(w) \in Nat /\ Len(v) = Len(w) + 1 /\ v[Len(w) + 1] = h
      /\ \A i \in 1..Len(w) : v[i] = w[i]
  OBVIOUS
<1> HIDE DEF v
<1>2. PICK l \in Nat : l = Len(w) /\ Len(v) = l + 1
  BY <1>1
<1>3. \A i \in 1..Len(v) : i = l + 1 \/ i \in 1..l
  BY <1>2
<1>4. ASSUME NEW j \in 1..Len(v), IsData(v[j]), \A i \in 1..(j - 1) : ~IsData(v[i])
      PROVE  WsBegins(n, o, v[j].f)
  <2>1. CASE j \in 1..l
    <3>1. \A i \in 1..(j - 1) : i \in 1..l
      BY <2>1
    <3> QED
      BY <1>1, <1>2, <1>4, <2>1, <3>1 DEF WsChained
  <2>2. CASE j = l + 1
    <3>1. \A i \in 1..l : i \in 1..(j - 1)
      BY <2>2
    <3>2. \A i \in 1..l : ~IsData(w[i])
      BY <1>1, <1>2, <1>4, <3>1
    <3>3. m = n /\ p = o
      BY <1>2, <3>2 DEF WsChained
    <3> QED
      BY <1>1, <1>2, <1>4, <2>2, <3>3
  <2> QED
    BY <1>3, <2>1, <2>2
<1>5. ASSUME NEW i \in 1..Len(v), NEW j \in 1..Len(v), i < j, IsData(v[i]), IsData(v[j]),
             \A k \in (i + 1)..(j - 1) : ~IsData(v[k])
      PROVE  WsBegins(v[i].f.text, WsOpens(v[i].f), v[j].f)
  <2>1. i \in 1..l
    BY <1>2, <1>5
  <2>2. CASE j \in 1..l
    <3>1. \A k \in (i + 1)..(j - 1) : k \in 1..l
      BY <2>2
    <3>2. \A k \in (i + 1)..(j - 1) : ~IsData(w[k])
      BY <1>1, <1>2, <1>5, <3>1
    <3>3. v[i] = w[i] /\ v[j] = w[j]
      BY <1>1, <1>2, <2>1, <2>2
    <3> QED
      BY <1>2, <1>5, <2>1, <2>2, <3>2, <3>3 DEF WsChained
  <2>3. CASE j = l + 1
    <3>1. \A k \in (i + 1)..l : k \in (i + 1)..(j - 1) /\ k \in 1..l
      BY <2>1, <2>3
    <3>2. \A k \in (i + 1)..l : ~IsData(w[k])
      BY <1>1, <1>2, <1>5, <3>1
    <3>3. v[i] = w[i] /\ v[j] = h
      BY <1>1, <1>2, <2>1, <2>3
    <3>4. m = w[i].f.text /\ p = WsOpens(w[i].f)
      BY <1>2, <1>5, <2>1, <3>2, <3>3 DEF WsChained
    <3> QED
      BY <1>5, <3>3, <3>4
  <2> QED
    BY <1>3, <2>2, <2>3
<1>6. CASE IsData(h)
  <2>1. l + 1 \in 1..Len(v) /\ v[l + 1] = h
    BY <1>1, <1>2
  <2>2. ASSUME NEW j \in 1..Len(v), IsData(v[j]), \A i \in (j + 1)..Len(v) : ~IsData(v[i])
        PROVE  h.f.text = v[j].f.text /\ WsOpens(h.f) = WsOpens(v[j].f)
    <3>1. j \in 1..l => l + 1 \in (j + 1)..Len(v)
      BY <1>2
    <3>2. j = l + 1
      BY <1>3, <1>6, <2>1, <2>2, <3>1
    <3> QED
      BY <2>1, <3>2
  <2>3. WsChained(v, n, o, h.f.text, WsOpens(h.f))
    BY <1>4, <1>5, <1>6, <2>1, <2>2 DEF WsChained
  <2> QED
    BY <1>6, <2>3 DEF v
<1>7. CASE ~IsData(h)
  <2>1. ASSUME NEW j \in 1..Len(v), IsData(v[j]), \A i \in (j + 1)..Len(v) : ~IsData(v[i])
        PROVE  m = v[j].f.text /\ p = WsOpens(v[j].f)
    <3>1. j \in 1..l /\ v[j] = w[j]
      BY <1>1, <1>2, <1>3, <1>7, <2>1
    <3>2. \A i \in (j + 1)..l : i \in (j + 1)..Len(v) /\ i \in 1..l
      BY <1>2, <3>1
    <3>3. \A i \in (j + 1)..l : ~IsData(w[i])
      BY <1>1, <1>2, <2>1, <3>2
    <3> QED
      BY <1>2, <2>1, <3>1, <3>3 DEF WsChained
  <2>2. ASSUME \A j \in 1..Len(v) : ~IsData(v[j])
        PROVE  m = n /\ p = o
    <3>1. \A j \in 1..l : j \in 1..Len(v)
      BY <1>2
    <3>2. \A j \in 1..l : ~IsData(w[j])
      BY <1>1, <1>2, <2>2, <3>1
    <3> QED
      BY <1>2, <3>2 DEF WsChained
  <2>3. WsChained(v, n, o, m, p)
    BY <1>4, <1>5, <2>1, <2>2 DEF WsChained
  <2> QED
    BY <1>7, <2>3 DEF v
<1> QED
  BY <1>6, <1>7

LEMMA AlternatesTail ==
    ASSUME NEW w \in Seq(WsHalves), w # <<>>, NEW due, WsAlternates(w, w[1].half = "payload", due)
    PROVE  WsAlternates(Tail(w), w[1].half = "header", due)
<1> DEFINE v == Tail(w)
<1>1. /\ Len(v) = Len(w) - 1 /\ Len(w) \in Nat /\ Len(w) >= 1
      /\ \A i \in 1..(Len(w) - 1) : v[i] = w[i + 1]
      /\ v = <<>> <=> Len(w) = 1
  <2>1. v \in Seq(WsHalves) /\ Len(v) = Len(w) - 1 /\ Len(w) \in Nat /\ Len(w) >= 1
    OBVIOUS
  <2>2. \A i \in 1..(Len(w) - 1) : v[i] = w[i + 1]
    OBVIOUS
  <2>3. v = <<>> <=> Len(v) = 0
    <3> HIDE DEF v
    <3> QED
      BY <2>1, EmptySeq
  <2> QED
    BY <2>1, <2>2, <2>3
<1>2. \A i \in 1..Len(w) : w[i].half = "header" \/ w[i].half = "payload"
  <2>1. \A i \in 1..Len(w) : w[i] \in WsHalves
    OBVIOUS
  <2> QED
    BY <2>1 DEF WsHalves
<1> HIDE DEF v
<1>3. \A i \in 1..(Len(w) - 1) : i \in 1..Len(w) /\ w[i].half # w[i + 1].half
  BY <1>1 DEF WsAlternates
<1>4. \A i \in 1..(Len(v) - 1) : v[i].half # v[i + 1].half
  <2>1. \A i \in 1..(Len(v) - 1) : i \in 1..(Len(w) - 1) /\ i + 1 \in 1..(Len(w) - 1)
    BY <1>1
  <2> QED
    BY <1>1, <1>3, <2>1
<1>5. v # <<>> => (v[1].half = "payload" <=> w[1].half = "header")
  <2>1. v # <<>> => 1 \in 1..(Len(w) - 1) /\ 1 + 1 \in 1..Len(w) /\ 1 \in 1..Len(w)
    BY <1>1
  <2>2. v # <<>> => v[1] = w[1 + 1] /\ w[1].half # w[1 + 1].half
    BY <1>1, <1>3, <2>1
  <2> QED
    BY <1>2, <2>1, <2>2
<1>6. v # <<>> => (v[Len(v)].half = "header" <=> due)
  <2>1. v # <<>> => Len(v) \in 1..(Len(w) - 1) /\ Len(v) + 1 = Len(w)
    BY <1>1
  <2> QED
    BY <1>1, <2>1 DEF WsAlternates
<1>7. v = <<>> => (w[1].half = "header" <=> due)
  BY <1>1 DEF WsAlternates
<1> QED
  BY <1>4, <1>5, <1>6, <1>7 DEF WsAlternates, v

LEMMA AlternatesAppend ==
    ASSUME NEW w \in Seq(WsHalves), NEW h \in WsHalves, NEW read,
           WsAlternates(w, read, h.half = "payload")
    PROVE  WsAlternates(Append(w, h), read, h.half = "header")
<1> DEFINE v == Append(w, h)
<1>1. /\ Len(w) \in Nat /\ Len(v) = Len(w) + 1 /\ v[Len(w) + 1] = h /\ v # <<>>
      /\ \A i \in 1..Len(w) : v[i] = w[i]
      /\ w # <<>> => Len(w) >= 1 /\ v[1] = w[1] /\ v[Len(w)] = w[Len(w)]
      /\ w = <<>> => Len(w) = 0
  <2>1. /\ Len(w) \in Nat /\ Len(v) = Len(w) + 1 /\ v[Len(w) + 1] = h
        /\ v \in Seq(WsHalves) /\ \A i \in 1..Len(w) : v[i] = w[i]
    OBVIOUS
  <2>2. w # <<>> => 1 \in 1..Len(w) /\ Len(w) \in 1..Len(w) /\ Len(w) >= 1
    OBVIOUS
  <2>3. v # <<>> /\ (w = <<>> => Len(w) = 0)
    BY <2>1
  <2> QED
    BY <2>1, <2>2, <2>3
<1>2. h.half = "header" \/ h.half = "payload"
  BY DEF WsHalves
<1>3. w # <<>> => w[Len(w)].half = "header" \/ w[Len(w)].half = "payload"
  <2>1. w # <<>> => w[Len(w)] \in WsHalves
    OBVIOUS
  <2> QED
    BY <2>1 DEF WsHalves
<1> HIDE DEF v
<1>4. ASSUME NEW i \in 1..(Len(v) - 1) PROVE v[i].half # v[i + 1].half
  <2>1. CASE i \in 1..(Len(w) - 1)
    <3>1. i \in 1..Len(w) /\ i + 1 \in 1..Len(w)
      BY <1>1, <2>1
    <3> QED
      BY <1>1, <2>1, <3>1 DEF WsAlternates
  <2>2. CASE i = Len(w) /\ w # <<>>
    BY <1>1, <1>2, <1>3, <2>2 DEF WsAlternates
  <2>3. i \in 1..(Len(w) - 1) \/ (i = Len(w) /\ w # <<>>)
    BY <1>1
  <2> QED
    BY <2>1, <2>2, <2>3
<1>5. v[1].half = "payload" <=> read
  BY <1>1, <1>2 DEF WsAlternates
<1> QED
  BY <1>1, <1>4, <1>5 DEF WsAlternates, v

-----------------------------------------------------------------------------
(* Steps that read nothing.                                                  *)

LEMMA WsThreadGoes ==
    ASSUME WsShapes, NEW t \in Threads, NEW r \in WsThreads, WsGoes(t, r)
    PROVE  /\ wsThread' \in [Threads -> WsThreads] /\ wsThread'[t] = r
           /\ \A u \in Threads \ {t} : wsThread'[u] = wsThread[u]
  BY DEF WsShapes, WsGoes

LEMMA ReadingIs == \A t : Reading(t) <=> WsAlive(wsThread[t]) \/ WsDoomed(wsThread[t])
  BY DEF Reading, WsAlive, WsDoomed

LEMMA SettledStays ==
    ASSUME NEW c, NEW p, NEW n, NEW o, WsSettled(c, p, n, o), UNCHANGED wsSeen
    PROVE  WsSettled(c, p, n, o)'
  BY DEF WsSettled, WsReturned, wsSeen

LEMMA AtTextStays ==
    ASSUME NEW r, NEW n, NEW o, WsAtText(r, n, o), UNCHANGED wsSeen
    PROVE  WsAtText(r, n, o)'
  BY SettledStays DEF WsAtText

LEMMA TextsStay ==
    ASSUME WsTextsRight, UNCHANGED wsSeen PROVE WsTextsRight'
  BY DEF WsTextsRight, wsSeen

\* A step of a thread that is as far from what it reads as before.
LEMMA WsSame ==
    ASSUME WsInv, NEW t \in Threads, NEW r \in WsThreads, WsGoes(t, r), WsPlaced(r),
           WsAlive(r) <=> WsAlive(wsThread[t]), WsDoomed(r) <=> WsDoomed(wsThread[t]),
           ~WsInHand(wsThread[t]), ~WsInHand(r), ~WsHalfRead(wsThread[t]), ~WsHalfRead(r),
           WsAlive(r) => r.collects = wsThread[t].collects /\ r.parts = wsThread[t].parts,
           wsPool' => wsPool, UNCHANGED wsSeen, UNCHANGED wsPeer,
           wsAhead' \in Seq(WsHalves), wsPipe' \in Seq(WsHalves), WsBytes' = WsBytes
    PROVE  WsInv'
<1>1. /\ wsThread' \in [Threads -> WsThreads] /\ wsThread'[t] = r
      /\ \A u \in Threads \ {t} : wsThread'[u] = wsThread[u]
  BY WsThreadGoes DEF WsInv
<1>2. WsShapes'
  BY <1>1 DEF WsInv, WsShapes, wsSeen
<1>3. \A u \in Threads : WsPlaced(wsThread'[u])
  BY <1>1 DEF WsInv
<1>4. \A u \in Threads : /\ WsAlive(wsThread'[u]) <=> WsAlive(wsThread[u])
                         /\ WsDoomed(wsThread'[u]) <=> WsDoomed(wsThread[u])
                         /\ WsHalfRead(wsThread'[u]) <=> WsHalfRead(wsThread[u])
  BY <1>1
<1>5. \A u \in Threads : Reading(u)' <=> Reading(u)
  <2>1. \A u : Reading(u)' <=> WsAlive(wsThread'[u]) \/ WsDoomed(wsThread'[u])
    BY DEF Reading, WsAlive, WsDoomed
  <2> QED
    BY <1>4, <2>1, ReadingIs
<1>6. WsOneReads'
  BY <1>5 DEF WsInv, WsOneReads
<1>7. WsTextsRight'
  BY TextsStay DEF WsInv
<1>8. WsLive' => WsLive
  BY <1>4 DEF WsLive
<1>9. ASSUME WsLive PROVE WsReadable'
  <2>1. WsReadable
    BY <1>9 DEF WsInv
  <2>2. WsAlternates(WsBytes, \E u \in Threads : WsHalfRead(wsThread[u]), wsPeer.half # None)'
    <3>1. (\E u \in Threads : WsHalfRead(wsThread'[u])) <=> \E u \in Threads : WsHalfRead(wsThread[u])
      BY <1>4
    <3> QED
      BY <2>1, <3>1 DEF WsReadable, WsAlternates
  <2>3. PICK n \in Nat, o \in 0..1 :
            WsChained(WsBytes, n, o, wsPeer.texts, wsPeer.parts) /\ WsReaderAt(n, o)
    BY <2>1 DEF WsReadable, WsInOrder
  <2>4. WsChained(WsBytes, n, o, wsPeer.texts, wsPeer.parts)'
    BY <2>3 DEF WsChained
  <2>5. (\A u \in Threads : ~WsAlive(wsThread'[u])) => WsSettled(FALSE, <<>>, n, o)'
    BY <1>4, <2>3, SettledStays DEF WsReaderAt
  <2>6. ASSUME NEW u \in Threads, WsAlive(wsThread'[u])
        PROVE  WsAtText(wsThread[u], n, o)'
    <3>1. WsAtText(wsThread[u], n, o)
      BY <1>4, <2>3, <2>6 DEF WsReaderAt
    <3>2. CASE u # t
      <4>1. PICK s : s = wsThread[u]
        OBVIOUS
      <4>2. WsAtText(s, n, o)'
        BY <3>1, <4>1, AtTextStays
      <4> QED
        BY <1>1, <3>2, <4>1, <4>2
    <3>3. CASE u = t
      <4>1. WsSettled(r.collects, r.parts, n, o)
        BY <1>1, <2>6, <3>1, <3>3 DEF WsAtText
      <4>2. WsSettled(r.collects, r.parts, n, o)'
        BY <4>1, SettledStays
      <4> QED
        BY <1>1, <3>3, <4>2 DEF WsAtText
    <3> QED
      BY <3>2, <3>3
  <2> QED
    BY <2>2, <2>3, <2>4, <2>5, <2>6 DEF WsReadable, WsInOrder, WsReaderAt
<1> QED
  BY <1>2, <1>3, <1>6, <1>7, <1>8, <1>9 DEF WsInv

\* A step to the end of reading.
LEMMA WsEnds ==
    ASSUME WsInv, NEW t \in Threads, NEW r \in WsThreads, WsGoes(t, r), WsPlaced(r),
           Reading(t), WsDoomed(r) \/ (~wsPool' /\ ~WsAlive(r)), ~WsAlive(r),
           UNCHANGED wsSeen, UNCHANGED wsPeer, UNCHANGED <<wsAhead, wsPipe>>
    PROVE  WsInv'
<1>1. /\ wsThread' \in [Threads -> WsThreads] /\ wsThread'[t] = r
      /\ \A u \in Threads \ {t} : wsThread'[u] = wsThread[u]
  BY WsThreadGoes DEF WsInv
<1>2. WsShapes'
  BY <1>1 DEF WsInv, WsShapes, wsSeen
<1>3. \A u \in Threads : WsPlaced(wsThread'[u])
  BY <1>1 DEF WsInv
<1>4. \A u \in Threads \ {t} : ~Reading(u)
  BY DEF WsInv, WsOneReads
<1>5. \A u \in Threads \ {t} : ~Reading(u)'
  BY <1>1, <1>4 DEF Reading
<1>6. WsOneReads'
  BY <1>5 DEF WsOneReads
<1>7. WsTextsRight'
  BY TextsStay DEF WsInv
<1>8. ~WsLive'
  <2>1. \A u \in Threads : ~WsAlive(wsThread'[u])
    BY <1>1, <1>4, ReadingIs
  <2> QED
    BY <1>1, <2>1 DEF WsLive
<1> QED
  BY <1>2, <1>3, <1>6, <1>7, <1>8 DEF WsInv

-----------------------------------------------------------------------------
(* Steps of whoever reads.                                                   *)

\* Nobody else reads, and what waits goes on from where it is.
LEMMA WsReader ==
    ASSUME WsInv, NEW t \in Threads, WsAlive(wsThread[t])
    PROVE  /\ \A u \in Threads \ {t} : ~Reading(u)
           /\ \E n \in Nat, o \in 0..1 :
                 /\ WsChained(WsBytes, n, o, wsPeer.texts, wsPeer.parts)
                 /\ WsAtText(wsThread[t], n, o)
           /\ WsAlternates(WsBytes, WsHalfRead(wsThread[t]), wsPeer.half # None)
<1>1. Reading(t) /\ \A u \in Threads \ {t} : ~Reading(u)
  BY ReadingIs DEF WsInv, WsOneReads
<1>2. \A u \in Threads \ {t} : ~WsAlive(wsThread[u]) /\ ~WsDoomed(wsThread[u])
  BY <1>1, ReadingIs
<1>3. ~WsDoomed(wsThread[t])
  <2>1. WsPlaced(wsThread[t])
    BY DEF WsInv
  <2> QED
    BY <2>1 DEF WsAlive, WsDoomed, WsPlaced
<1>4. WsReadable
  BY <1>2, <1>3 DEF WsInv, WsLive
<1>5. \A u \in Threads \ {t} : ~WsHalfRead(wsThread[u])
  BY <1>2 DEF WsAlive, WsHalfRead
<1>6. (\E u \in Threads : WsHalfRead(wsThread[u])) <=> WsHalfRead(wsThread[t])
  BY <1>5
<1>7. WsAlternates(WsBytes, WsHalfRead(wsThread[t]), wsPeer.half # None)
  BY <1>4, <1>6 DEF WsReadable, WsAlternates
<1> QED
  BY <1>1, <1>4, <1>7 DEF WsReadable, WsInOrder, WsReaderAt

\* What is left to show of a step of the only thread that reads, or begins to.
LEMMA WsMoves ==
    ASSUME WsShapes, \A u \in Threads : WsPlaced(wsThread[u]),
           NEW t \in Threads, NEW r \in WsThreads, WsGoes(t, r), WsPlaced(r), ~WsDoomed(r),
           \A u \in Threads \ {t} : ~Reading(u), UNCHANGED wsPeer,
           wsAhead' \in Seq(WsHalves), wsPipe' \in Seq(WsHalves),
           wsTexts' \in Seq(Seq(WsFrames)), WsTextsRight',
           NEW n \in Nat, NEW o \in 0..1,
           WsChained(WsBytes', n, o, wsPeer.texts, wsPeer.parts),
           WsAlternates(WsBytes', WsHalfRead(r), wsPeer.half # None),
           IF WsAlive(r) THEN WsAtText(r, n, o)' ELSE WsSettled(FALSE, <<>>, n, o)'
    PROVE  WsInv'
<1>1. /\ wsThread' \in [Threads -> WsThreads] /\ wsThread'[t] = r
      /\ \A u \in Threads \ {t} : wsThread'[u] = wsThread[u]
  BY WsThreadGoes
<1>2. WsShapes'
  BY <1>1 DEF WsShapes
<1>3. \A u \in Threads : WsPlaced(wsThread'[u])
  BY <1>1
<1>4. \A u \in Threads \ {t} : ~Reading(u)'
  BY <1>1 DEF Reading
<1>5. WsOneReads'
  BY <1>4 DEF WsOneReads
<1>6. \A u \in Threads \ {t} : ~WsAlive(wsThread'[u]) /\ ~WsHalfRead(wsThread'[u])
  BY <1>4 DEF Reading, WsAlive, WsHalfRead
<1>7. (\E u \in Threads : WsHalfRead(wsThread'[u])) <=> WsHalfRead(r)
  BY <1>1, <1>6
<1>8. WsAlternates(WsBytes', \E u \in Threads : WsHalfRead(wsThread'[u]), wsPeer'.half # None)
  BY <1>7 DEF WsAlternates
<1>9. WsChained(WsBytes', n, o, wsPeer'.texts, wsPeer'.parts)
  OBVIOUS
<1>10. WsReaderAt(n, o)'
  <2>1. (\A u \in Threads : ~WsAlive(wsThread'[u])) => WsSettled(FALSE, <<>>, n, o)'
    BY <1>1
  <2>2. ASSUME NEW u \in Threads, WsAlive(wsThread'[u]) PROVE WsAtText(wsThread[u], n, o)'
    <3>1. u = t /\ wsThread'[u] = r
      BY <1>1, <1>6, <2>2
    <3>2. WsAtText(r, n, o)'
      BY <2>2, <3>1
    <3> QED
      BY <3>1, <3>2 DEF WsAtText
  <2> QED
    BY <2>1, <2>2 DEF WsReaderAt
<1>11. WsReadable'
  BY <1>8, <1>9, <1>10 DEF WsReadable, WsInOrder
<1> QED
  BY <1>2, <1>3, <1>5, <1>11 DEF WsInv

\* A half is taken from the front of what waits.
LEMMA WsTakes ==
    ASSUME WsInv, NEW t \in Threads, WsAt(t, "frame"), WsBytes # <<>>,
           WsGoes(t, Took(t, WsBytes[1])), WsBytes' = Tail(WsBytes),
           wsAhead' \in Seq(WsHalves), wsPipe' \in Seq(WsHalves),
           UNCHANGED <<wsPeer, wsSeen>>
    PROVE  WsInv'
<1>1. PICK s \in WsThreads : s = wsThread[t]
  BY DEF WsInv, WsShapes
<1>2. s.at = "frame" /\ WsAlive(s) /\ WsPlaced(s)
  BY <1>1 DEF WsAt, WsAlive, WsInv
<1>3. PICK n \in Nat, o \in 0..1 :
          WsChained(WsBytes, n, o, wsPeer.texts, wsPeer.parts) /\ WsAtText(s, n, o)
  BY <1>1, <1>2, WsReader
<1>4. /\ \A u \in Threads \ {t} : ~Reading(u)
      /\ WsAlternates(WsBytes, WsHalfRead(s), wsPeer.half # None)
  BY <1>1, <1>2, WsReader
<1>5. PICK w \in Seq(WsHalves) : w = WsBytes
  <2>1. wsAhead \in Seq(WsHalves) /\ wsPipe \in Seq(WsHalves)
    BY DEF WsInv, WsShapes
  <2>2. WsBytes \in Seq(WsHalves)
    BY <2>1 DEF WsBytes
  <2> QED
    BY <2>2
<1>6. PICK h \in WsHalves : h = w[1]
  BY <1>5
<1>7. (h.half = "header" \/ h.half = "payload") /\ h.f \in WsFrames
  BY DEF WsHalves
<1>8. PICK m, p : m = wsPeer.texts /\ p = wsPeer.parts
  OBVIOUS
<1>9. h.half = "payload" <=> s.header # None
  BY <1>2, <1>4, <1>5, <1>6 DEF WsAlternates, WsHalfRead
<1>10. WsAlternates(Tail(w), h.half = "header", wsPeer.half # None)
  <2>1. WsAlternates(w, w[1].half = "payload", wsPeer.half # None)
    BY <1>2, <1>4, <1>5, <1>6, <1>9 DEF WsAlternates, WsHalfRead
  <2>2. WsAlternates(Tail(w), w[1].half = "header", wsPeer.half # None)
    BY <1>5, <2>1, AlternatesTail
  <2> QED
    BY <1>6, <2>2
<1>11. IF IsData(h) THEN /\ WsBegins(n, o, h.f)
                         /\ WsChained(Tail(w), h.f.text, WsOpens(h.f), m, p)
       ELSE WsChained(Tail(w), n, o, m, p)
  <2>1. WsChained(w, n, o, m, p)
    BY <1>3, <1>5, <1>8
  <2>2. IF IsData(w[1]) THEN /\ WsBegins(n, o, w[1].f)
                             /\ WsChained(Tail(w), w[1].f.text, WsOpens(w[1].f), m, p)
        ELSE WsChained(Tail(w), n, o, m, p)
    BY <1>5, <2>1, ChainTail
  <2> QED
    BY <1>6, <2>2
<1>12. WsTextsRight'
  BY TextsStay DEF WsInv
<1>13. wsTexts' \in Seq(Seq(WsFrames))
  BY DEF WsInv, WsShapes, wsSeen
<1>14. CASE s.header = None
  <2> DEFINE r == [s EXCEPT !.header = h]
  <2>1. /\ r \in WsThreads /\ r.at = "frame" /\ r.header = h /\ r.writes = s.writes
        /\ r.collects = s.collects /\ r.parts = s.parts
    BY <1>2 DEF WsThreads
  <2>2. WsGoes(t, r)
    BY <1>1, <1>5, <1>6, <1>14 DEF Took
  <2>3. h.half = "header" /\ h # None
    BY <1>7, <1>9, <1>14, NoFrameAssumption
  <2> HIDE DEF r
  <2>4. WsPlaced(r) /\ ~WsDoomed(r) /\ WsAlive(r) /\ WsHalfRead(r)
    BY <1>2, <2>1, <2>3 DEF WsPlaced, WsDoomed, WsAlive, WsHalfRead
  <2>5. WsAlternates(Tail(w), WsHalfRead(r), wsPeer.half # None)
    BY <1>10, <2>3, <2>4 DEF WsAlternates
  <2>6. WsSettled(s.collects, s.parts, n, o)
    BY <1>3, <1>14 DEF WsAtText, WsInHand
  <2>7. WsSettled(s.collects, s.parts, n, o)'
    BY <2>6, SettledStays
  <2>8. CASE ~IsData(h)
    <3>1. WsAtText(r, n, o)'
      BY <2>1, <2>7, <2>8 DEF WsAtText, WsInHand
    <3> QED
      BY <1>4, <1>5, <1>8, <1>11, <1>12, <1>13, <2>1, <2>2, <2>4, <2>5, <2>8, <3>1, WsMoves
         DEF WsInv
  <2>9. CASE IsData(h)
    <3>1. PICK f \in WsFrames : f = h.f
      BY <1>7
    <3>2. f.text \in Nat /\ WsOpens(f) \in 0..1
      BY WebSocketsAssumption DEF WsFrames, WsOpens
    <3>3. WsBegins(n, o, f) /\ WsChained(Tail(w), f.text, WsOpens(f), m, p)
      BY <1>11, <2>9, <3>1
    <3>4. WsInHand(r) /\ r.header.f = f
      BY <2>1, <2>3, <2>9, <3>1 DEF WsInHand
    <3>5. CASE o = 1
      <4>1. f.kind = "continuation" /\ f.text = n /\ f.part = 2 /\ f.last
        BY <3>3, <3>5 DEF WsBegins
      <4>2. WsAtText(r, f.text, WsOpens(f))'
        BY <2>1, <2>7, <3>4, <3>5, <4>1 DEF WsAtText
      <4> QED
        BY <1>4, <1>5, <1>8, <1>12, <1>13, <2>1, <2>2, <2>4, <2>5, <3>2, <3>3, <4>2, WsMoves
           DEF WsInv
    <3>6. CASE o = 0
      <4>1. f.kind = "text" /\ f.text = n + 1 /\ f.part = 1
        BY <3>3, <3>6 DEF WsBegins
      <4>2. f.text > 0 /\ f.text - 1 = n
        BY <4>1
      <4>3. WsAtText(r, f.text, WsOpens(f))'
        BY <2>1, <2>7, <3>4, <3>6, <4>1, <4>2 DEF WsAtText
      <4> QED
        BY <1>4, <1>5, <1>8, <1>12, <1>13, <2>1, <2>2, <2>4, <2>5, <3>2, <3>3, <4>3, WsMoves
           DEF WsInv
    <3> QED
      BY <3>5, <3>6
  <2> QED
    BY <2>8, <2>9
<1>15. CASE s.header # None
  <2> DEFINE r == [s EXCEPT !.at = "handle"]
  <2>1. /\ r \in WsThreads /\ r.at = "handle" /\ r.header = s.header /\ r.writes = s.writes
        /\ r.collects = s.collects /\ r.parts = s.parts
    BY <1>2 DEF WsThreads
  <2>2. WsGoes(t, r)
    BY <1>1, <1>15 DEF Took
  <2>3. h.half = "payload" /\ ~IsData(h)
    BY <1>9, <1>15 DEF IsData
  <2> HIDE DEF r
  <2>4. WsPlaced(r) /\ ~WsDoomed(r) /\ WsAlive(r) /\ ~WsHalfRead(r)
    BY <1>2, <1>15, <2>1 DEF WsPlaced, WsDoomed, WsAlive, WsHalfRead
  <2>5. WsAlternates(Tail(w), WsHalfRead(r), wsPeer.half # None)
    BY <1>10, <2>3, <2>4 DEF WsAlternates
  <2>6. WsAtText(s, n, o)'
    BY <1>3, AtTextStays
  <2>7. WsInHand(r) <=> WsInHand(s)
    BY <1>2, <2>1 DEF WsInHand
  <2>8. WsAtText(r, n, o)'
    BY <2>1, <2>6, <2>7 DEF WsAtText
  <2> QED
    BY <1>4, <1>5, <1>8, <1>11, <1>12, <1>13, <2>1, <2>2, <2>3, <2>4, <2>5, <2>8, WsMoves
       DEF WsInv
<1> QED
  BY <1>14, <1>15

LEMMA FrontOfFirst ==
    ASSUME NEW a \in Seq(WsHalves), NEW q \in Seq(WsHalves), a # <<>>
    PROVE  a \o q # <<>> /\ (a \o q)[1] = a[1] /\ Tail(a) \o q = Tail(a \o q)
<1>1. Len(a) \in Nat /\ Len(q) \in Nat /\ Len(a) >= 1
  OBVIOUS
<1>2. /\ a \o q \in Seq(WsHalves) /\ Len(a \o q) = Len(a) + Len(q)
      /\ \A i \in 1..(Len(a) + Len(q)) :
            (a \o q)[i] = IF i <= Len(a) THEN a[i] ELSE q[i - Len(a)]
  BY <1>1
<1>3. a \o q # <<>> /\ (a \o q)[1] = a[1]
  BY <1>1, <1>2
<1>4. /\ Tail(a) \in Seq(WsHalves) /\ Len(Tail(a)) = Len(a) - 1
      /\ \A i \in 1..(Len(a) - 1) : Tail(a)[i] = a[i + 1]
  BY <1>1
<1>5. /\ Tail(a \o q) \in Seq(WsHalves) /\ Len(Tail(a \o q)) = Len(a \o q) - 1
      /\ \A i \in 1..(Len(a \o q) - 1) : Tail(a \o q)[i] = (a \o q)[i + 1]
  <2>1. PICK w \in Seq(WsHalves) : w = a \o q
    BY <1>2
  <2>2. /\ Tail(w) \in Seq(WsHalves) /\ Len(Tail(w)) = Len(w) - 1
        /\ \A i \in 1..(Len(w) - 1) : Tail(w)[i] = w[i + 1]
    BY <1>3, <2>1
  <2> QED
    BY <2>1, <2>2
<1>6. PICK b \in Seq(WsHalves) : b = Tail(a)
  BY <1>4
<1>7. /\ b \o q \in Seq(WsHalves) /\ Len(b \o q) = Len(b) + Len(q) /\ Len(b) \in Nat
      /\ \A i \in 1..(Len(b) + Len(q)) :
            (b \o q)[i] = IF i <= Len(b) THEN b[i] ELSE q[i - Len(b)]
  BY <1>1
<1>8. PICK w \in Seq(WsHalves) : w = Tail(a \o q)
  BY <1>5
<1>9. PICK k \in Nat, l \in Nat : k = Len(b) /\ l = Len(q)
  BY <1>1, <1>7
<1>10. Len(b \o q) = k + l /\ Len(w) = k + l /\ Len(a) = k + 1
  BY <1>1, <1>2, <1>4, <1>5, <1>6, <1>7, <1>8, <1>9
<1>11. ASSUME NEW i \in 1..(k + l) PROVE (b \o q)[i] = w[i]
  <2>1. w[i] = (a \o q)[i + 1] /\ i + 1 \in 1..(Len(a) + Len(q))
    BY <1>2, <1>5, <1>8, <1>9, <1>10
  <2>2. CASE i <= k
    <3>1. i \in 1..(Len(a) - 1) /\ i + 1 <= Len(a)
      BY <1>10, <2>2
    <3>2. w[i] = a[i + 1]
      BY <1>2, <2>1, <3>1
    <3>3. b[i] = a[i + 1]
      BY <1>4, <1>6, <3>1
    <3> QED
      BY <1>7, <1>9, <2>2, <3>2, <3>3
  <2>3. CASE ~(i <= k)
    <3>1. ~(i + 1 <= Len(a)) /\ (i + 1) - Len(a) = i - k
      BY <1>10, <2>3
    <3>2. w[i] = q[i - k]
      BY <1>2, <2>1, <3>1
    <3> QED
      BY <1>7, <1>9, <2>3, <3>2
  <2> QED
    BY <2>2, <2>3
<1>12. b \o q = w
  BY <1>7, <1>9, <1>10, <1>11, SeqEqual
<1> QED
  BY <1>3, <1>6, <1>8, <1>12

LEMMA FrontOfSecond ==
    ASSUME NEW q \in Seq(WsHalves), NEW n \in 1..Len(q), NEW j \in 1..2
    PROVE  /\ SubSeq(q, j, n) \in Seq(WsHalves) /\ SubSeq(q, n + 1, Len(q)) \in Seq(WsHalves)
           /\ SubSeq(q, j, n) \o SubSeq(q, n + 1, Len(q)) = IF j = 1 THEN q ELSE Tail(q)
<1>1. PICK l \in Nat : l = Len(q)
  OBVIOUS
<1>2. n \in Nat /\ n >= 1 /\ n <= l
  BY <1>1
<1> DEFINE a == SubSeq(q, j, n)
           b == SubSeq(q, n + 1, Len(q))
<1>3. /\ a \in Seq(WsHalves) /\ Len(a) = n + 1 - j
      /\ \A i \in 1..(n + 1 - j) : a[i] = q[j + i - 1]
  <2>1. \A i \in j..n : i \in 1..Len(q) /\ q[i] \in WsHalves
    BY <1>1, <1>2
  <2>2. j \in Int /\ n \in Int /\ j <= n + 1
    BY <1>2
  <2>3. CASE j <= n
    BY <1>1, <1>2, <2>1, <2>2, <2>3, SubSeqProperties
  <2>4. CASE j = n + 1
    BY <1>1, <1>2, <2>4
  <2> QED
    BY <2>2, <2>3, <2>4
<1>4. /\ b \in Seq(WsHalves) /\ Len(b) = l - n
      /\ \A i \in 1..(l - n) : b[i] = q[n + i]
  <2>1. \A i \in (n + 1)..l : i \in 1..Len(q)
    BY <1>1, <1>2
  <2>2. CASE n < l
    BY <1>1, <1>2, <2>1, <2>2, SubSeqProperties
  <2>3. CASE n = l
    BY <1>1, <1>2, <2>3
  <2> QED
    BY <1>2, <2>2, <2>3
<1> HIDE DEF a, b
<1>5. PICK m \in Nat, k \in Nat : m = Len(a) /\ k = Len(b)
  BY <1>3, <1>4
<1>6. /\ a \o b \in Seq(WsHalves) /\ Len(a \o b) = m + k
      /\ \A i \in 1..(m + k) : (a \o b)[i] = IF i <= m THEN a[i] ELSE b[i - m]
  <2>1. a \o b \in Seq(WsHalves)
    BY <1>3, <1>4
  <2>2. /\ Len(a \o b) = Len(a) + Len(b)
        /\ \A i \in 1..(Len(a) + Len(b)) :
              (a \o b)[i] = IF i <= Len(a) THEN a[i] ELSE b[i - Len(a)]
    BY <1>3, <1>4, ConcatProperties
  <2> QED
    BY <1>5, <2>1, <2>2
<1>7. m = n + 1 - j /\ k = l - n
  BY <1>3, <1>4, <1>5
<1>8. \A i \in 1..(m + k) : (a \o b)[i] = q[j + i - 1]
  <2> TAKE i \in 1..(m + k)
  <2>1. CASE i <= m
    BY <1>3, <1>6, <1>7, <2>1
  <2>2. CASE ~(i <= m)
    <3>1. i - m \in 1..(l - n) /\ n + (i - m) = j + i - 1
      BY <1>2, <1>7, <2>2
    <3> QED
      BY <1>4, <1>6, <2>2, <3>1
  <2> QED
    BY <2>1, <2>2
<1>9. CASE j = 1
  <2>1. m + k = l /\ \A i \in 1..l : j + i - 1 = i
    BY <1>2, <1>7, <1>9
  <2>2. \A i \in 1..Len(q) : (a \o b)[i] = q[i]
    BY <1>1, <1>8, <2>1
  <2>3. Len(a \o b) = Len(q)
    BY <1>1, <1>6, <2>1
  <2>4. a \o b = q
    BY <1>6, <2>2, <2>3, SeqEqual
  <2> QED
    BY <1>3, <1>4, <1>9, <2>4 DEF a, b
<1>10. CASE j = 2
  <2>1. m + k = l - 1 /\ \A i \in 1..(l - 1) : j + i - 1 = i + 1
    BY <1>2, <1>7, <1>10
  <2>2. /\ Tail(q) \in Seq(WsHalves) /\ Len(Tail(q)) = l - 1
        /\ \A i \in 1..(l - 1) : Tail(q)[i] = q[i + 1]
    BY <1>1, <1>2
  <2>3. PICK v \in Seq(WsHalves) : v = Tail(q)
    BY <2>2
  <2>4. \A i \in 1..Len(v) : (a \o b)[i] = v[i]
    BY <1>8, <2>1, <2>2, <2>3
  <2>5. a \o b = v
    BY <1>6, <2>1, <2>2, <2>3, <2>4, SeqEqual
  <2>6. j # 1
    BY <1>10
  <2> QED
    BY <1>3, <1>4, <2>3, <2>5, <2>6 DEF a, b
<1>11. j = 1 \/ j = 2
  OBVIOUS
<1> QED
  BY <1>9, <1>10, <1>11

-----------------------------------------------------------------------------
(* One step after the other.                                                 *)

LEMMA AgainIs ==
    ASSUME NEW s \in WsThreads
    PROVE  /\ Again(s) \in WsThreads /\ Again(s).at \in {"wait", "frame"}
           /\ Again(s).writes = "nothing" /\ Again(s).header = None
           /\ Again(s).collects = s.collects /\ Again(s).parts = s.parts
           /\ WsPlaced(Again(s)) /\ WsAlive(Again(s)) /\ ~WsDoomed(Again(s))
           /\ ~WsHalfRead(Again(s)) /\ ~WsInHand(Again(s))
<1>1. /\ Again(s) \in WsThreads /\ Again(s).at \in {"wait", "frame"}
      /\ Again(s).writes = "nothing" /\ Again(s).header = None
      /\ Again(s).collects = s.collects /\ Again(s).parts = s.parts
  BY DEF Again, WsThreads
<1> QED
  BY <1>1 DEF WsPlaced, WsAlive, WsDoomed, WsHalfRead, WsInHand

LEMMA IdleIs ==
    /\ WsIdle \in WsThreads /\ WsPlaced(WsIdle) /\ ~WsAlive(WsIdle) /\ ~WsDoomed(WsIdle)
    /\ ~WsHalfRead(WsIdle) /\ ~WsInHand(WsIdle)
    /\ WsIdle.collects = FALSE /\ WsIdle.parts = <<>>
<1>1. <<>> \in Seq(WsFrames)
  OBVIOUS
<1>2. WsIdle \in WsThreads
  BY <1>1 DEF WsIdle, WsThreads
<1> QED
  BY <1>2 DEF WsIdle, WsPlaced, WsAlive, WsDoomed, WsHalfRead, WsInHand

LEMMA WsSetsOut ==
    ASSUME WsInv, NEW t \in Threads, NEW timed \in BOOLEAN, WsReceive(t, timed)
    PROVE  WsInv'
<1> DEFINE s == [WsIdle EXCEPT !.timed = timed]
<1>1. s \in WsThreads /\ s.collects = FALSE /\ s.parts = <<>>
  BY IdleIs DEF WsThreads
<1> HIDE DEF s
<1> DEFINE r == Again(s)
<1>2. WsGoes(t, r)
  BY DEF WsReceive, s
<1> HIDE DEF r
<1>3. r \in WsThreads /\ WsPlaced(r) /\ WsAlive(r) /\ ~WsDoomed(r) /\ ~WsHalfRead(r)
      /\ ~WsInHand(r) /\ r.collects = FALSE /\ r.parts = <<>>
  BY <1>1, AgainIs DEF r
<1>4. (\A u \in Threads : ~Reading(u)) /\ wsPool /\ UNCHANGED <<wsWire, wsSeen>>
  BY DEF WsReceive
<1>5. \A u \in Threads : /\ ~WsAlive(wsThread[u]) /\ ~WsDoomed(wsThread[u])
                         /\ ~WsHalfRead(wsThread[u])
  BY <1>4, ReadingIs DEF WsAlive, WsHalfRead
<1>6. WsReadable
  BY <1>4, <1>5 DEF WsInv, WsLive
<1>7. PICK n \in Nat, o \in 0..1 :
          /\ WsChained(WsBytes, n, o, wsPeer.texts, wsPeer.parts)
          /\ WsSettled(FALSE, <<>>, n, o)
  BY <1>5, <1>6 DEF WsReadable, WsInOrder, WsReaderAt
<1>8. WsSettled(FALSE, <<>>, n, o)'
  BY <1>4, <1>7, SettledStays
<1>9. WsAtText(r, n, o)'
  BY <1>3, <1>8 DEF WsAtText
<1>10. WsAlternates(WsBytes, WsHalfRead(r), wsPeer.half # None)
  BY <1>3, <1>5, <1>6 DEF WsReadable, WsAlternates
<1>11. WsBytes' = WsBytes /\ UNCHANGED wsPeer
  BY <1>4 DEF WsBytes, wsWire
<1>12. wsAhead' \in Seq(WsHalves) /\ wsPipe' \in Seq(WsHalves) /\ wsTexts' \in Seq(Seq(WsFrames))
  BY <1>4 DEF wsWire, wsSeen, WsInv, WsShapes
<1>13. WsTextsRight'
  BY <1>4, TextsStay DEF WsInv
<1> QED
  BY <1>2, <1>3, <1>4, <1>7, <1>9, <1>10, <1>11, <1>12, <1>13, WsMoves DEF WsInv

LEMMA WsLooks ==
    ASSUME WsInv, NEW t \in Threads, WsSees(t) PROVE WsInv'
<1>1. PICK s \in WsThreads : s = wsThread[t]
  BY DEF WsInv, WsShapes
<1>2. s.at = "wait" /\ s.writes = "nothing" /\ s.header = None
  BY <1>1 DEF WsSees, WsAt, WsInv, WsPlaced
<1> DEFINE r == [s EXCEPT !.at = "frame"]
<1>3. /\ r \in WsThreads /\ r.at = "frame" /\ r.writes = "nothing" /\ r.header = None
      /\ r.collects = s.collects /\ r.parts = s.parts
  BY <1>2 DEF WsThreads
<1>4. WsGoes(t, r)
  BY <1>1 DEF WsSees
<1> HIDE DEF r
<1>5. wsAhead \in Seq(WsHalves) /\ wsPipe \in Seq(WsHalves)
  BY DEF WsInv, WsShapes
<1>6. /\ wsAhead' \in Seq(WsHalves) /\ wsPipe' \in Seq(WsHalves) /\ WsBytes' = WsBytes
  <2>1. CASE UNCHANGED <<wsAhead, wsPipe>>
    BY <1>5, <2>1 DEF WsBytes
  <2>2. ASSUME NEW n \in 1..Len(wsPipe), wsAhead = <<>>, wsAhead' = SubSeq(wsPipe, 1, n),
               wsPipe' = SubSeq(wsPipe, n + 1, Len(wsPipe))
        PROVE  /\ wsAhead' \in Seq(WsHalves) /\ wsPipe' \in Seq(WsHalves)
               /\ wsAhead' \o wsPipe' = wsAhead \o wsPipe
    <3>1. <<>> \o wsPipe = wsPipe
      BY <1>5, ConcatEmptySeq
    <3> QED
      BY <1>5, <2>2, <3>1, FrontOfSecond
  <2> QED
    BY <2>1, <2>2 DEF WsSees, WsBytes
<1>7. WsPlaced(r) /\ WsAlive(r) /\ ~WsDoomed(r) /\ ~WsInHand(r) /\ ~WsHalfRead(r)
  BY <1>3 DEF WsPlaced, WsAlive, WsDoomed, WsInHand, WsHalfRead
<1>8. WsAlive(s) /\ ~WsDoomed(s) /\ ~WsInHand(s) /\ ~WsHalfRead(s)
  BY <1>2 DEF WsPlaced, WsAlive, WsDoomed, WsInHand, WsHalfRead
<1>9. (wsPool' => wsPool) /\ UNCHANGED wsSeen /\ UNCHANGED wsPeer
  BY DEF WsSees, wsFlags
<1> QED
  BY <1>1, <1>3, <1>4, <1>6, <1>7, <1>8, <1>9, WsSame

LEMMA WsReadsOn ==
    ASSUME WsInv, NEW t \in Threads, WsReads(t) PROVE WsInv'
<1>1. wsAhead \in Seq(WsHalves) /\ wsPipe \in Seq(WsHalves)
  BY DEF WsInv, WsShapes
<1>2. WsAt(t, "frame") /\ UNCHANGED <<wsPeer, wsSeen>>
  BY DEF WsReads
<1>3. ASSUME wsAhead # <<>>, WsGoes(t, Took(t, wsAhead[1])), wsAhead' = Tail(wsAhead),
             UNCHANGED wsPipe
      PROVE  WsInv'
  <2>1. WsBytes # <<>> /\ WsBytes[1] = wsAhead[1] /\ WsBytes' = Tail(WsBytes)
    BY <1>1, <1>3, FrontOfFirst DEF WsBytes
  <2>2. wsAhead' \in Seq(WsHalves) /\ wsPipe' \in Seq(WsHalves)
    BY <1>1, <1>3
  <2> QED
    BY <1>2, <1>3, <2>1, <2>2, WsTakes
<1>4. ASSUME NEW n \in 1..Len(wsPipe), wsAhead = <<>>, WsGoes(t, Took(t, wsPipe[1])),
             wsAhead' = SubSeq(wsPipe, 2, n), wsPipe' = SubSeq(wsPipe, n + 1, Len(wsPipe))
      PROVE  WsInv'
  <2>1. WsBytes = wsPipe
    BY <1>1, <1>4, ConcatEmptySeq DEF WsBytes
  <2>2. wsPipe # <<>>
    BY <1>1, <1>4
  <2>3. /\ wsAhead' \in Seq(WsHalves) /\ wsPipe' \in Seq(WsHalves)
        /\ wsAhead' \o wsPipe' = Tail(wsPipe)
    <3>1. 2 \in 1..2 /\ 2 # 1
      OBVIOUS
    <3> QED
      BY <1>1, <1>4, <3>1, FrontOfSecond
  <2>4. WsBytes' = Tail(WsBytes)
    BY <2>1, <2>3 DEF WsBytes
  <2> QED
    BY <1>2, <1>4, <2>1, <2>2, <2>3, <2>4, WsTakes
<1> QED
  BY <1>3, <1>4 DEF WsReads

\* A whole text, the next one, is returned.
LEMMA WsReturns ==
    ASSUME WsShapes, WsTextsRight, NEW x \in Seq(WsFrames), x # <<>>, x[Len(x)].last,
           \A j \in DOMAIN x : x[j].part = j /\ x[j].text = x[1].text,
           NEW n \in Nat, n = x[1].text,
           \A m \in 1..(n - 1) : WsReturned(m) \/ m \in wsMissed,
           \A i \in DOMAIN wsTexts : wsTexts[i][1].text < n,
           wsTexts' = Append(wsTexts, x), UNCHANGED wsMissed
    PROVE  WsTextsRight' /\ WsSettled(FALSE, <<>>, n, 0)' /\ wsTexts' \in Seq(Seq(WsFrames))
<1>1. PICK q \in Seq(Seq(WsFrames)) : q = wsTexts
  BY DEF WsShapes
<1>2. PICK v \in Seq(Seq(WsFrames)) : v = Append(q, x)
  <2>1. Append(q, x) \in Seq(Seq(WsFrames))
    BY AppendProperties
  <2> QED
    BY <2>1
<1>3. PICK l \in Nat : l = Len(q)
  OBVIOUS
<1>4. /\ DOMAIN q = 1..l /\ DOMAIN v = 1..(l + 1) /\ v[l + 1] = x
      /\ \A i \in 1..l : v[i] = q[i]
  <2>1. /\ Len(v) = Len(q) + 1 /\ v[Len(q) + 1] = x
        /\ \A i \in 1..Len(q) : v[i] = q[i]
    BY <1>2
  <2>2. DOMAIN v = 1..Len(v) /\ DOMAIN q = 1..Len(q)
    OBVIOUS
  <2> QED
    BY <1>3, <2>1, <2>2
<1>5. wsTexts' = v /\ wsTexts = q
  BY <1>1, <1>2
<1>6. \A i \in 1..(l + 1) : i \in 1..l \/ i = l + 1
  OBVIOUS
<1>7. \A i \in 1..l : q[i][1].text < n
  BY <1>4, <1>5
<1>8. \A i \in DOMAIN v :
        /\ v[i] # <<>> /\ v[i][Len(v[i])].last
        /\ \A j \in DOMAIN v[i] : v[i][j].part = j /\ v[i][j].text = v[i][1].text
  <2>1. \A i \in 1..l :
          /\ q[i] # <<>> /\ q[i][Len(q[i])].last
          /\ \A j \in DOMAIN q[i] : q[i][j].part = j /\ q[i][j].text = q[i][1].text
    <3>1. \A i \in DOMAIN wsTexts :
            /\ wsTexts[i] # <<>> /\ wsTexts[i][Len(wsTexts[i])].last
            /\ \A j \in DOMAIN wsTexts[i] :
                  wsTexts[i][j].part = j /\ wsTexts[i][j].text = wsTexts[i][1].text
      BY DEF WsTextsRight
    <3>2. wsTexts = q /\ DOMAIN wsTexts = 1..l
      BY <1>4, <1>5
    <3> TAKE i \in 1..l
    <3>3. /\ wsTexts[i] # <<>> /\ wsTexts[i][Len(wsTexts[i])].last
          /\ \A j \in DOMAIN wsTexts[i] :
                wsTexts[i][j].part = j /\ wsTexts[i][j].text = wsTexts[i][1].text
      BY <3>1, <3>2
    <3>4. wsTexts[i] = q[i]
      BY <3>2
    <3> QED
      BY <3>3, <3>4
  <2> TAKE i \in DOMAIN v
  <2>2. CASE i \in 1..l
    BY <1>4, <2>1, <2>2
  <2>3. CASE i = l + 1
    BY <1>4, <2>3
  <2> QED
    BY <1>4, <1>6, <2>2, <2>3
<1>9. ASSUME NEW i \in DOMAIN v, NEW m \in 1..WsMessages, m < v[i][1].text,
             \A k \in 1..(i - 1) : v[k][1].text # m
      PROVE  m \in wsMissed
  <2>1. CASE i \in 1..l
    <3>1. \A k \in 1..(i - 1) : k \in 1..l
      BY <2>1
    <3>2. \A k \in 1..(i - 1) : q[k][1].text # m
      BY <1>4, <1>9, <3>1
    <3> QED
      BY <1>4, <1>5, <1>9, <2>1, <3>2 DEF WsTextsRight
  <2>2. CASE i = l + 1
    <3>1. m \in 1..(n - 1)
      BY <1>4, <1>9, <2>2, WebSocketsAssumption
    <3>2. \A k \in 1..l : k \in 1..(i - 1)
      BY <2>2
    <3>3. ~WsReturned(m)
      BY <1>4, <1>5, <1>9, <3>2 DEF WsReturned
    <3> QED
      BY <3>1, <3>3
  <2> QED
    BY <1>4, <1>6, <2>1, <2>2
<1>10. ASSUME NEW i \in DOMAIN v, NEW k \in DOMAIN v, i < k
       PROVE  v[i][1].text < v[k][1].text
  <2>1. i \in 1..l
    BY <1>4, <1>10
  <2>2. CASE k \in 1..l
    BY <1>4, <1>5, <1>10, <2>1, <2>2 DEF WsTextsRight
  <2>3. CASE k = l + 1
    BY <1>4, <1>7, <2>1, <2>3
  <2> QED
    BY <1>4, <1>6, <2>2, <2>3
<1>11. WsTextsRight'
  BY <1>5, <1>8, <1>9, <1>10 DEF WsTextsRight
<1>12. \A m \in 1..n : WsReturned(m)' \/ m \in wsMissed'
  <2> TAKE m \in 1..n
  <2>1. CASE m = n
    <3>1. l + 1 \in DOMAIN v /\ v[l + 1][1].text = m
      BY <1>4, <2>1
    <3> QED
      BY <1>5, <3>1 DEF WsReturned
  <2>2. CASE m \in 1..(n - 1) /\ WsReturned(m)
    <3>1. PICK i \in 1..l : q[i][1].text = m
      BY <1>4, <1>5, <2>2 DEF WsReturned
    <3>2. i \in 1..(l + 1) /\ v[i] = q[i]
      BY <1>4, <3>1
    <3>3. i \in DOMAIN v /\ v[i][1].text = m
      BY <1>4, <3>1, <3>2
    <3> QED
      BY <1>5, <3>3 DEF WsReturned
  <2>3. CASE m \in 1..(n - 1) /\ m \in wsMissed
    BY <2>3
  <2>4. m = n \/ m \in 1..(n - 1)
    OBVIOUS
  <2> QED
    BY <2>1, <2>2, <2>3, <2>4
<1>13. \A i \in DOMAIN v : v[i][1].text <= n
  <2> TAKE i \in DOMAIN v
  <2>1. CASE i \in 1..l
    <3>1. q[i][1].text \in Nat
      <4>1. q[i] \in Seq(WsFrames) /\ q[i] # <<>>
        BY <1>4, <1>5, <2>1 DEF WsTextsRight
      <4>2. q[i][1] \in WsFrames
        BY <4>1
      <4>3. q[i][1].text \in 0..WsMessages
        BY <4>2 DEF WsFrames
      <4>4. \A y \in 0..WsMessages : y \in Nat
        BY WebSocketsAssumption
      <4> QED
        BY <4>3, <4>4
    <3>2. q[i][1].text < n
      BY <1>7, <2>1
    <3>3. PICK m \in Nat : m = q[i][1].text
      BY <3>1
    <3>4. m <= n
      <4>1. \A a, b \in Nat : a < b => a <= b
        OBVIOUS
      <4>2. m < n
        BY <3>2, <3>3
      <4> QED
        BY <4>1, <4>2, Zenon
    <3> QED
      BY <1>4, <2>1, <3>3, <3>4
  <2>2. CASE i = l + 1
    BY <1>4, <2>2
  <2> QED
    BY <1>4, <1>6, <2>1, <2>2
<1>14. WsSettled(FALSE, <<>>, n, 0)'
  BY <1>5, <1>12, <1>13 DEF WsSettled
<1> QED
  BY <1>2, <1>5, <1>11, <1>14

LEMMA WsGivesUp ==
    ASSUME WsInv, NEW t \in Threads, WsTimesOut(t) PROVE WsInv'
<1>1. PICK s \in WsThreads : s = wsThread[t]
  BY DEF WsInv, WsShapes
<1>2. s.at = "wait" /\ s.header = None /\ WsAlive(s) /\ ~WsInHand(s) /\ ~WsHalfRead(s)
  BY <1>1 DEF WsTimesOut, WsAt, WsInv, WsPlaced, WsAlive, WsInHand, WsHalfRead
<1>3. PICK n \in Nat, o \in 0..1 :
          WsChained(WsBytes, n, o, wsPeer.texts, wsPeer.parts) /\ WsAtText(s, n, o)
  BY <1>1, <1>2, WsReader
<1>4. /\ \A u \in Threads \ {t} : ~Reading(u)
      /\ WsAlternates(WsBytes, WsHalfRead(s), wsPeer.half # None)
  BY <1>1, <1>2, WsReader
<1>5. WsSettled(s.collects, s.parts, n, o)
  BY <1>2, <1>3 DEF WsAtText
<1>6. /\ wsMissed' = wsMissed \cup {p.text : p \in {s.parts[i] : i \in DOMAIN s.parts}}
      /\ WsGoes(t, WsIdle) /\ UNCHANGED <<wsWire, wsTexts>>
  BY <1>1 DEF WsTimesOut
<1>7. o = 1 => n \in wsMissed'
  <2>1. CASE s.collects
    <3>1. o = 1 /\ Len(s.parts) = 1 /\ s.parts[1].text = n
      BY <1>5, <2>1 DEF WsSettled
    <3>2. s.parts \in Seq(WsFrames)
      BY DEF WsThreads
    <3>3. 1 \in DOMAIN s.parts
      BY <3>1, <3>2
    <3> QED
      BY <1>6, <3>1, <3>3
  <2>2. CASE ~s.collects
    BY <1>5, <1>6, <2>2 DEF WsSettled
  <2> QED
    BY <2>1, <2>2
<1>8. WsSettled(FALSE, <<>>, n, o)'
  BY <1>5, <1>6, <1>7 DEF WsSettled, WsReturned
<1>9. WsTextsRight'
  BY <1>6 DEF WsInv, WsTextsRight
<1>10. WsBytes' = WsBytes /\ UNCHANGED wsPeer
  BY <1>6 DEF WsBytes, wsWire
<1>11. wsAhead' \in Seq(WsHalves) /\ wsPipe' \in Seq(WsHalves) /\ wsTexts' \in Seq(Seq(WsFrames))
  BY <1>6 DEF wsWire, WsInv, WsShapes
<1>12. WsAlternates(WsBytes, WsHalfRead(WsIdle), wsPeer.half # None)
  BY <1>2, <1>4, IdleIs DEF WsAlternates
<1> QED
  BY <1>3, <1>4, <1>6, <1>8, <1>9, <1>10, <1>11, <1>12, IdleIs, WsMoves DEF WsInv

LEMMA WsFails ==
    ASSUME WsInv, NEW t \in Threads, WsReadFails(t) PROVE WsInv'
<1>1. PICK s \in WsThreads : s = wsThread[t]
  BY DEF WsInv, WsShapes
<1>2. WsPlaced(s) /\ s.at \in {"wait", "frame"}
  BY <1>1 DEF WsInv, WsReadFails
<1> DEFINE r == [s EXCEPT !.at = "cut", !.writes = "close reply"]
<1>3. r \in WsThreads /\ r.at = "cut" /\ r.writes = "close reply" /\ r.header = s.header
  BY DEF WsThreads
<1>4. WsGoes(t, r) /\ UNCHANGED <<wsWire, wsSeen>>
  BY <1>1 DEF WsReadFails
<1> HIDE DEF r
<1>5. WsPlaced(r) /\ WsDoomed(r) /\ ~WsAlive(r)
  BY <1>2, <1>3 DEF WsPlaced, WsDoomed, WsAlive
<1>6. Reading(t)
  BY <1>1, <1>2 DEF Reading
<1>7. UNCHANGED wsPeer /\ UNCHANGED <<wsAhead, wsPipe>> /\ UNCHANGED wsSeen
  BY <1>4 DEF wsWire
<1> QED
  BY <1>3, <1>4, <1>5, <1>6, <1>7, WsEnds

\* A frame of a text in hand is the next one: what it does with it is the step.
LEMMA WsHasText ==
    ASSUME WsInv, NEW t \in Threads, NEW s \in WsThreads, s = wsThread[t],
           WsAt(t, "handle"), s.header.f.kind \in {"text", "continuation"}
    PROVE  /\ \A u \in Threads \ {t} : ~Reading(u)
           /\ s.header \in WsHalves /\ s.header.f \in WsFrames /\ s.header.f.text \in Nat
           /\ WsChained(WsBytes, s.header.f.text, WsOpens(s.header.f), wsPeer.texts, wsPeer.parts)
           /\ WsAlternates(WsBytes, FALSE, wsPeer.half # None)
           /\ IF s.header.f.kind = "text"
              THEN /\ s.header.f.part = 1 /\ s.header.f.text > 0
                   /\ WsSettled(s.collects, s.parts, s.header.f.text - 1, 0)
              ELSE /\ s.header.f.part = 2 /\ s.header.f.last
                   /\ WsSettled(s.collects, s.parts, s.header.f.text, 1)
<1>1. s.at = "handle" /\ WsPlaced(s)
  BY DEF WsAt, WsInv
<1>2. s.header # None /\ s.header.half = "header" /\ s.header \in WsHalves
  BY <1>1 DEF WsPlaced, WsThreads
<1>3. s.header.f \in WsFrames /\ s.header.f.text \in Nat
  <2>1. s.header.f \in WsFrames
    BY <1>2 DEF WsHalves
  <2> QED
    BY <2>1, WebSocketsAssumption DEF WsFrames
<1>4. WsAlive(s) /\ WsInHand(s) /\ ~WsHalfRead(s)
  BY <1>1, <1>2 DEF WsAlive, WsInHand, WsHalfRead, IsData
<1>5. PICK n \in Nat, o \in 0..1 :
          WsChained(WsBytes, n, o, wsPeer.texts, wsPeer.parts) /\ WsAtText(s, n, o)
  BY <1>4, WsReader
<1>6. /\ \A u \in Threads \ {t} : ~Reading(u)
      /\ WsAlternates(WsBytes, WsHalfRead(s), wsPeer.half # None)
  BY <1>4, WsReader
<1>7. WsAlternates(WsBytes, FALSE, wsPeer.half # None)
  BY <1>4, <1>6 DEF WsAlternates
<1>8. n = s.header.f.text /\ o = WsOpens(s.header.f)
  BY <1>4, <1>5 DEF WsAtText
<1> QED
  BY <1>2, <1>3, <1>4, <1>5, <1>6, <1>7, <1>8 DEF WsAtText

LEMMA WsTakesText ==
    ASSUME WsInv, NEW t \in Threads, WsAt(t, "handle"),
           wsThread[t].header.f.kind = "text", WsText(t, wsThread[t].header.f),
           UNCHANGED <<wsTls, wsFlags, wsLocks, wsWire, wsMissed>>
    PROVE  WsInv'
<1>1. PICK s \in WsThreads : s = wsThread[t]
  BY DEF WsInv, WsShapes
<1>2. PICK f \in WsFrames, n \in Nat : f = s.header.f /\ n = f.text
  BY <1>1, WsHasText
<1>3. /\ \A u \in Threads \ {t} : ~Reading(u)
      /\ WsChained(WsBytes, n, WsOpens(f), wsPeer.texts, wsPeer.parts)
      /\ WsAlternates(WsBytes, FALSE, wsPeer.half # None)
      /\ f.part = 1 /\ n > 0 /\ WsSettled(s.collects, s.parts, n - 1, 0)
  BY <1>1, <1>2, WsHasText
<1>4. WsBytes' = WsBytes /\ UNCHANGED wsPeer
  BY DEF WsBytes, wsWire
<1>5. wsAhead' \in Seq(WsHalves) /\ wsPipe' \in Seq(WsHalves)
  BY DEF wsWire, WsInv, WsShapes
<1>6. n - 1 \in Nat /\ \A m \in 1..(n - 1) : WsReturned(m) \/ m \in wsMissed
  <2>1. n - 1 \in Nat
    BY <1>3
  <2> QED
    BY <1>3, <2>1 DEF WsSettled
<1>7. \A i \in DOMAIN wsTexts : wsTexts[i][1].text < n
  <2> TAKE i \in DOMAIN wsTexts
  <2>1. wsTexts[i][1].text <= n - 1
    BY <1>3 DEF WsSettled
  <2>2. wsTexts[i][1].text \in Nat
    <3>1. wsTexts[i] \in Seq(WsFrames) /\ wsTexts[i] # <<>>
      BY DEF WsInv, WsShapes, WsTextsRight
    <3>2. wsTexts[i][1] \in WsFrames
      BY <3>1
    <3> QED
      BY <3>2, WebSocketsAssumption DEF WsFrames
  <2>3. PICK m \in Nat : m = wsTexts[i][1].text
    BY <2>2
  <2> QED
    BY <2>1, <2>3
<1>8. CASE f.last /\ Returns(t, <<f>>)
  <2> DEFINE x == <<f>>
  <2>1. x \in Seq(WsFrames) /\ Len(x) = 1 /\ x[1] = f /\ DOMAIN x = 1..1 /\ x # <<>>
    OBVIOUS
  <2>2. wsTexts' = Append(wsTexts, x) /\ WsGoes(t, WsIdle)
    BY <1>8 DEF Returns
  <2> HIDE DEF x
  <2>3. x[Len(x)].last
    BY <1>8, <2>1
  <2>4. \A j \in DOMAIN x : x[j].part = j /\ x[j].text = x[1].text
    <3>1. \A j \in 1..1 : j = 1
      OBVIOUS
    <3> QED
      BY <1>3, <2>1, <3>1
  <2>5. n = x[1].text
    BY <1>2, <2>1
  <2>6. WsTextsRight' /\ WsSettled(FALSE, <<>>, n, 0)' /\ wsTexts' \in Seq(Seq(WsFrames))
    BY <1>6, <1>7, <2>1, <2>2, <2>3, <2>4, <2>5, WsReturns DEF WsInv
  <2>7. WsOpens(f) = 0
    BY <1>8 DEF WsOpens
  <2>8. WsAlternates(WsBytes, WsHalfRead(WsIdle), wsPeer.half # None)
    BY <1>3, IdleIs DEF WsAlternates
  <2>9. WsChained(WsBytes', n, 0, wsPeer.texts, wsPeer.parts)
    BY <1>3, <1>4, <2>7
  <2>10. 0 \in 0..1
    OBVIOUS
  <2> QED
    BY <1>3, <1>4, <1>5, <2>2, <2>6, <2>8, <2>9, <2>10, IdleIs, WsMoves DEF WsInv
<1>9. ASSUME ~f.last, UNCHANGED wsTexts,
             WsGoes(t, Again([wsThread[t] EXCEPT !.parts = <<f>>, !.collects = TRUE]))
      PROVE  WsInv'
  <2> DEFINE x == <<f>>
  <2>1. x \in Seq(WsFrames) /\ Len(x) = 1 /\ x[1] = f
    OBVIOUS
  <2> HIDE DEF x
  <2> DEFINE y == [s EXCEPT !.parts = x, !.collects = TRUE]
  <2>2. y \in WsThreads /\ y.parts = x /\ y.collects = TRUE
    BY <2>1 DEF WsThreads
  <2>3. WsGoes(t, Again(y))
    BY <1>1, <1>9 DEF x
  <2> HIDE DEF y
  <2>4. PICK r \in WsThreads :
            /\ r = Again(y) /\ WsPlaced(r) /\ WsAlive(r) /\ ~WsDoomed(r) /\ ~WsHalfRead(r)
            /\ ~WsInHand(r) /\ r.collects = TRUE /\ r.parts = x
    BY <2>2, AgainIs
  <2>5. WsOpens(f) = 1
    BY <1>9 DEF WsOpens
  <2>6. WsSettled(TRUE, x, n, 1)
    <3>1. \A m \in 1..n : m < n => m \in 1..(n - 1)
      OBVIOUS
    <3>2. \A m \in 1..n : m < n => WsReturned(m) \/ m \in wsMissed
      BY <1>6, <3>1
    <3>3. \A i \in DOMAIN wsTexts : wsTexts[i][1].text <= n
      <4>1. \A i \in DOMAIN wsTexts : wsTexts[i][1].text <= n - 1
        BY <1>3 DEF WsSettled
      <4> TAKE i \in DOMAIN wsTexts
      <4>2. wsTexts[i] \in Seq(WsFrames) /\ wsTexts[i] # <<>>
        BY DEF WsInv, WsShapes, WsTextsRight
      <4>3. wsTexts[i][1] \in WsFrames
        BY <4>2
      <4>4. PICK m \in Nat : m = wsTexts[i][1].text
        BY <4>3, WebSocketsAssumption DEF WsFrames
      <4> QED
        BY <4>1, <4>4
    <3>4. Len(x) = 1 /\ x[1].text = n /\ x[1].part = 1
      BY <1>2, <1>3, <2>1
    <3> QED
      BY <1>7, <3>2, <3>3, <3>4 DEF WsSettled
  <2>7. UNCHANGED wsSeen
    BY <1>9 DEF wsSeen
  <2>8. WsAtText(r, n, 1)'
    <3>1. WsSettled(TRUE, x, n, 1)'
      BY <2>6, <2>7, SettledStays
    <3> QED
      BY <2>4, <3>1 DEF WsAtText
  <2>9. WsTextsRight' /\ wsTexts' \in Seq(Seq(WsFrames))
    BY <1>9, <2>7, TextsStay DEF WsInv, WsShapes
  <2>10. WsAlternates(WsBytes, WsHalfRead(r), wsPeer.half # None)
    BY <1>3, <2>4 DEF WsAlternates
  <2>11. WsChained(WsBytes', n, 1, wsPeer.texts, wsPeer.parts)
    BY <1>3, <1>4, <2>5
  <2>12. 1 \in 0..1 /\ WsGoes(t, r)
    BY <2>3, <2>4
  <2> QED
    BY <1>3, <1>4, <1>5, <2>4, <2>8, <2>9, <2>10, <2>11, <2>12, WsMoves DEF WsInv
<1> QED
  BY <1>1, <1>2, <1>8, <1>9 DEF WsText

LEMMA WsTakesPart ==
    ASSUME WsInv, NEW t \in Threads, WsAt(t, "handle"),
           wsThread[t].header.f.kind = "continuation", WsContinuation(t, wsThread[t].header.f),
           UNCHANGED <<wsTls, wsFlags, wsLocks, wsWire, wsMissed>>
    PROVE  WsInv'
<1>1. PICK s \in WsThreads : s = wsThread[t]
  BY DEF WsInv, WsShapes
<1>2. PICK f \in WsFrames, n \in Nat : f = s.header.f /\ n = f.text
  BY <1>1, WsHasText
<1>3. /\ \A u \in Threads \ {t} : ~Reading(u)
      /\ WsChained(WsBytes, n, WsOpens(f), wsPeer.texts, wsPeer.parts)
      /\ WsAlternates(WsBytes, FALSE, wsPeer.half # None)
      /\ f.part = 2 /\ f.last /\ WsSettled(s.collects, s.parts, n, 1)
  BY <1>1, <1>2, WsHasText
<1>4. WsBytes' = WsBytes /\ UNCHANGED wsPeer
  BY DEF WsBytes, wsWire
<1>5. wsAhead' \in Seq(WsHalves) /\ wsPipe' \in Seq(WsHalves)
  BY DEF wsWire, WsInv, WsShapes
<1>6. WsOpens(f) = 0 /\ WsChained(WsBytes', n, 0, wsPeer.texts, wsPeer.parts) /\ 0 \in 0..1
  BY <1>3, <1>4 DEF WsOpens
<1>7. CASE ~s.collects
  <2>1. WsGoes(t, Again(s)) /\ UNCHANGED wsTexts
    BY <1>1, <1>7 DEF WsContinuation
  <2>2. PICK r \in WsThreads :
            /\ r = Again(s) /\ WsPlaced(r) /\ WsAlive(r) /\ ~WsDoomed(r) /\ ~WsHalfRead(r)
            /\ ~WsInHand(r) /\ r.collects = s.collects /\ r.parts = s.parts
    BY AgainIs
  <2>3. WsSettled(s.collects, s.parts, n, 0)
    <3>1. \A m \in 1..n : m < n \/ m = n
      OBVIOUS
    <3> QED
      BY <1>3, <1>7, <3>1 DEF WsSettled
  <2>4. UNCHANGED wsSeen
    BY <2>1 DEF wsSeen
  <2>5. WsAtText(r, n, 0)'
    <3>1. WsSettled(s.collects, s.parts, n, 0)'
      BY <2>3, <2>4, SettledStays
    <3> QED
      BY <2>2, <3>1 DEF WsAtText
  <2>6. WsTextsRight' /\ wsTexts' \in Seq(Seq(WsFrames))
    BY <2>1, <2>4, TextsStay DEF WsInv, WsShapes
  <2>7. WsAlternates(WsBytes, WsHalfRead(r), wsPeer.half # None)
    BY <1>3, <2>2 DEF WsAlternates
  <2> QED
    BY <1>3, <1>4, <1>5, <1>6, <2>1, <2>2, <2>5, <2>6, <2>7, WsMoves DEF WsInv
<1>8. CASE s.collects
  <2>1. Len(s.parts) = 1 /\ s.parts[1].text = n /\ s.parts[1].part = 1 /\ s.parts \in Seq(WsFrames)
    BY <1>3, <1>8 DEF WsSettled, WsThreads
  <2> DEFINE x == Append(s.parts, f)
  <2>2. /\ x \in Seq(WsFrames) /\ Len(x) = 2 /\ x[1] = s.parts[1] /\ x[2] = f /\ x # <<>>
        /\ DOMAIN x = 1..2
    <3>1. /\ x \in Seq(WsFrames) /\ Len(x) = Len(s.parts) + 1 /\ x[Len(s.parts) + 1] = f
          /\ x # <<>> /\ \A i \in 1..Len(s.parts) : x[i] = s.parts[i]
      <4>1. PICK q \in Seq(WsFrames) : q = s.parts
        BY <2>1
      <4>2. /\ Append(q, f) \in Seq(WsFrames) /\ Len(Append(q, f)) = Len(q) + 1
            /\ Append(q, f)[Len(q) + 1] = f /\ Append(q, f) # <<>>
            /\ \A i \in 1..Len(q) : Append(q, f)[i] = q[i]
        BY AppendProperties
      <4> QED
        BY <4>1, <4>2
    <3>2. Len(s.parts) + 1 = 2 /\ 1 \in 1..Len(s.parts)
      BY <2>1
    <3>3. DOMAIN x = 1..Len(x)
      BY <3>1
    <3> QED
      BY <3>1, <3>2, <3>3
  <2>3. wsTexts' = Append(wsTexts, x) /\ WsGoes(t, WsIdle)
    BY <1>1, <1>2, <1>3, <1>8 DEF WsContinuation, Returns
  <2> HIDE DEF x
  <2>4. x[Len(x)].last /\ n = x[1].text
    BY <1>3, <2>1, <2>2
  <2>5. \A j \in DOMAIN x : x[j].part = j /\ x[j].text = x[1].text
    <3>1. \A j \in 1..2 : j = 1 \/ j = 2
      OBVIOUS
    <3> QED
      BY <1>2, <1>3, <2>1, <2>2, <3>1
  <2>6. \A m \in 1..(n - 1) : WsReturned(m) \/ m \in wsMissed
    <3>1. \A m \in 1..(n - 1) : m \in 1..n /\ m < n
      OBVIOUS
    <3> QED
      BY <1>3, <3>1 DEF WsSettled
  <2>7. \A i \in DOMAIN wsTexts : wsTexts[i][1].text < n
    BY <1>3 DEF WsSettled
  <2>8. WsTextsRight' /\ WsSettled(FALSE, <<>>, n, 0)' /\ wsTexts' \in Seq(Seq(WsFrames))
    BY <2>2, <2>3, <2>4, <2>5, <2>6, <2>7, WsReturns DEF WsInv
  <2>9. WsAlternates(WsBytes, WsHalfRead(WsIdle), wsPeer.half # None)
    BY <1>3, IdleIs DEF WsAlternates
  <2> QED
    BY <1>3, <1>4, <1>5, <1>6, <2>3, <2>8, <2>9, IdleIs, WsMoves DEF WsInv
<1> QED
  BY <1>7, <1>8

LEMMA WsAnswers ==
    ASSUME WsInv, NEW t \in Threads, WsHandles(t) PROVE WsInv'
<1>1. PICK s \in WsThreads : s = wsThread[t]
  BY DEF WsInv, WsShapes
<1>2. s.at = "handle" /\ WsPlaced(s) /\ s.header # None /\ s.header.half = "header"
  BY <1>1 DEF WsHandles, WsAt, WsInv, WsPlaced
<1>3. /\ wsAhead' \in Seq(WsHalves) /\ wsPipe' \in Seq(WsHalves)
      /\ WsBytes' = WsBytes /\ UNCHANGED wsPeer /\ UNCHANGED <<wsAhead, wsPipe>>
      /\ (wsPool' => wsPool)
  BY DEF WsHandles, WsBytes, wsWire, wsFlags, WsInv, WsShapes
<1>4. ASSUME s.header.f.kind = "ping", UNCHANGED wsTexts,
             WsGoes(t, [s EXCEPT !.at = "lock", !.writes = "pong"])
      PROVE  WsInv'
  <2> DEFINE r == [s EXCEPT !.at = "lock", !.writes = "pong"]
  <2>1. /\ r \in WsThreads /\ r.at = "lock" /\ r.writes = "pong" /\ r.header = s.header
        /\ r.collects = s.collects /\ r.parts = s.parts
    BY DEF WsThreads
  <2>2. WsGoes(t, r)
    BY <1>4
  <2> HIDE DEF r
  <2>3. WsPlaced(r) /\ WsAlive(r) /\ ~WsDoomed(r) /\ ~WsInHand(r) /\ ~WsHalfRead(r)
    BY <1>2, <2>1 DEF WsPlaced, WsAlive, WsDoomed, WsInHand, WsHalfRead
  <2>4. WsAlive(s) /\ ~WsDoomed(s) /\ ~WsInHand(s) /\ ~WsHalfRead(s)
    BY <1>2, <1>4 DEF WsPlaced, WsAlive, WsDoomed, WsInHand, WsHalfRead, IsData
  <2>5. UNCHANGED wsSeen
    BY <1>4 DEF WsHandles, wsSeen
  <2> QED
    BY <1>1, <1>3, <2>1, <2>2, <2>3, <2>4, <2>5, WsSame
<1>5. ASSUME UNCHANGED wsTexts, WsGoes(t, [s EXCEPT !.at = "lock", !.writes = "close reply"])
      PROVE  WsInv'
  <2> DEFINE r == [s EXCEPT !.at = "lock", !.writes = "close reply"]
  <2>1. r \in WsThreads /\ r.at = "lock" /\ r.writes = "close reply" /\ r.header = s.header
    BY DEF WsThreads
  <2>2. WsGoes(t, r)
    BY <1>5
  <2> HIDE DEF r
  <2>3. WsPlaced(r) /\ ~WsAlive(r) /\ WsDoomed(r)
    BY <1>2, <2>1 DEF WsPlaced, WsAlive, WsDoomed
  <2>4. Reading(t)
    BY <1>1, <1>2 DEF Reading
  <2>5. UNCHANGED wsSeen
    BY <1>5 DEF WsHandles, wsSeen
  <2> QED
    BY <1>3, <2>1, <2>2, <2>3, <2>4, <2>5, WsEnds
<1>6. WsAt(t, "handle") /\ UNCHANGED <<wsTls, wsFlags, wsLocks, wsWire, wsMissed>>
  BY DEF WsHandles
<1>7. CASE wsThread[t].header.f.kind = "text" /\ WsText(t, wsThread[t].header.f)
  BY <1>6, <1>7, WsTakesText
<1>8. CASE wsThread[t].header.f.kind = "continuation" /\ WsContinuation(t, wsThread[t].header.f)
  BY <1>6, <1>8, WsTakesPart
<1> QED
  BY <1>1, <1>4, <1>5, <1>7, <1>8 DEF WsHandles

\* A thread that does not read, before and after.
LEMMA WsElse ==
    ASSUME WsInv, NEW t \in Threads, NEW r \in WsThreads, WsGoes(t, r), WsPlaced(r),
           ~WsAlive(wsThread[t]), ~WsAlive(r), WsDoomed(r) <=> WsDoomed(wsThread[t]),
           wsPool' => wsPool, UNCHANGED <<wsWire, wsSeen>>
    PROVE  WsInv'
<1>1. ~WsInHand(wsThread[t]) /\ ~WsInHand(r) /\ ~WsHalfRead(wsThread[t]) /\ ~WsHalfRead(r)
  BY DEF WsAlive, WsInHand, WsHalfRead
<1>2. wsAhead' \in Seq(WsHalves) /\ wsPipe' \in Seq(WsHalves) /\ WsBytes' = WsBytes
      /\ UNCHANGED wsPeer /\ UNCHANGED wsSeen
  BY DEF WsBytes, wsWire, WsInv, WsShapes
<1> QED
  BY <1>1, <1>2, WsSame

LEMMA WsStartsToWrite ==
    ASSUME WsInv, NEW t \in Threads, WsSend(t) \/ WsClose(t) PROVE WsInv'
<1>1. wsThread[t].at = "idle" /\ WsPlaced(wsThread[t])
  BY DEF WsSend, WsClose, WsAt, WsInv
<1>2. ~WsAlive(wsThread[t]) /\ ~WsDoomed(wsThread[t])
  BY <1>1 DEF WsPlaced, WsAlive, WsDoomed
<1>3. PICK what \in {"text", "close"} : WsGoes(t, [WsIdle EXCEPT !.at = "lock", !.writes = what])
  BY DEF WsSend, WsClose
<1> DEFINE r == [WsIdle EXCEPT !.at = "lock", !.writes = what]
<1>4. r \in WsThreads /\ r.at = "lock" /\ r.writes = what /\ r.header = None
  BY IdleIs DEF WsThreads, WsIdle
<1>5. WsGoes(t, r)
  BY <1>3
<1> HIDE DEF r
<1>6. WsPlaced(r) /\ ~WsAlive(r) /\ ~WsDoomed(r)
  BY <1>4 DEF WsPlaced, WsAlive, WsDoomed
<1>7. (wsPool' => wsPool) /\ UNCHANGED <<wsWire, wsSeen>>
  BY DEF WsSend, WsClose, wsFlags
<1> QED
  BY <1>2, <1>4, <1>5, <1>6, <1>7, WsElse

LEMMA WsTakenOut ==
    ASSUME WsInv, NEW t \in Threads, WsUnregister(t) PROVE WsInv'
<1>1. PICK r \in WsThreads : r = wsThread[t]
  BY DEF WsInv, WsShapes
<1>2. r.at = "idle" /\ WsPlaced(r)
  BY <1>1 DEF WsUnregister, WsAt, WsInv
<1>3. ~WsAlive(r)
  BY <1>2 DEF WsPlaced, WsAlive
<1>4. WsGoes(t, r)
  <2>1. wsThread' = wsThread /\ wsThread \in [Threads -> WsThreads]
    BY DEF WsUnregister, WsInv, WsShapes
  <2> QED
    BY <1>1, <2>1 DEF WsGoes
<1>5. (wsPool' => wsPool) /\ UNCHANGED <<wsWire, wsSeen>>
  BY DEF WsUnregister
<1> QED
  BY <1>1, <1>2, <1>3, <1>4, <1>5, WsElse

\* A pong, a reply, a text or a close on its way to the socket.
LEMMA WsGetsLock ==
    ASSUME WsInv, NEW t \in Threads, WsLocks(t) \/ WsSeals(t) PROVE WsInv'
<1>1. PICK s \in WsThreads : s = wsThread[t]
  BY DEF WsInv, WsShapes
<1>2. s.at \in {"lock", "seal"} /\ WsPlaced(s)
  BY <1>1 DEF WsLocks, WsSeals, WsAt, WsInv
<1>3. PICK at \in {"seal", "write"} : WsGoes(t, [s EXCEPT !.at = at])
  BY <1>1 DEF WsLocks, WsSeals
<1> DEFINE r == [s EXCEPT !.at = at]
<1>4. /\ r \in WsThreads /\ r.at = at /\ r.writes = s.writes /\ r.header = s.header
      /\ r.collects = s.collects /\ r.parts = s.parts
  BY DEF WsThreads
<1>5. WsGoes(t, r)
  BY <1>3
<1> HIDE DEF r
<1>6. /\ WsPlaced(r) /\ (WsAlive(r) <=> WsAlive(s)) /\ (WsDoomed(r) <=> WsDoomed(s))
      /\ ~WsInHand(r) /\ ~WsInHand(s) /\ ~WsHalfRead(r) /\ ~WsHalfRead(s)
  BY <1>2, <1>4 DEF WsPlaced, WsAlive, WsDoomed, WsInHand, WsHalfRead
<1>7. (wsPool' => wsPool) /\ UNCHANGED <<wsWire, wsSeen>>
  BY DEF WsLocks, WsSeals, wsFlags
<1>8. wsAhead' \in Seq(WsHalves) /\ wsPipe' \in Seq(WsHalves) /\ WsBytes' = WsBytes
      /\ UNCHANGED wsPeer /\ UNCHANGED wsSeen
  BY <1>7 DEF WsBytes, wsWire, WsInv, WsShapes
<1> QED
  BY <1>1, <1>4, <1>5, <1>6, <1>7, <1>8, WsSame

LEMMA WsHasWritten ==
    ASSUME WsInv, NEW t \in Threads, WsWrites(t) PROVE WsInv'
<1>1. PICK s \in WsThreads : s = wsThread[t]
  BY DEF WsInv, WsShapes
<1>2. s.at = "write" /\ WsPlaced(s)
  BY <1>1 DEF WsWrites, WsAt, WsInv
<1>3. (wsPool' => wsPool) /\ UNCHANGED <<wsWire, wsSeen>>
  BY DEF WsWrites, wsWire
<1>4. ~WsInHand(s) /\ ~WsHalfRead(s)
  BY <1>2 DEF WsInHand, WsHalfRead
<1>5. wsAhead' \in Seq(WsHalves) /\ wsPipe' \in Seq(WsHalves) /\ WsBytes' = WsBytes
      /\ UNCHANGED wsPeer /\ UNCHANGED wsSeen
  BY <1>3 DEF WsBytes, wsWire, WsInv, WsShapes
<1>6. CASE s.writes = "pong"
  <2>1. WsGoes(t, Again(s))
    BY <1>1, <1>6 DEF WsWrites
  <2>2. PICK r \in WsThreads :
            /\ r = Again(s) /\ WsPlaced(r) /\ WsAlive(r) /\ ~WsDoomed(r) /\ ~WsHalfRead(r)
            /\ ~WsInHand(r) /\ r.collects = s.collects /\ r.parts = s.parts
    BY AgainIs
  <2>3. WsAlive(s) /\ ~WsDoomed(s)
    BY <1>6 DEF WsAlive, WsDoomed
  <2> QED
    BY <1>1, <1>3, <1>4, <1>5, <2>1, <2>2, <2>3, WsSame
<1>7. CASE s.writes = "text"
  <2>1. WsGoes(t, WsIdle)
    BY <1>1, <1>7 DEF WsWrites
  <2>2. ~WsAlive(s) /\ ~WsDoomed(s)
    BY <1>2, <1>7 DEF WsAlive, WsDoomed
  <2> QED
    BY <1>1, <1>3, <2>1, <2>2, IdleIs, WsElse
<1>8. CASE s.writes \notin {"pong", "text"}
  <2> DEFINE r == [s EXCEPT !.at = "cut"]
  <2>1. r \in WsThreads /\ r.at = "cut" /\ r.writes = s.writes /\ r.header = s.header
    BY DEF WsThreads
  <2>2. WsGoes(t, r)
    BY <1>1, <1>8 DEF WsWrites
  <2> HIDE DEF r
  <2>3. /\ WsPlaced(r) /\ ~WsAlive(r) /\ ~WsAlive(s)
        /\ (WsDoomed(r) <=> WsDoomed(s))
    BY <1>2, <1>8, <2>1 DEF WsPlaced, WsAlive, WsDoomed
  <2> QED
    BY <1>1, <1>3, <2>1, <2>2, <2>3, WsElse
<1> QED
  BY <1>6, <1>7, <1>8

LEMMA WsIsCut ==
    ASSUME WsInv, NEW t \in Threads, WsCuts(t) PROVE WsInv'
<1>1. /\ WsGoes(t, WsIdle) /\ wsPool' = FALSE /\ UNCHANGED <<wsWire, wsSeen>>
      /\ wsThread[t].at = "cut"
  BY DEF WsCuts, WsAt
<1>2. CASE Reading(t)
  <2>1. UNCHANGED wsPeer /\ UNCHANGED <<wsAhead, wsPipe>> /\ UNCHANGED wsSeen
    BY <1>1 DEF wsWire
  <2> QED
    BY <1>1, <1>2, <2>1, IdleIs, WsEnds
<1>3. CASE ~Reading(t)
  <2>1. ~WsAlive(wsThread[t]) /\ ~WsDoomed(wsThread[t])
    BY <1>3, ReadingIs
  <2> QED
    BY <1>1, <2>1, IdleIs, WsElse
<1> QED
  BY <1>2, <1>3

-----------------------------------------------------------------------------
(* Steps of the peer.                                                        *)

LEMMA WsPeerMoves ==
    ASSUME WsInv, UNCHANGED <<wsFlags, wsThread, wsSeen>>, WsShapes',
           \A n \in Nat, o \in 0..1 :
              WsChained(WsBytes, n, o, wsPeer.texts, wsPeer.parts)
              => WsChained(WsBytes', n, o, wsPeer'.texts, wsPeer'.parts),
           \A read \in BOOLEAN :
              WsAlternates(WsBytes, read, wsPeer.half # None)
              => WsAlternates(WsBytes', read, wsPeer'.half # None)
    PROVE  WsInv'
<1>1. wsThread' = wsThread /\ wsPool' = wsPool /\ UNCHANGED wsSeen
  BY DEF wsFlags
<1>2. /\ \A t \in Threads : WsPlaced(wsThread'[t])
      /\ WsOneReads' /\ WsTextsRight' /\ (WsLive' => WsLive)
  <2>1. \A t : Reading(t)' <=> Reading(t)
    BY <1>1 DEF Reading
  <2>2. WsTextsRight'
    BY <1>1, TextsStay DEF WsInv
  <2> QED
    BY <1>1, <2>1, <2>2 DEF WsInv, WsOneReads, WsLive
<1>3. ASSUME WsLive PROVE WsReadable'
  <2>1. WsReadable
    BY <1>3 DEF WsInv
  <2>2. PICK n \in Nat, o \in 0..1 :
            WsChained(WsBytes, n, o, wsPeer.texts, wsPeer.parts) /\ WsReaderAt(n, o)
    BY <2>1 DEF WsReadable, WsInOrder
  <2>3. WsChained(WsBytes', n, o, wsPeer'.texts, wsPeer'.parts)
    BY <2>2
  <2>4. WsReaderAt(n, o)'
    <3>1. (\A t \in Threads : ~WsAlive(wsThread[t])) => WsSettled(FALSE, <<>>, n, o)'
      BY <1>1, <2>2, SettledStays DEF WsReaderAt
    <3>2. ASSUME NEW t \in Threads, WsAlive(wsThread[t]) PROVE WsAtText(wsThread[t], n, o)'
      <4>1. PICK s : s = wsThread[t]
        OBVIOUS
      <4>2. WsAtText(s, n, o)
        BY <2>2, <3>2, <4>1 DEF WsReaderAt
      <4>3. WsAtText(s, n, o)'
        BY <1>1, <4>2, AtTextStays
      <4> QED
        BY <1>1, <4>1, <4>3
    <3> QED
      BY <1>1, <3>1, <3>2 DEF WsReaderAt
  <2>5. PICK read \in BOOLEAN : read <=> \E t \in Threads : WsHalfRead(wsThread[t])
    OBVIOUS
  <2>6. WsAlternates(WsBytes, read, wsPeer.half # None)
    BY <2>1, <2>5 DEF WsReadable, WsAlternates
  <2>7. WsAlternates(WsBytes', read, wsPeer'.half # None)
    BY <2>6
  <2>8. read <=> \E t \in Threads : WsHalfRead(wsThread'[t])
    BY <1>1, <2>5
  <2>9. WsAlternates(WsBytes', \E t \in Threads : WsHalfRead(wsThread'[t]), wsPeer'.half # None)
    BY <2>7, <2>8 DEF WsAlternates
  <2> QED
    BY <2>2, <2>3, <2>4, <2>9 DEF WsReadable, WsInOrder
<1> QED
  BY <1>2, <1>3 DEF WsInv

LEMMA WsArrives ==
    ASSUME WsInv, NEW h \in WsHalves, wsPipe' = Append(wsPipe, h),
           UNCHANGED <<wsFlags, wsAhead, wsThread, wsSeen>>,
           wsPeer' \in [texts : Nat, parts : 0..1, pings : Nat, half : WsFrames \cup {None},
                        gone : BOOLEAN],
           wsPeer'.texts + wsPeer'.pings <= WsMessages,
           h.half = "payload" <=> wsPeer.half # None,
           h.half = "header" <=> wsPeer'.half # None,
           IF IsData(h)
           THEN /\ WsBegins(wsPeer.texts, wsPeer.parts, h.f)
                /\ wsPeer'.texts = h.f.text /\ wsPeer'.parts = WsOpens(h.f)
           ELSE wsPeer'.texts = wsPeer.texts /\ wsPeer'.parts = wsPeer.parts
    PROVE  WsInv'
<1>1. PICK a \in Seq(WsHalves), q \in Seq(WsHalves) : a = wsAhead /\ q = wsPipe
  BY DEF WsInv, WsShapes
<1>2. PICK w \in Seq(WsHalves) : w = a \o q
  <2>1. a \o q \in Seq(WsHalves)
    OBVIOUS
  <2> QED
    BY <2>1
<1>3. a \o Append(q, h) = Append(w, h)
  <2>1. PICK z \in Seq(WsHalves) : z = <<h>>
    <3>1. <<h>> \in Seq(WsHalves)
      OBVIOUS
    <3> QED
      BY <3>1
  <2>2. Append(q, h) = q \o z /\ Append(w, h) = w \o z
    BY <2>1, AppendIsConcat
  <2>3. (a \o q) \o z = a \o (q \o z)
    BY ConcatAssociative, SMTT(30)
  <2> QED
    BY <1>2, <2>2, <2>3
<1>4. WsBytes = w /\ WsBytes' = Append(w, h)
  BY <1>1, <1>2, <1>3 DEF WsBytes
<1>5. Append(q, h) \in Seq(WsHalves)
  BY AppendProperties
<1>6. WsShapes'
  BY <1>1, <1>5 DEF WsInv, WsShapes, wsSeen
<1>7. ASSUME NEW n \in Nat, NEW o \in 0..1,
             WsChained(WsBytes, n, o, wsPeer.texts, wsPeer.parts)
      PROVE  WsChained(WsBytes', n, o, wsPeer'.texts, wsPeer'.parts)
  <2>1. PICK m, p : m = wsPeer.texts /\ p = wsPeer.parts
    OBVIOUS
  <2>2. WsChained(w, n, o, m, p)
    BY <1>4, <1>7, <2>1
  <2>3. IsData(h) => WsBegins(m, p, h.f)
    BY <2>1
  <2>4. IF IsData(h) THEN WsChained(Append(w, h), n, o, h.f.text, WsOpens(h.f))
        ELSE WsChained(Append(w, h), n, o, m, p)
    BY <2>2, <2>3, ChainAppend
  <2> QED
    BY <1>4, <2>1, <2>4
<1>8. ASSUME NEW read \in BOOLEAN, WsAlternates(WsBytes, read, wsPeer.half # None)
      PROVE  WsAlternates(WsBytes', read, wsPeer'.half # None)
  <2>1. WsAlternates(w, read, h.half = "payload")
    BY <1>4, <1>8 DEF WsAlternates
  <2>2. WsAlternates(Append(w, h), read, h.half = "header")
    BY <2>1, AlternatesAppend
  <2> QED
    BY <1>4, <2>2 DEF WsAlternates
<1>9. UNCHANGED <<wsFlags, wsThread, wsSeen>>
  OBVIOUS
<1> QED
  BY <1>6, <1>7, <1>8, <1>9, WsPeerMoves

LEMMA WsFrameSent ==
    ASSUME WsInv, PeerSends PROVE WsInv'
<1>1. PICK p \in [texts : Nat, parts : 0..1, pings : Nat, half : WsFrames \cup {None},
                  gone : BOOLEAN] : p = wsPeer
  BY DEF WsInv, WsShapes
<1>2. p.half = None /\ p.texts + p.pings <= WsMessages /\ WsMessages \in Nat
  BY <1>1, WebSocketsAssumption DEF PeerSends, WsInv, WsShapes
<1>3. PICK f \in PeerFrames :
        /\ wsPipe' = Append(wsPipe, [f |-> f, half |-> "header"])
        /\ wsPeer' = [p EXCEPT
              !.half = f,
              !.texts = IF f.kind = "text" THEN p.texts + 1 ELSE p.texts,
              !.parts = IF f.kind = "text" /\ ~f.last THEN 1
                        ELSE IF f.kind = "ping" THEN p.parts ELSE 0,
              !.pings = IF f.kind = "ping" THEN p.pings + 1 ELSE p.pings]
  BY <1>1 DEF PeerSends
<1>4. \/ /\ p.parts = 0 /\ p.texts + p.pings < WsMessages
         /\ \E last \in BOOLEAN : f = Frame("text", p.texts + 1, 1, last)
      \/ p.parts = 1 /\ f = Frame("continuation", p.texts, 2, TRUE)
      \/ p.texts + p.pings < WsMessages /\ f = Frame("ping", 0, 1, TRUE)
      \/ p.parts = 0 /\ f = Frame("close", 0, 1, TRUE)
  BY <1>1, <1>3 DEF PeerFrames
<1>5. /\ f \in WsFrames /\ f.kind \in {"text", "continuation", "ping", "close"}
      /\ p.texts \in 0..WsMessages
      /\ f.kind = "text" => /\ p.parts = 0 /\ f.text = p.texts + 1 /\ f.part = 1
                            /\ p.texts + p.pings < WsMessages
      /\ f.kind = "continuation" => /\ p.parts = 1 /\ f.text = p.texts /\ f.part = 2
                                    /\ f.last = TRUE
      /\ f.kind = "ping" => p.texts + p.pings < WsMessages
      /\ f.kind = "close" => p.parts = 0
  <2>1. p.texts \in Nat /\ p.pings \in Nat
    BY <1>1
  <2>2. /\ p.texts \in 0..WsMessages /\ 0 \in 0..WsMessages
        /\ p.texts + p.pings < WsMessages => p.texts + 1 \in 0..WsMessages
    BY <1>2, <2>1
  <2>3. CASE /\ p.parts = 0 /\ p.texts + p.pings < WsMessages
             /\ \E last \in BOOLEAN : f = Frame("text", p.texts + 1, 1, last)
    BY <2>2, <2>3 DEF Frame, WsFrames
  <2>4. CASE p.parts = 1 /\ f = Frame("continuation", p.texts, 2, TRUE)
    BY <2>2, <2>4 DEF Frame, WsFrames
  <2>5. CASE p.texts + p.pings < WsMessages /\ f = Frame("ping", 0, 1, TRUE)
    BY <2>2, <2>5 DEF Frame, WsFrames
  <2>6. CASE p.parts = 0 /\ f = Frame("close", 0, 1, TRUE)
    BY <2>2, <2>6 DEF Frame, WsFrames
  <2> QED
    BY <1>4, <2>3, <2>4, <2>5, <2>6
<1> DEFINE h == [f |-> f, half |-> "header"]
<1>6. h \in WsHalves /\ h.f = f /\ h.half = "header" /\ wsPipe' = Append(wsPipe, h)
  BY <1>3, <1>5 DEF WsHalves
<1> HIDE DEF h
<1>7. /\ wsPeer' \in [texts : Nat, parts : 0..1, pings : Nat, half : WsFrames \cup {None},
                      gone : BOOLEAN]
      /\ wsPeer'.half = f
      /\ wsPeer'.texts = IF f.kind = "text" THEN p.texts + 1 ELSE p.texts
      /\ wsPeer'.parts = (IF f.kind = "text" /\ ~f.last THEN 1
                          ELSE IF f.kind = "ping" THEN p.parts ELSE 0)
      /\ wsPeer'.pings = IF f.kind = "ping" THEN p.pings + 1 ELSE p.pings
  <2>1. p.texts \in Nat /\ p.pings \in Nat /\ p.parts \in 0..1
    BY <1>1
  <2>2. PICK a \in Nat : a = IF f.kind = "text" THEN p.texts + 1 ELSE p.texts
    BY <2>1
  <2>3. PICK b \in 0..1 : b = IF f.kind = "text" /\ ~f.last THEN 1
                             ELSE IF f.kind = "ping" THEN p.parts ELSE 0
    BY <2>1
  <2>4. PICK c \in Nat : c = IF f.kind = "ping" THEN p.pings + 1 ELSE p.pings
    BY <2>1
  <2>5. wsPeer' = [p EXCEPT !.half = f, !.texts = a, !.parts = b, !.pings = c]
    BY <1>3, <2>2, <2>3, <2>4
  <2>6. /\ wsPeer' \in [texts : Nat, parts : 0..1, pings : Nat, half : WsFrames \cup {None},
                         gone : BOOLEAN]
        /\ wsPeer'.half = f /\ wsPeer'.texts = a /\ wsPeer'.parts = b /\ wsPeer'.pings = c
    BY <1>5, <2>5
  <2> QED
    BY <2>2, <2>3, <2>4, <2>6
<1>8. wsPeer'.texts + wsPeer'.pings <= WsMessages
  <2>1. p.texts \in Nat /\ p.pings \in Nat
    BY <1>1
  <2>2. CASE f.kind = "text"
    BY <1>2, <1>5, <1>7, <2>1, <2>2
  <2>3. CASE f.kind = "ping"
    BY <1>2, <1>5, <1>7, <2>1, <2>3
  <2>4. CASE f.kind \notin {"text", "ping"}
    BY <1>2, <1>7, <2>1, <2>4
  <2> QED
    BY <2>2, <2>3, <2>4
<1>9. f # None
  BY <1>5, NoFrameAssumption
<1>10. IF IsData(h)
       THEN /\ WsBegins(wsPeer.texts, wsPeer.parts, h.f)
            /\ wsPeer'.texts = h.f.text /\ wsPeer'.parts = WsOpens(h.f)
       ELSE wsPeer'.texts = wsPeer.texts /\ wsPeer'.parts = wsPeer.parts
  <2>1. CASE f.kind = "text"
    BY <1>1, <1>5, <1>6, <1>7, <2>1 DEF IsData, WsBegins, WsOpens
  <2>2. CASE f.kind = "continuation"
    BY <1>1, <1>5, <1>6, <1>7, <2>2 DEF IsData, WsBegins, WsOpens
  <2>3. CASE f.kind \in {"ping", "close"}
    BY <1>1, <1>5, <1>6, <1>7, <2>3 DEF IsData
  <2> QED
    BY <1>5, <2>1, <2>2, <2>3
<1>11. UNCHANGED <<wsFlags, wsAhead, wsThread, wsSeen>>
  BY DEF PeerSends
<1> QED
  BY <1>1, <1>2, <1>6, <1>7, <1>8, <1>9, <1>10, <1>11, WsArrives

LEMMA WsRestSent ==
    ASSUME WsInv, PeerSendsRest PROVE WsInv'
<1>1. PICK p \in [texts : Nat, parts : 0..1, pings : Nat, half : WsFrames \cup {None},
                  gone : BOOLEAN] : p = wsPeer
  BY DEF WsInv, WsShapes
<1>2. p.half # None /\ p.half \in WsFrames /\ p.texts + p.pings <= WsMessages
  BY <1>1 DEF PeerSendsRest, WsInv, WsShapes
<1> DEFINE h == [f |-> p.half, half |-> "payload"]
<1>3. h \in WsHalves /\ h.half = "payload" /\ ~IsData(h) /\ wsPipe' = Append(wsPipe, h)
  BY <1>1, <1>2 DEF PeerSendsRest, WsHalves, IsData
<1> HIDE DEF h
<1>4. PICK gone \in BOOLEAN : wsPeer' = [p EXCEPT !.half = None, !.gone = gone]
  BY <1>1 DEF PeerSendsRest
<1>5. /\ wsPeer' \in [texts : Nat, parts : 0..1, pings : Nat, half : WsFrames \cup {None},
                      gone : BOOLEAN]
      /\ wsPeer'.half = None /\ wsPeer'.texts = p.texts /\ wsPeer'.parts = p.parts
      /\ wsPeer'.pings = p.pings
  BY <1>4
<1>6. UNCHANGED <<wsFlags, wsAhead, wsThread, wsSeen>>
  BY DEF PeerSendsRest
<1> QED
  BY <1>1, <1>2, <1>3, <1>5, <1>6, WsArrives

LEMMA WsPeerGone ==
    ASSUME WsInv, PeerGoes PROVE WsInv'
<1>1. PICK p \in [texts : Nat, parts : 0..1, pings : Nat, half : WsFrames \cup {None},
                  gone : BOOLEAN] : p = wsPeer
  BY DEF WsInv, WsShapes
<1>2. wsPeer' = [p EXCEPT !.gone = TRUE] /\ UNCHANGED <<wsFlags, wsAhead, wsPipe, wsThread, wsSeen>>
  BY <1>1 DEF PeerGoes
<1>3. /\ wsPeer' \in [texts : Nat, parts : 0..1, pings : Nat, half : WsFrames \cup {None},
                      gone : BOOLEAN]
      /\ wsPeer'.half = p.half /\ wsPeer'.texts = p.texts /\ wsPeer'.parts = p.parts
      /\ wsPeer'.pings = p.pings
  BY <1>2
<1>4. WsShapes'
  BY <1>1, <1>2, <1>3 DEF WsInv, WsShapes, wsSeen
<1>5. WsBytes' = WsBytes
  BY <1>2 DEF WsBytes
<1>6. \A n \in Nat, o \in 0..1 :
              WsChained(WsBytes, n, o, wsPeer.texts, wsPeer.parts)
              => WsChained(WsBytes', n, o, wsPeer'.texts, wsPeer'.parts)
  BY <1>1, <1>3, <1>5
<1>7. \A read \in BOOLEAN :
              WsAlternates(WsBytes, read, wsPeer.half # None)
              => WsAlternates(WsBytes', read, wsPeer'.half # None)
  BY <1>1, <1>3, <1>5
<1> QED
  BY <1>2, <1>4, <1>6, <1>7, WsPeerMoves

-----------------------------------------------------------------------------
LEMMA WsStarts == WsInit => WsInv
<1> SUFFICES ASSUME WsInit PROVE WsInv
  OBVIOUS
<1> DEFINE p == [texts |-> 0, parts |-> 0, pings |-> 0, half |-> None, gone |-> FALSE]
<1>1. /\ wsPool = TRUE /\ wsAhead = <<>> /\ wsPipe = <<>> /\ wsTexts = <<>> /\ wsMissed = {}
      /\ wsPeer = p /\ wsThread = [t \in Threads |-> WsIdle]
  BY DEF WsInit
<1>2. /\ p \in [texts : Nat, parts : 0..1, pings : Nat, half : WsFrames \cup {None},
                gone : BOOLEAN]
      /\ p.texts = 0 /\ p.parts = 0 /\ p.pings = 0 /\ p.half = None
  OBVIOUS
<1> HIDE DEF p
<1>3. WsShapes
  <2>1. <<>> \in Seq(WsHalves) /\ <<>> \in Seq(Seq(WsFrames))
    OBVIOUS
  <2>2. wsThread \in [Threads -> WsThreads]
    BY <1>1, IdleIs
  <2>3. wsPeer.texts + wsPeer.pings <= WsMessages
    <3>1. 0 + 0 = 0 /\ 0 <= WsMessages
      BY WebSocketsAssumption
    <3> QED
      BY <1>1, <1>2, <3>1
  <2> QED
    BY <1>1, <1>2, <2>1, <2>2, <2>3 DEF WsShapes
<1>4. \A t \in Threads : wsThread[t] = WsIdle
  BY <1>1
<1>5. \A t \in Threads : /\ WsPlaced(wsThread[t]) /\ ~WsAlive(wsThread[t])
                         /\ ~WsHalfRead(wsThread[t]) /\ ~Reading(t)
  BY <1>4, IdleIs, ReadingIs
<1>6. WsOneReads
  BY <1>5 DEF WsOneReads
<1>7. DOMAIN wsTexts = {}
  BY <1>1
<1>8. WsTextsRight
  BY <1>7 DEF WsTextsRight
<1>9. WsBytes = <<>> /\ Len(WsBytes) = 0
  BY <1>1 DEF WsBytes
<1>10. 1..Len(WsBytes) = {} /\ 1..(Len(WsBytes) - 1) = {}
  BY <1>9
<1>11. WsAlternates(WsBytes, \E t \in Threads : WsHalfRead(wsThread[t]), wsPeer.half # None)
  BY <1>1, <1>2, <1>5, <1>9, <1>10 DEF WsAlternates
<1>12. WsChained(WsBytes, 0, 0, wsPeer.texts, wsPeer.parts)
  BY <1>1, <1>2, <1>10 DEF WsChained
<1>13. WsSettled(FALSE, <<>>, 0, 0)
  <2>1. 1..0 = {}
    OBVIOUS
  <2> QED
    BY <1>7, <2>1 DEF WsSettled
<1>14. WsReaderAt(0, 0)
  BY <1>5, <1>13 DEF WsReaderAt
<1>15. 0 \in Nat /\ 0 \in 0..1
  OBVIOUS
<1> QED
  BY <1>3, <1>5, <1>6, <1>8, <1>11, <1>12, <1>14, <1>15 DEF WsInv, WsReadable, WsInOrder

LEMMA WsGoesOn == WsInv /\ [WsNext]_wsVars => WsInv'
<1> SUFFICES ASSUME WsInv, [WsNext]_wsVars PROVE WsInv'
  OBVIOUS
<1>1. ASSUME NEW t \in Threads, WsRuns(t) PROVE WsInv'
  BY <1>1, WsLooks, WsReadsOn, WsFails, WsAnswers, WsGetsLock, WsHasWritten, WsIsCut DEF WsRuns
<1>2. ASSUME NEW t \in Threads, NEW timed \in BOOLEAN, WsReceive(t, timed) PROVE WsInv'
  BY <1>2, WsSetsOut
<1>3. ASSUME NEW t \in Threads, WsSend(t) \/ WsClose(t) \/ WsUnregister(t) \/ WsTimesOut(t)
      PROVE  WsInv'
  BY <1>3, WsStartsToWrite, WsTakenOut, WsGivesUp
<1>4. CASE PeerSends \/ PeerSendsRest \/ PeerGoes
  BY <1>4, WsFrameSent, WsRestSent, WsPeerGone
<1>5. CASE UNCHANGED wsVars
  <2>1. UNCHANGED <<wsFlags, wsThread, wsSeen, wsWire>>
    BY <1>5 DEF wsVars
  <2>2. WsShapes' /\ WsBytes' = WsBytes /\ UNCHANGED wsPeer
    BY <2>1 DEF WsInv, WsShapes, WsBytes, wsWire, wsSeen
  <2>3. \A n \in Nat, o \in 0..1 :
           WsChained(WsBytes, n, o, wsPeer.texts, wsPeer.parts)
           => WsChained(WsBytes', n, o, wsPeer'.texts, wsPeer'.parts)
    BY <2>2
  <2>4. \A read \in BOOLEAN :
           WsAlternates(WsBytes, read, wsPeer.half # None)
           => WsAlternates(WsBytes', read, wsPeer'.half # None)
    BY <2>2
  <2> QED
    BY <2>1, <2>2, <2>3, <2>4, WsPeerMoves
<1> QED
  BY <1>1, <1>2, <1>3, <1>4, <1>5 DEF WsNext

LEMMA WsTextsKept == WsInv => TextsWhole
<1> SUFFICES ASSUME WsInv PROVE TextsWhole
  OBVIOUS
<1>1. \A t \in Threads : wsThread[t].header # None => wsThread[t].header.half = "header"
  BY DEF WsInv, WsPlaced
<1>2. WsTextsRight
  BY DEF WsInv
<1> QED
  BY <1>1, <1>2 DEF WsTextsRight, TextsWhole

\* Whatever pings, sends, closes and time limits come between, a read returns one
\* whole text, the next one that was not passed over at a time limit.
THEOREM TextsAreWhole == WsInit /\ [][WsNext]_wsVars => []TextsWhole
<1>1. WsInit => WsInv
  BY WsStarts
<1>2. WsInv /\ [WsNext]_wsVars => WsInv'
  BY WsGoesOn
<1>3. WsInv => TextsWhole
  BY WsTextsKept
<1> QED
  BY <1>1, <1>2, <1>3, PTL
=============================================================================
