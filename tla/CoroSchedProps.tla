--------------------------- MODULE CoroSchedProps ---------------------------
(* What the coroutine scheduler promises.                                   *)
EXTENDS CoroSched

Intents == {NoIntent} \cup [kind : {"recv"}, ch : Channels]
           \cup [kind : {"send"}, ch : Channels, val : Values]
Frames == {"none", "suspended", "executing", "final", "destroyed"}

\* Types of the variables of coro.rs; the counters are machine integers that
\* a decrement may take below zero for a moment.
TypeOK ==
    /\ prog \in Programs
    /\ mainIp \in Nat \ {0}
    /\ ready \in Seq(Coros)
    /\ readyLock \in 0..N
    /\ localq \in [Workers -> Seq(Coros)]
    /\ localLock \in [Workers -> 0..N]
    /\ schedulable \in Int /\ running \in Int /\ handoff \in Int /\ live \in Int
    /\ shutdown \in BOOLEAN /\ deadlock \in BOOLEAN
    /\ chan \in [Channels -> ChanType(Coros, Values)]
    /\ frame \in [Coros -> Frames] /\ ip \in [Coros -> Nat \ {0}]
    /\ done \in [Coros -> BOOLEAN] /\ asleep \in [Coros -> BOOLEAN]
    /\ pc \in [Workers -> PCs] /\ wid \in [Workers -> BOOLEAN]
    /\ next \in [Workers -> Coros \cup {None}]
    /\ cur \in [Workers -> Coros \cup {None}]
    /\ stack \in [Workers -> Seq(Coros)]
    /\ parked \in [Workers -> BOOLEAN] /\ sleeps \in [Workers -> BOOLEAN]
    /\ intent \in [Workers -> Intents]
    /\ confirm \in [Workers -> Nat]
    /\ wakes \in [Workers -> Seq(Coros)]
    /\ ret \in [Workers -> {"exec", "suspend"}]
    /\ off \in [Workers -> 1..N] /\ timer \in [Workers -> BOOLEAN]

-----------------------------------------------------------------------------
(* Counting.                                                                *)
Occurrences(s, c) == Cardinality({i \in DOMAIN s : s[i] = c})
ThreadsAt(pcs) == Cardinality({w \in Workers : pc[w] \in pcs})

\* Position i of w's stack is a ramp qi_coro_spawn has not registered yet.
RampAt(w, i) ==
    /\ i \in DOMAIN stack[w]
    /\ i > 1 \/ cur[w] = None
    /\ ~(At(w, "spawnedQ") /\ i = Len(stack[w]))

InRamp(c) == \E w \in Workers : \E i \in DOMAIN stack[w] : RampAt(w, i) /\ stack[w][i] = c

Alive(c) == frame[c] # "none" /\ ~done[c] /\ ~InRamp(c)

\* The entries of the local queues.
LocalEntries == UNION {{w} \X DOMAIN localq[w] : w \in Workers}

Counted(w) ==
    \/ cur[w] # None /\ pc[w] \notin {"uncount", "count"}
    \/ pc[w] \in {"fin1", "requeued", "running"}

\* The four atomic counters of coro.rs (LIVE, RUNNING, SCHEDULABLE, HANDOFF)
\* agree with the queues, the NEXT slots and the frames they mirror, up to
\* the update each thread is just about to make.  A dead-lock announced in
\* error leaves NEXT slots behind with their threads, so it ends there.
CountersAgree ==
    ~deadlock =>
    /\ running = Cardinality({w \in Workers : Counted(w)})
    /\ handoff = Cardinality({w \in Workers : next[w] # None})
                 + ThreadsAt({"handoff"})
    /\ schedulable = Len(ready) + Cardinality(LocalEntries) + ThreadsAt({"uncount"})
                     - ThreadsAt({"woken", "requeued", "spawnedQ"})
    /\ live = Cardinality({c \in Coros : Alive(c)})
              + ThreadsAt({"fin1", "fin2", "unlive"})

\* A thread holds the coroutine it is about to run or runs, until the
\* coroutine has parked itself on a channel.
Holds(w) == cur[w] # None /\ (pc[w] \in Fetching \cup {"ub"} \/ ~parked[w])

\* The lists that coroutines wait in: the ready queue, the local queues, the
\* wake-ups a thread still owes, the NEXT slots, the workers' hands, and the
\* receivers and the senders parked on each channel.
Places ==
    {<<"ready", 0>>} \cup ({"local", "wakes", "next", "held"} \X Workers)
    \cup ({"rwait", "swait"} \X Channels)

Single(c) == IF c = None THEN <<>> ELSE <<c>>

Content(p) ==
    CASE p[1] = "ready" -> ready
      [] p[1] = "local" -> localq[p[2]]
      [] p[1] = "wakes" -> wakes[p[2]]
      [] p[1] = "next"  -> Single(next[p[2]])
      [] p[1] = "held"  -> IF Holds(p[2]) THEN <<cur[p[2]]>> ELSE <<>>
      [] p[1] = "rwait" -> chan[p[2]].rwait
      [] p[1] = "swait" -> [i \in DOMAIN chan[p[2]].swait |-> chan[p[2]].swait[i].co]

\* Where in these lists a coroutine is.
Spots(c) ==
    UNION {{p} \X {i \in DOMAIN Content(p) : Content(p)[i] = c} : p \in Places}

Parked(c) == \E s \in Spots(c) : s[1][1] \in {"rwait", "swait"}

BeingCancelled(c) ==
    \E w \in Workers : At(w, "destroy") /\ CancelTarget(w) = c

\* Every live coroutine is in exactly one place: the ready queue, a local
\* queue, a NEXT slot, a channel's waiter list, a pending wake-up, or a
\* worker.  None is forgotten by a park, a wake or a steal, none is queued
\* twice.
ExactlyOnePlace ==
    ~deadlock =>
        \A c \in Coros : Alive(c) /\ ~BeingCancelled(c) => Cardinality(Spots(c)) = 1

(* The programs of which the counters and the places can be proved right in *)
(* general: they never cancel, call run_all once, and no coroutine spawned  *)
(* by another parks before it has yielded (in its ramp it is the spawner,   *)
(* CURRENT, that would be put on the waiter list).                          *)
NeverCancels(p) ==
    /\ \A c \in Coros : \A i \in DOMAIN p.body[c] : p.body[c][i].op # "cancel"
    /\ \A i \in DOMAIN p.main : p.main[i].op # "cancel"

RunsOnce(p) ==
    \A i, j \in DOMAIN p.main : p.main[i].op = "run" /\ p.main[j].op = "run" => i = j

SpawnedInside(p, c) ==
    \E b \in Coros : \E i \in DOMAIN p.body[b] :
        p.body[b][i].op = "spawn" /\ p.body[b][i].co = c

Yields(i) == i.op \in {"yield", "sleep"}
MayPark(i) == i.op = "recv" \/ (i.op = "send" /\ Cap[i.ch] # 0)

RampsNeverPark(p) ==
    \A c \in Coros : SpawnedInside(p, c) =>
        \A i \in DOMAIN p.body[c] :
            MayPark(p.body[c][i]) => \E h \in 1..(i - 1) : Yields(p.body[c][h])

Regular(p) == NeverCancels(p) /\ RunsOnce(p) /\ RampsNeverPark(p)

-----------------------------------------------------------------------------
(* Channels.                                                                *)

\* A coroutine that will try to receive from k without being woken again.
EnRoute(c, k) ==
    /\ Current(c).op = "recv" /\ Current(c).ch = k
    /\ frame[c] \in {"suspended", "executing"}
    /\ Occurrences(chan[k].rwait, c) = 0

\* While a receiver is parked, each buffered value has a receiver that was
\* woken for it or has not parked yet ("no lost wake-up", park_recv's second
\* look and the extra wake in try_recv).
NoLostWakeup ==
    \A k \in Channels :
        chan[k].rwait # <<>> =>
            Len(chan[k].buf) <= Cardinality({c \in Coros : EnRoute(c, k)})

\* A channel with a capacity never holds more, and a sender is parked only
\* while it is full (park_send's second look, the promotion in try_recv).
SendersWaitWhenFull ==
    \A k \in Channels :
        /\ Cap[k] # 0 => Len(chan[k].buf) <= Cap[k]
        /\ chan[k].swait # <<>> => Cap[k] # 0 /\ Len(chan[k].buf) = Cap[k]

\* The values of a channel in the order they were sent, parked ones last.
Pending(k) ==
    chan[k].buf \o [i \in 1..Len(chan[k].swait) |-> chan[k].swait[i].val]

Fifo == INSTANCE FifoChannels WITH queue <- [k \in Channels |-> Pending(k)]

\* A channel is a FIFO queue whatever parks, promotions and retries happen
\* inside: each step adds one value at the end of one queue, removes the
\* oldest value of one, or changes none.
ChannelsAreFifo == Fifo!Spec

-----------------------------------------------------------------------------
(* Stealing, stopping, dead-locks.                                          *)

\* A thief that holds its victim's mutex never waits for its own: no thief
\* holds the mutex of a worker that is stealing, so two thieves cannot wait
\* for each other.
StealNeverBlocks ==
    \A w \in Workers : At(w, "mine") => localLock[w] = Free

(* What makes StealNeverBlocks inductive, with the types.                   *)

InBody == {"exec", "parkSend", "parkRecv", "wake", "woken", "suspend",
           "spawned", "spawnedQ"}

\* The data a thread needs at its position is there; a worker runs frames
\* only on top of the coroutine it resumed.
ThreadShape(w) ==
    /\ pc[w] \in InBody => stack[w] # <<>>
    /\ pc[w] \notin InBody \cup {"destroy", "unlive", "ub"} => stack[w] = <<>>
    /\ wid[w] /\ stack[w] # <<>> => cur[w] # None
    /\ pc[w] \in {"spawned", "spawnedQ"} => Len(stack[w]) > 1 \/ cur[w] = None
    /\ pc[w] \in {"main", "sync", "end"} => ~wid[w]
    /\ pc[w] \in {"destroy", "unlive"} /\ stack[w] = <<>> => ~wid[w]
    /\ pc[w] = "wake" => wakes[w] # <<>>
    /\ pc[w] \in Fetching \cup {"after"} => cur[w] # None

\* Only the main thread exists outside run_all.
OthersOff == ~wid[0] => \A w \in Workers \ {0} : At(w, "off")

\* A worker past its own queue has nothing in it.
SearchersEmpty ==
    \A w \in Workers :
        pc[w] \in {"scan", "steal", "mine"} /\ wid[w] => localq[w] = <<>>

\* A local queue's mutex is free, held by its owner between the two counter
\* updates, or held by a thief while the queue is not empty.
LocalLockHeld(v) ==
    \/ localLock[v] = Free
    \/ localLock[v] = v /\ pc[v] \in {"uncount", "count"}
    \/ \E w \in Workers \ {v} :
          /\ localLock[v] = w /\ At(w, "mine") /\ wid[w]
          /\ Victim(w) = v
          /\ localq[v] # <<>>

MineHoldsVictim ==
    \A w \in Workers :
        At(w, "mine") => /\ wid[w] /\ off[w] < N
                         /\ localLock[Victim(w)] = w
                         /\ localq[Victim(w)] # <<>>

StealInv ==
    /\ TypeOK
    /\ \A w \in Workers : ThreadShape(w)
    /\ OthersOff
    /\ SearchersEmpty
    /\ \A v \in Workers : LocalLockHeld(v)
    /\ MineHoldsVictim

\* run_all returns without announcing a dead-lock only when no coroutine is
\* left alive.
StopsWhenDone ==
    (At(0, "stopped") /\ ~deadlock) => \A c \in Coros : ~Alive(c)

\* Dead-lock detection (coro.rs:36-38: no false dead-lock any more): one is
\* announced only when every live coroutine is parked on a channel, and there
\* is one; run_all reports it before anything else can change.
DeadlockIsReal ==
    deadlock /\ wid[0] => /\ \E c \in Coros : Alive(c)
                          /\ \A c \in Coros : Alive(c) => Parked(c)

\* "A frame is held by one worker at a time" (coro.rs:22): from the moment a
\* worker takes a coroutine from a queue until run_one is done with it, no
\* other worker has it.
FrameHeldByOne ==
    \A v, w \in Workers :
        (v # w /\ cur[v] # None) => cur[v] # cur[w]
=============================================================================
