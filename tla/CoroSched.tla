----------------------------- MODULE CoroSched -----------------------------
(* The M:N coroutine scheduler of src/src/async_runtime/coro.rs: the global *)
(* ready queue, the workers' local queues with batch stealing, the NEXT     *)
(* hand-off slot, the four atomic counters, dead-lock detection, channels   *)
(* that park and wake coroutines, spawn, cancel, and the main thread that   *)
(* spawns, drives one future to completion, or becomes worker 0 of run_all. *)
(*                                                                          *)
(* A step is one mutex-protected region or one atomic operation wherever    *)
(* another thread can tell the difference.  The body of a coroutine is code *)
(* the compiler generates: it is a sequence of instructions here, each one  *)
(* the calls into this file that the generated code makes.                  *)
EXTENDS CoroChannel, FiniteSets, SequencesExt

CONSTANTS
    N,            \* number of workers, QI_CORO_WORKERS
    Coros,        \* coroutines
    Channels,     \* channels
    Values,       \* values sent
    Cap,          \* capacity of each channel, 0 = unbounded
    None,         \* the null coroutine pointer
    Programs      \* the programs run: [body : Coros -> instructions, main : calls]

Workers == 0..(N - 1)

\* Number of consecutive idle observations that make a dead-lock (n >= 2).
ConfirmLimit == 2

Instr ==
         [op : {"send"}, ch : Channels, val : Values]
    \cup [op : {"recv"}, ch : Channels]
    \cup [op : {"yield", "sleep"}]
    \cup [op : {"spawn", "await", "cancel"}, co : Coros]

MainCall ==
         [op : {"run"}]
    \cup [op : {"spawn", "await", "cancel"}, co : Coros]

ASSUME NAssumption == N \in Nat \ {0}
ASSUME NoneAssumption == None \notin Coros
ASSUME CapAssumption == Cap \in [Channels -> Nat]
ASSUME ProgramsAssumption ==
    \A p \in Programs : /\ p.body \in [Coros -> Seq(Instr)]
                        /\ p.main \in Seq(MainCall)

VARIABLES
    prog,         \* the program chosen; never changes
    mainIp,       \* next call of the main thread
    ready,        \* READY
    readyLock,    \* holder of READY's mutex across several steps
    localq,       \* LOCALQ
    localLock,    \* holder of each local queue's mutex
    schedulable,  \* SCHEDULABLE
    running,      \* RUNNING
    handoff,      \* HANDOFF
    live,         \* LIVE
    shutdown,     \* SHUTDOWN
    deadlock,     \* DEADLOCK
    chan,         \* the channels' ChanInner
    frame,        \* state of each coroutine's frame
    ip,           \* instruction each body is at
    done,         \* QiCoro.done
    asleep        \* QiCoro.wake_at is in the future

\* Of each worker thread; thread 0 is the main thread.
VARIABLES
    pc,           \* its position
    wid,          \* WORKER_ID is set
    next,         \* NEXT
    cur,          \* the coroutine picked, CURRENT while it is resumed
    stack,        \* frames it executes: a ramp on top of its spawner
    parked,       \* PARKED
    sleeps,       \* LAST_WAKE is in the future
    intent,       \* PARK_INTENT_*
    confirm,      \* DEADLOCK_CONFIRM
    wakes,        \* coroutines it still has to wake
    ret,          \* its position after the wake-ups
    off,          \* distance of the next victim
    timer         \* the ready queue held sleepers only

program == <<prog, mainIp>>
queues == <<ready, readyLock, localq, localLock>>
counters == <<schedulable, running, handoff, live>>
flags == <<shutdown, deadlock>>
coros == <<frame, ip, done, asleep>>
shared == <<program, queues, counters, flags, chan, coros>>
waking == <<wakes, ret>>
search == <<off, timer>>
locals == <<wid, next, cur, stack, parked, sleeps, intent, confirm, waking, search>>
vars == <<shared, pc, locals>>

Free == N
NoIntent == [kind |-> "none"]

PCs == {"off", "main", "sync", "top", "pick", "handoff", "uncount", "count",
        "scan", "steal", "mine", "timer", "none", "chkLive", "chkRun",
        "chkHand", "wait", "resume", "exec", "parkSend", "parkRecv", "wake",
        "woken", "suspend", "after", "fin1", "fin2", "requeued", "running",
        "spawned", "spawnedQ", "destroy", "unlive", "stopped", "ub", "end"}

\* Every thread but the main one starts when run_all creates it.
Init ==
    /\ prog \in Programs /\ mainIp = 1
    /\ ready = <<>> /\ readyLock = Free
    /\ localq = [w \in Workers |-> <<>>] /\ localLock = [w \in Workers |-> Free]
    /\ schedulable = 0 /\ running = 0 /\ handoff = 0 /\ live = 0
    /\ shutdown = FALSE /\ deadlock = FALSE
    /\ chan = [k \in Channels |-> EmptyChan]
    /\ frame = [c \in Coros |-> "none"] /\ ip = [c \in Coros |-> 1]
    /\ done = [c \in Coros |-> FALSE] /\ asleep = [c \in Coros |-> FALSE]
    /\ pc = [w \in Workers |-> IF w = 0 THEN "main" ELSE "off"]
    /\ wid = [w \in Workers |-> FALSE]
    /\ next = [w \in Workers |-> None] /\ cur = [w \in Workers |-> None]
    /\ stack = [w \in Workers |-> <<>>]
    /\ parked = [w \in Workers |-> FALSE] /\ sleeps = [w \in Workers |-> FALSE]
    /\ intent = [w \in Workers |-> NoIntent] /\ confirm = [w \in Workers |-> 0]
    /\ wakes = [w \in Workers |-> <<>>] /\ ret = [w \in Workers |-> "exec"]
    /\ off = [w \in Workers |-> 1] /\ timer = [w \in Workers |-> FALSE]

At(w, p) == pc[w] = p
Go(w, p) == pc' = [pc EXCEPT ![w] = p]

\* The frame whose code runs on the thread.
Running(w) == Last(stack[w])

\* The instruction a coroutine is at; "return" once the body is finished.
Current(c) ==
    IF ip[c] <= Len(prog.body[c]) THEN prog.body[c][ip[c]] ELSE [op |-> "return"]

\* Where a thread goes when step() or one turn of worker_loop is over.
LoopHead(w) == IF wid[w] THEN "top" ELSE "sync"

-----------------------------------------------------------------------------
(* worker_loop and pick.                                                    *)

LoopTop(w) ==
    /\ At(w, "top")
    /\ Go(w, IF shutdown THEN "stopped" ELSE "pick")
    /\ UNCHANGED <<shared, locals>>

\* pick, the NEXT slot: RUNNING is raised before HANDOFF is lowered.
PickNext(w) ==
    /\ At(w, "pick")
    /\ next[w] # None
    /\ running' = running + 1
    /\ cur' = [cur EXCEPT ![w] = next[w]]
    /\ next' = [next EXCEPT ![w] = None]
    /\ Go(w, "handoff")
    /\ UNCHANGED <<program, queues, schedulable, handoff, live, flags, chan,
                   coros, wid, stack, parked, sleeps, intent, confirm, waking,
                   search>>

HandoffTaken(w) ==
    /\ At(w, "handoff")
    /\ handoff' = handoff - 1
    /\ Go(w, "resume")
    /\ UNCHANGED <<program, queues, schedulable, running, live, flags, chan,
                   coros, locals>>

\* pick, own local queue: taken from the back; its mutex is kept until the
\* counters are updated.  A thread that is no worker has no local queue.
PickLocal(w) ==
    /\ At(w, "pick")
    /\ next[w] = None
    /\ wid[w]
    /\ localLock[w] = Free
    /\ localq[w] # <<>>
    /\ localq' = [localq EXCEPT ![w] = Front(@)]
    /\ localLock' = [localLock EXCEPT ![w] = w]
    /\ cur' = [cur EXCEPT ![w] = Last(localq[w])]
    /\ Go(w, "uncount")
    /\ UNCHANGED <<program, ready, readyLock, counters, flags, chan, coros, wid,
                   next, stack, parked, sleeps, intent, confirm, waking, search>>

\* Wrong variant: the own queue is not looked at before stealing.
PickGlobalSkippingLocal(w) ==
    /\ At(w, "pick")
    /\ next[w] = None
    /\ Go(w, "scan")
    /\ UNCHANGED <<shared, locals>>

PickGlobal(w) ==
    /\ At(w, "pick")
    /\ next[w] = None
    /\ wid[w] => localLock[w] = Free /\ localq[w] = <<>>
    /\ Go(w, "scan")
    /\ UNCHANGED <<shared, locals>>

\* The two counter updates after a local pop or a steal: neither is made
\* under READY's mutex.
Uncount(w) ==
    /\ At(w, "uncount")
    /\ schedulable' = schedulable - 1
    /\ Go(w, "count")
    /\ UNCHANGED <<program, queues, running, handoff, live, flags, chan, coros,
                   locals>>

Count(w) ==
    /\ At(w, "count")
    /\ running' = running + 1
    /\ localLock' = [localLock EXCEPT ![w] = IF @ = w THEN Free ELSE @]
    /\ Go(w, "resume")
    /\ UNCHANGED <<program, ready, readyLock, localq, schedulable, handoff, live,
                   flags, chan, coros, locals>>

\* Positions of the ready queue whose wake-up time has come.
Due == {i \in 1..Len(ready) : ~asleep[ready[i]]}

\* pick, global queue, under its mutex: the first coroutine that is due.
ScanTake(w) ==
    /\ At(w, "scan")
    /\ readyLock = Free
    /\ \E i \in Due :
          /\ \A j \in Due : i <= j
          /\ ready' = RemoveAt(ready, i)
          /\ cur' = [cur EXCEPT ![w] = ready[i]]
    /\ schedulable' = schedulable - 1
    /\ running' = running + 1
    /\ Go(w, "resume")
    /\ UNCHANGED <<program, readyLock, localq, localLock, handoff, live, flags,
                   chan, coros, wid, next, stack, parked, sleeps, intent, confirm,
                   waking, search>>

\* Nothing due: remember whether only sleepers were there, then try to steal.
ScanMiss(w) ==
    /\ At(w, "scan")
    /\ readyLock = Free
    /\ Due = {}
    /\ timer' = [timer EXCEPT ![w] = (ready # <<>>)]
    /\ off' = [off EXCEPT ![w] = 1]
    /\ Go(w, "steal")
    /\ UNCHANGED <<shared, wid, next, cur, stack, parked, sleeps, intent, confirm,
                   waking>>

Victim(w) == (w + off[w]) % N

\* Wrong variant: the thief comes round to its own queue.
StealingRound(w) == At(w, "steal") /\ wid[w]

Stealing(w) == At(w, "steal") /\ wid[w] /\ off[w] < N

\* A victim whose mutex is taken (try_lock fails) or whose queue is empty.
StealSkip(w) ==
    /\ Stealing(w)
    /\ localLock[Victim(w)] # Free \/ localq[Victim(w)] = <<>>
    /\ off' = [off EXCEPT ![w] = @ + 1]
    /\ UNCHANGED <<shared, pc, wid, next, cur, stack, parked, sleeps, intent,
                   confirm, waking, timer>>

\* A victim with work: its mutex is held while the thief locks its own queue.
StealLock(w) ==
    /\ Stealing(w)
    /\ localLock[Victim(w)] = Free
    /\ localq[Victim(w)] # <<>>
    /\ localLock' = [localLock EXCEPT ![Victim(w)] = w]
    /\ Go(w, "mine")
    /\ UNCHANGED <<program, ready, readyLock, localq, counters, flags, chan,
                   coros, locals>>

\* Half of the victim's queue, rounded up, from its front: the first is run,
\* the others go to the thief's queue; both mutexes are then released.
StealMove(w) ==
    LET v == Victim(w)
        half == (Len(localq[v]) + 1) \div 2
    IN  /\ At(w, "mine")
        /\ localLock[w] = Free
        /\ localq' = [localq EXCEPT
                        ![v] = SubSeq(@, half + 1, Len(@)),
                        ![w] = @ \o SubSeq(localq[v], 2, half)]
        /\ localLock' = [localLock EXCEPT ![v] = Free]
        /\ cur' = [cur EXCEPT ![w] = Head(localq[v])]
        /\ Go(w, "uncount")
        /\ UNCHANGED <<program, ready, readyLock, counters, flags, chan, coros,
                       wid, next, stack, parked, sleeps, intent, confirm, waking,
                       search>>

\* pick returns Some(Err(ms)) or None.
StealMiss(w) ==
    /\ At(w, "steal")
    /\ wid[w] => off[w] = N
    /\ Go(w, IF timer[w] THEN "timer" ELSE "none")
    /\ UNCHANGED <<shared, locals>>

\* Only sleepers: sleep at most 5 ms and look again.
TimerSleep(w) ==
    /\ At(w, "timer")
    /\ confirm' = [confirm EXCEPT ![w] = IF wid[w] THEN 0 ELSE @]
    /\ Go(w, LoopHead(w))
    /\ UNCHANGED <<shared, wid, next, cur, stack, parked, sleeps, intent, waking,
                   search>>

-----------------------------------------------------------------------------
(* worker_loop, no work found: the observations made under READY's mutex.   *)
(* Each load is a step, for the counters are changed without that mutex.    *)
(* SCHEDULABLE is a usize: a decrement that overtakes its increment wraps,  *)
(* so that the code's "> 0" is "# 0" here.                                  *)
IdleLock(w) ==
    /\ At(w, "none")
    /\ wid[w]
    /\ readyLock = Free
    /\ IF schedulable # 0 \/ shutdown
       THEN Go(w, "top") /\ UNCHANGED readyLock
       ELSE Go(w, "chkLive") /\ readyLock' = w
    /\ UNCHANGED <<program, ready, localq, localLock, counters, flags, chan,
                   coros, locals>>

CheckLive(w) ==
    /\ At(w, "chkLive")
    /\ IF live <= 0
       THEN Go(w, "stopped") /\ shutdown' = TRUE /\ readyLock' = Free
       ELSE Go(w, "chkRun") /\ UNCHANGED <<shutdown, readyLock>>
    /\ UNCHANGED <<program, ready, localq, localLock, counters, deadlock, chan,
                   coros, locals>>

CheckRunning(w) ==
    /\ At(w, "chkRun")
    /\ IF running = 0
       THEN Go(w, "chkHand") /\ UNCHANGED <<readyLock, confirm>>
       ELSE /\ Go(w, "wait") /\ readyLock' = Free
            /\ confirm' = [confirm EXCEPT ![w] = 0]
    /\ UNCHANGED <<program, ready, localq, localLock, counters, flags, chan,
                   coros, wid, next, cur, stack, parked, sleeps, intent, waking,
                   search>>

\* Nothing running and nothing handed off: one more confirmation, and with
\* the second in a row the dead-lock is announced and every worker stops.
\* The main thread keeps its count from one run_all to the next.
CheckHandoff(w) ==
    LET n == IF handoff = 0 THEN confirm[w] + 1 ELSE 0
        dead == n >= ConfirmLimit
    IN  /\ At(w, "chkHand")
        /\ readyLock' = Free
        /\ confirm' = [confirm EXCEPT ![w] = n]
        /\ Go(w, IF dead THEN "stopped" ELSE "wait")
        /\ deadlock' = (deadlock \/ dead)
        /\ shutdown' = (shutdown \/ dead)
        /\ UNCHANGED <<program, ready, localq, localLock, counters, chan, coros,
                       wid, next, cur, stack, parked, sleeps, intent, waking,
                       search>>

\* wait_timeout of 2 ms: a notification can only end it earlier.
IdleWait(w) ==
    /\ At(w, "wait")
    /\ Go(w, "top")
    /\ UNCHANGED <<shared, locals>>

\* step() found nothing: it reports work as long as some coroutine is alive.
SyncNone(w) ==
    /\ At(w, "none")
    /\ ~wid[w]
    /\ Go(w, IF live > 0 THEN "sync" ELSE "main")
    /\ mainIp' = IF live > 0 THEN mainIp ELSE mainIp + 1
    /\ UNCHANGED <<prog, queues, counters, flags, chan, coros, locals>>

-----------------------------------------------------------------------------
(* run_one, up to the resumption.  Resuming a frame that is not suspended,  *)
(* or that another worker has yet to look at (llvm.coro.done, unordered     *)
(* with this resumption), is undefined behaviour: nothing is said of the    *)
(* program from then on.                                                    *)
Fetching == {"handoff", "uncount", "count", "resume"}
LookedAtBy(w, c) == cur[w] = c /\ pc[w] \notin Fetching
Untouched(c) == frame[c] = "suspended" /\ \A w \in Workers : ~LookedAtBy(w, c)

Resume(w) ==
    /\ At(w, "resume")
    /\ Untouched(cur[w])
    /\ frame' = [frame EXCEPT ![cur[w]] = "executing"]
    /\ stack' = [stack EXCEPT ![w] = <<cur[w]>>]
    /\ parked' = [parked EXCEPT ![w] = FALSE]
    /\ sleeps' = [sleeps EXCEPT ![w] = FALSE]
    /\ confirm' = [confirm EXCEPT ![w] = IF wid[w] THEN 0 ELSE @]
    /\ Go(w, "exec")
    /\ UNCHANGED <<program, queues, counters, flags, chan, ip, done, asleep, wid,
                   next, cur, intent, waking, search>>

ResumeUndefined(w) ==
    /\ At(w, "resume")
    /\ ~Untouched(cur[w])
    /\ Go(w, "ub")
    /\ UNCHANGED <<shared, locals>>

(* The instructions of the body.                                            *)
Executing(w, op) == At(w, "exec") /\ Current(Running(w)).op = op
Advance(w) == ip' = [ip EXCEPT ![Running(w)] = @ + 1]

\* qi_coro_yield_ready and qi_coro_sleep, then the frame suspends.
ExecYield(w) ==
    /\ Executing(w, "yield") \/ Executing(w, "sleep")
    /\ sleeps' = [sleeps EXCEPT ![w] = (Current(Running(w)).op = "sleep")]
    /\ Advance(w)
    /\ Go(w, "suspend")
    /\ UNCHANGED <<program, queues, counters, flags, chan, frame, done, asleep,
                   wid, next, cur, stack, parked, intent, confirm, waking, search>>

\* qi_coro_await_poll: an unfinished future makes the awaiting frame yield
\* and poll again.
ExecAwait(w) ==
    /\ Executing(w, "await")
    /\ IF done[Current(Running(w)).co]
       THEN Advance(w) /\ UNCHANGED <<pc, sleeps>>
       ELSE /\ Go(w, "suspend")
            /\ sleeps' = [sleeps EXCEPT ![w] = FALSE]
            /\ UNCHANGED ip
    /\ UNCHANGED <<program, queues, counters, flags, chan, frame, done, asleep,
                   wid, next, cur, stack, parked, intent, confirm, waking, search>>

\* The body ends: the frame is at its final suspension point.
ExecReturn(w) ==
    /\ Executing(w, "return")
    /\ frame' = [frame EXCEPT ![Running(w)] = "final"]
    /\ Go(w, "suspend")
    /\ UNCHANGED <<program, queues, counters, flags, chan, ip, done, asleep,
                   locals>>

\* The ramp of a new coroutine runs at once, on top of the running frame.
StartRamp(w, c) ==
    /\ frame[c] = "none"
    /\ frame' = [frame EXCEPT ![c] = "executing"]
    /\ stack' = [stack EXCEPT ![w] = Append(@, c)]
    /\ Go(w, "exec")
    /\ UNCHANGED <<program, queues, counters, flags, chan, done, asleep, wid, next,
                   cur, parked, sleeps, intent, confirm, waking, search>>

ExecSpawn(w) ==
    /\ Executing(w, "spawn")
    /\ StartRamp(w, Current(Running(w)).co)
    /\ Advance(w)

\* Hand the owed wake-ups over to the Wake steps, then go on at p.
ThenWake(w, cs, p) ==
    /\ wakes' = [wakes EXCEPT ![w] = cs]
    /\ ret' = [ret EXCEPT ![w] = p]
    /\ Go(w, IF cs = <<>> THEN p ELSE "wake")

\* What no channel operation changes.
ChannelFrame ==
    UNCHANGED <<program, queues, counters, flags, frame, done, asleep, wid, next,
                cur, stack, sleeps, confirm, search>>

\* qi_coro_chan_try_send; a full channel makes the generated code park.
ExecSend(w) ==
    LET i == Current(Running(w))
    IN  /\ Executing(w, "send")
        /\ IF Room(chan[i.ch], Cap[i.ch])
           THEN /\ chan' = [chan EXCEPT ![i.ch] = Pushed(@, i.val)]
                /\ Advance(w)
                /\ ThenWake(w, PushWakes(chan[i.ch]), "exec")
           ELSE Go(w, "parkSend") /\ UNCHANGED <<chan, ip, waking>>
        /\ ChannelFrame /\ UNCHANGED <<parked, intent>>

\* qi_coro_chan_park_send: looks again under the mutex; with room it sends
\* and does not park.  In a ramp run by the main thread only the intent is
\* kept; inside another coroutine it is CURRENT, the spawner, that parks.
ParkSend(w) ==
    LET i == Current(Running(w))
        room == Room(chan[i.ch], Cap[i.ch])
    IN  /\ At(w, "parkSend") /\ i.op = "send"
        /\ Advance(w)
        /\ \/ /\ room
              /\ chan' = [chan EXCEPT ![i.ch] = Pushed(@, i.val)]
              /\ ThenWake(w, PushWakes(chan[i.ch]), "suspend")
              /\ UNCHANGED <<parked, intent>>
           \/ /\ ~room /\ cur[w] = None
              /\ intent' = [intent EXCEPT ![w] =
                              [kind |-> "send", ch |-> i.ch, val |-> i.val]]
              /\ Go(w, "suspend")
              /\ UNCHANGED <<chan, parked, waking>>
           \/ /\ ~room /\ cur[w] # None
              /\ chan' = [chan EXCEPT ![i.ch] = ParkedSender(@, cur[w], i.val)]
              /\ parked' = [parked EXCEPT ![w] = TRUE]
              /\ Go(w, "suspend")
              /\ UNCHANGED <<intent, waking>>
        /\ ChannelFrame

\* qi_coro_chan_try_recv; an empty channel makes the generated code park.
ExecRecv(w) ==
    LET i == Current(Running(w))
    IN  /\ Executing(w, "recv")
        /\ IF chan[i.ch].buf # <<>>
           THEN /\ chan' = [chan EXCEPT ![i.ch] = Popped(@)]
                /\ Advance(w)
                /\ ThenWake(w, PopWakes(chan[i.ch]), "exec")
           ELSE Go(w, "parkRecv") /\ UNCHANGED <<chan, ip, waking>>
        /\ ChannelFrame /\ UNCHANGED <<parked, intent>>

\* qi_coro_chan_park_recv: "look" says whether the buffer is looked at again
\* under the mutex; a value that slipped in makes the frame suspend without
\* parking.  The receive is tried again when the frame is resumed.
ParkRecvLooking(w, look) ==
    LET i == Current(Running(w))
        empty == ~look \/ chan[i.ch].buf = <<>>
    IN  /\ At(w, "parkRecv") /\ i.op = "recv"
        /\ \/ /\ ~empty
              /\ UNCHANGED <<chan, parked, intent>>
           \/ /\ empty /\ cur[w] = None
              /\ intent' = [intent EXCEPT ![w] = [kind |-> "recv", ch |-> i.ch]]
              /\ UNCHANGED <<chan, parked>>
           \/ /\ empty /\ cur[w] # None
              /\ chan' = [chan EXCEPT ![i.ch] = ParkedReceiver(@, cur[w])]
              /\ parked' = [parked EXCEPT ![w] = TRUE]
              /\ UNCHANGED intent
        /\ Go(w, "suspend")
        /\ ChannelFrame /\ UNCHANGED <<ip, waking>>

\* Wrong variant: parks without looking again.
ParkRecvAtOnce(w) == ParkRecvLooking(w, FALSE)

ParkRecv(w) == ParkRecvLooking(w, TRUE)

-----------------------------------------------------------------------------
(* wake: into the NEXT slot if it is free, else into the local queue; from  *)
(* a thread that is no worker, into the global queue.                       *)
Waking(w) ==
    /\ At(w, "wake")
    /\ asleep' = [asleep EXCEPT ![Head(wakes[w])] = FALSE]
    /\ wakes' = [wakes EXCEPT ![w] = Tail(@)]
    /\ UNCHANGED <<program, schedulable, running, live, flags, chan, frame, ip,
                   done, wid, cur, stack, parked, sleeps, intent, confirm, ret,
                   search>>

WakeNext(w) ==
    /\ Waking(w)
    /\ wid[w] /\ next[w] = None
    /\ handoff' = handoff + 1
    /\ next' = [next EXCEPT ![w] = Head(wakes[w])]
    /\ Go(w, IF Len(wakes[w]) = 1 THEN ret[w] ELSE "wake")
    /\ UNCHANGED queues

WakeLocal(w) ==
    /\ Waking(w)
    /\ wid[w] /\ next[w] # None
    /\ localLock[w] = Free
    /\ localq' = [localq EXCEPT ![w] = Append(@, Head(wakes[w]))]
    /\ Go(w, "woken")
    /\ UNCHANGED <<ready, readyLock, localLock, handoff, next>>

WakeGlobal(w) ==
    /\ Waking(w)
    /\ ~wid[w]
    /\ readyLock = Free
    /\ ready' = Append(ready, Head(wakes[w]))
    /\ Go(w, "woken")
    /\ UNCHANGED <<readyLock, localq, localLock, handoff, next>>

\* The increment that follows a push, made after the queue's mutex is free.
WokenCount(w) ==
    /\ At(w, "woken")
    /\ schedulable' = schedulable + 1
    /\ Go(w, IF wakes[w] = <<>> THEN ret[w] ELSE "wake")
    /\ UNCHANGED <<program, queues, running, handoff, live, flags, chan, coros,
                   locals>>

-----------------------------------------------------------------------------
(* The frame suspends: control is back in run_one, or, at the end of a      *)
(* ramp, in the spawner, which calls qi_coro_spawn.                         *)
Suspend(w) ==
    /\ At(w, "suspend")
    /\ frame' = [frame EXCEPT ![Running(w)] =
                   IF @ = "final" THEN @ ELSE "suspended"]
    /\ IF Len(stack[w]) = 1 /\ cur[w] # None
       THEN Go(w, "after") /\ stack' = [stack EXCEPT ![w] = <<>>]
       ELSE Go(w, "spawned") /\ UNCHANGED stack
    /\ UNCHANGED <<program, queues, counters, flags, chan, ip, done, asleep, wid,
                   next, cur, parked, sleeps, intent, confirm, waking, search>>

\* The frame at its end: the value is kept and the frame destroyed.
Complete(c) ==
    /\ frame[c] = "final"
    /\ done' = [done EXCEPT ![c] = TRUE]
    /\ frame' = [frame EXCEPT ![c] = "destroyed"]
    /\ UNCHANGED <<prog, queues, counters, flags, chan, ip, asleep, wid, next,
                   parked, sleeps, intent, confirm, waking, search>>

\* run_one is over with the coroutine.
Release(w, p) ==
    /\ Go(w, p)
    /\ cur' = [cur EXCEPT ![w] = None]
    /\ UNCHANGED <<mainIp, stack>>

AfterDone(w) ==
    /\ At(w, "after")
    /\ Complete(cur[w])
    /\ Release(w, "fin1")

Fin1(w) ==
    /\ At(w, "fin1")
    /\ running' = running - 1
    /\ Go(w, "fin2")
    /\ UNCHANGED <<program, queues, schedulable, handoff, live, flags, chan, coros,
                   locals>>

\* The last live coroutine to finish broadcasts the shutdown.
Fin2(w) ==
    /\ At(w, "fin2")
    /\ live' = live - 1
    /\ shutdown' = (shutdown \/ live - 1 <= 0)
    /\ Go(w, LoopHead(w))
    /\ UNCHANGED <<program, queues, schedulable, running, handoff, deadlock, chan,
                   coros, locals>>

\* Parked on a channel: not queued again.
AfterParked(w) ==
    /\ At(w, "after")
    /\ frame[cur[w]] = "suspended"
    /\ parked[w]
    /\ running' = running - 1
    /\ Release(w, LoopHead(w))
    /\ UNCHANGED <<prog, queues, schedulable, handoff, live, flags, chan, coros, wid,
                   next, parked, sleeps, intent, confirm, waking, search>>

\* The coroutine goes to the end of the ready queue.
PushReady(w, c) ==
    /\ frame[c] = "suspended"
    /\ readyLock = Free
    /\ ready' = Append(ready, c)
    /\ asleep' = [asleep EXCEPT ![c] = sleeps[w]]
    /\ UNCHANGED <<prog, readyLock, localq, localLock, schedulable, running,
                   handoff, flags, chan, frame, ip, done, wid, next, parked,
                   sleeps, intent, confirm, waking, search>>

\* Wrong variant: queued again although it parked itself.
AfterRequeueParked(w) ==
    /\ At(w, "after")
    /\ PushReady(w, cur[w])
    /\ Release(w, "requeued")
    /\ UNCHANGED live

\* Still runnable: queued again before RUNNING is lowered.
AfterRequeue(w) ==
    /\ At(w, "after")
    /\ ~parked[w]
    /\ PushReady(w, cur[w])
    /\ Release(w, "requeued")
    /\ UNCHANGED live

RequeuedCount(w) ==
    /\ At(w, "requeued")
    /\ schedulable' = schedulable + 1
    /\ Go(w, "running")
    /\ UNCHANGED <<program, queues, running, handoff, live, flags, chan, coros,
                   locals>>

RequeuedStop(w) ==
    /\ At(w, "running")
    /\ running' = running - 1
    /\ Go(w, LoopHead(w))
    /\ UNCHANGED <<program, queues, schedulable, handoff, live, flags, chan, coros,
                   locals>>

-----------------------------------------------------------------------------
(* qi_coro_spawn, called with the handle the ramp returned.                 *)

\* The ramp's frame leaves the stack: back to the spawning body, or to main.
SpawnReturn(w) ==
    LET s == Front(stack[w])
    IN  /\ stack' = [stack EXCEPT ![w] = s]
        /\ Go(w, IF s = <<>> THEN "main" ELSE "exec")
        /\ mainIp' = IF s = <<>> THEN mainIp + 1 ELSE mainIp
        /\ UNCHANGED cur

\* The body ran to its end within the ramp: it is never scheduled.
SpawnedDone(w) ==
    /\ At(w, "spawned")
    /\ Complete(Running(w))
    /\ SpawnReturn(w)

\* The ramp wanted to park: straight to the channel's waiter list; "born" is
\* what LIVE is raised by.
SpawnedParkedLive(w, born) ==
    LET c == Running(w)
        i == intent[w]
    IN  /\ At(w, "spawned")
        /\ frame[c] = "suspended"
        /\ i # NoIntent
        /\ live' = live + born
        /\ chan' = [chan EXCEPT ![i.ch] =
                      IF i.kind = "recv" THEN ParkedReceiver(@, c)
                      ELSE ParkedSender(@, c, i.val)]
        /\ asleep' = [asleep EXCEPT ![c] = sleeps[w]]
        /\ intent' = [intent EXCEPT ![w] = NoIntent]
        /\ SpawnReturn(w)
        /\ UNCHANGED <<prog, queues, schedulable, running, handoff, flags, frame, ip,
                       done, wid, next, parked, sleeps, confirm, waking, search>>

\* Wrong variant: a coroutine born parked is not counted in LIVE.
SpawnedParkedUncounted(w) == SpawnedParkedLive(w, 0)

SpawnedParked(w) == SpawnedParkedLive(w, 1)

SpawnedReady(w) ==
    /\ At(w, "spawned")
    /\ intent[w] = NoIntent
    /\ live' = live + 1
    /\ PushReady(w, Running(w))
    /\ Go(w, "spawnedQ")
    /\ UNCHANGED <<mainIp, cur, stack>>

SpawnedCount(w) ==
    /\ At(w, "spawnedQ")
    /\ schedulable' = schedulable + 1
    /\ SpawnReturn(w)
    /\ UNCHANGED <<prog, queues, running, handoff, live, flags, chan, coros, wid,
                   next, parked, sleeps, intent, confirm, waking, search>>

-----------------------------------------------------------------------------
(* qi_coro_cancel, from a coroutine or from the main thread.                *)
MainCalls(w, op) ==
    w = 0 /\ At(w, "main") /\ mainIp <= Len(prog.main)
    /\ prog.main[mainIp].op = op

Cancelling(w) == Executing(w, "cancel") \/ MainCalls(w, "cancel")

CancelTarget(w) ==
    IF stack[w] = <<>> THEN prog.main[mainIp].co ELSE Current(Running(w)).co

\* The call returns to the body or to main.
CancelReturn(w) ==
    /\ IF stack[w] = <<>>
       THEN Go(w, "main") /\ mainIp' = mainIp + 1 /\ UNCHANGED ip
       ELSE Go(w, "exec") /\ Advance(w) /\ UNCHANGED mainIp
    /\ UNCHANGED <<prog, queues, schedulable, running, handoff, flags, chan, frame,
                   done, asleep, locals>>

CancelNothing(w) ==
    /\ Cancelling(w)
    /\ done[CancelTarget(w)]
    /\ CancelReturn(w)
    /\ UNCHANGED live

\* Only the global queue is searched; a coroutine is there at most once.
\* "counted" is what SCHEDULABLE is lowered by.
CancelDequeueCounting(w, counted) ==
    LET Found == {i \in 1..Len(ready) : ready[i] = CancelTarget(w)}
    IN  /\ Cancelling(w)
        /\ ~done[CancelTarget(w)]
        /\ readyLock = Free
        /\ \/ Found = {} /\ UNCHANGED <<ready, schedulable>>
           \/ \E i \in Found : /\ ready' = RemoveAt(ready, i)
                               /\ schedulable' = schedulable - counted
        /\ Go(w, "destroy")
        /\ UNCHANGED <<program, readyLock, localq, localLock, running, handoff,
                       live, flags, chan, coros, locals>>

\* Wrong variant: SCHEDULABLE keeps counting what cancel removed.
CancelDequeueUncounted(w) == CancelDequeueCounting(w, 0)

CancelDequeue(w) == CancelDequeueCounting(w, 1)

\* Destroying a frame a thread is running or looking at is undefined.
CancelDestroy(w) ==
    LET t == CancelTarget(w)
    IN  /\ At(w, "destroy")
        /\ IF Untouched(t)
           THEN /\ frame' = [frame EXCEPT ![t] = "destroyed"]
                /\ done' = [done EXCEPT ![t] = TRUE]
                /\ Go(w, "unlive")
           ELSE Go(w, "ub") /\ UNCHANGED <<frame, done>>
        /\ UNCHANGED <<program, queues, counters, flags, chan, ip, asleep, locals>>

\* Wrong variant: a cancelled coroutine stays counted in LIVE.
CancelStaysLive(w) ==
    /\ At(w, "unlive")
    /\ CancelReturn(w)
    /\ UNCHANGED live

CancelUncount(w) ==
    /\ At(w, "unlive")
    /\ live' = live - 1
    /\ CancelReturn(w)

-----------------------------------------------------------------------------
(* The main thread.                                                         *)
MainSpawn ==
    /\ MainCalls(0, "spawn")
    /\ StartRamp(0, prog.main[mainIp].co)
    /\ UNCHANGED ip

\* qi_coro_run_all: the calling thread becomes worker 0, the others start
\* with fresh thread-locals.
MainRun ==
    /\ MainCalls(0, "run")
    /\ shutdown' = FALSE /\ deadlock' = FALSE
    /\ pc' = [w \in Workers |-> "top"]
    /\ wid' = [w \in Workers |-> TRUE]
    /\ UNCHANGED <<program, queues, counters, chan, coros, next, cur, stack, parked,
                   sleeps, intent, confirm, waking, search>>

\* All workers joined.  Their thread-locals are gone with them.
MainJoin ==
    /\ \A w \in Workers : At(w, "stopped")
    /\ pc' = [w \in Workers |-> IF w = 0 THEN "main" ELSE "off"]
    /\ wid' = [w \in Workers |-> FALSE]
    /\ next' = [w \in Workers |-> IF w = 0 THEN next[w] ELSE None]
    /\ confirm' = [w \in Workers |-> IF w = 0 THEN confirm[w] ELSE 0]
    /\ mainIp' = mainIp + 1
    /\ UNCHANGED <<prog, queues, counters, flags, chan, coros, cur, stack, parked,
                   sleeps, intent, waking, search>>

\* qi_coro_run_until_done, called at the start of the await functions.
MainAwait ==
    /\ MainCalls(0, "await")
    /\ Go(0, "sync")
    /\ UNCHANGED <<shared, locals>>

SyncTop(w) ==
    /\ At(w, "sync")
    /\ IF done[prog.main[mainIp].co]
       THEN Go(w, "main") /\ mainIp' = mainIp + 1
       ELSE Go(w, "pick") /\ UNCHANGED mainIp
    /\ UNCHANGED <<prog, queues, counters, flags, chan, coros, locals>>

MainEnd ==
    /\ At(0, "main")
    /\ mainIp > Len(prog.main)
    /\ Go(0, "end")
    /\ UNCHANGED <<shared, locals>>

-----------------------------------------------------------------------------
Pick(w) ==
    \/ PickNext(w) \/ HandoffTaken(w) \/ PickLocal(w) \/ PickGlobal(w)
    \/ Uncount(w) \/ Count(w) \/ ScanTake(w) \/ ScanMiss(w)
    \/ StealSkip(w) \/ StealLock(w) \/ StealMove(w) \/ StealMiss(w)

Idle(w) ==
    \/ LoopTop(w) \/ SyncTop(w) \/ TimerSleep(w) \/ SyncNone(w) \/ IdleLock(w)
    \/ CheckLive(w) \/ CheckRunning(w) \/ CheckHandoff(w) \/ IdleWait(w)

Exec(w) ==
    \/ ExecYield(w) \/ ExecAwait(w) \/ ExecReturn(w) \/ ExecSpawn(w)
    \/ ExecSend(w) \/ ParkSend(w) \/ ExecRecv(w) \/ ParkRecv(w)
    \/ WakeNext(w) \/ WakeLocal(w) \/ WakeGlobal(w) \/ WokenCount(w)
    \/ CancelNothing(w) \/ CancelDequeue(w) \/ CancelDestroy(w)
    \/ CancelUncount(w)

RunOne(w) ==
    \/ Resume(w) \/ ResumeUndefined(w) \/ Suspend(w) \/ AfterDone(w) \/ Fin1(w)
    \/ Fin2(w) \/ AfterParked(w) \/ AfterRequeue(w) \/ RequeuedCount(w)
    \/ RequeuedStop(w)
    \/ SpawnedDone(w) \/ SpawnedParked(w) \/ SpawnedReady(w) \/ SpawnedCount(w)

Main == MainSpawn \/ MainRun \/ MainJoin \/ MainAwait \/ MainEnd

\* The wake-up time of a sleeping coroutine passes.
TimePasses(c) ==
    /\ asleep[c]
    /\ asleep' = [asleep EXCEPT ![c] = FALSE]
    /\ UNCHANGED <<program, queues, counters, flags, chan, frame, ip, done, pc,
                   locals>>

\* No frame has been resumed or destroyed while a thread was using it.
Defined == \A w \in Workers : ~At(w, "ub")

\* The process has ended, or its behaviour is no longer defined.
Terminated == (At(0, "end") \/ ~Defined) /\ UNCHANGED vars

Step(w) == Pick(w) \/ Idle(w) \/ Exec(w) \/ RunOne(w)

Next ==
    \/ /\ Defined
       /\ \/ \E w \in Workers : Step(w)
          \/ Main
          \/ \E c \in Coros : TimePasses(c)
    \/ Terminated

Spec == Init /\ [][Next]_vars

\* Each thread is scheduled by the operating system, and time goes on.
Fairness ==
    /\ \A w \in Workers : WF_vars(Defined /\ Step(w))
    /\ WF_vars(Defined /\ Main)
    /\ \A c \in Coros : WF_vars(Defined /\ TimePasses(c))

FairSpec == Spec /\ Fairness
=============================================================================
