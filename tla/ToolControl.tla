---------------------------- MODULE ToolControl -----------------------------
(* src/src/tool_control.rs: the control of a tool's execution, shared by the *)
(* thread that runs the tool and those that cancel it, follow its progress  *)
(* and wait for its end.                                                    *)
(*                                                                          *)
(* A step is a region under a mutex, or one load or store of an atomic.  A  *)
(* control's mutex is a variable because its two atomic flags are read and  *)
(* written while it is held; the registry's is held for one step each time. *)
EXTENDS Callers, Integers, Sequences, FiniteSets

CONSTANTS
    May,            \* the functions they call
    Deadlines,      \* what create is given: "none", "ahead" or both
    Capacities,     \* of a control's progress queue
    MaxGeneration,  \* 0x7fffffff in the code
    MaxControls,    \* bound: controls created
    MaxPushes       \* bound: progress reports per control

ASSUME CreateAssumption ==
    Deadlines \subseteq {"none", "ahead"} /\ Capacities \subseteq Nat
ASSUME GenerationAssumption == MaxGeneration \in Nat \ {0}
ASSUME BoundsAssumption == MaxControls \in Nat /\ MaxPushes \in Nat

Ops == {"create", "release", "cancel", "finish", "look", "wait", "push", "pop"}

ASSUME MayAssumption == May \subseteq Ops

\* A control is its number in the order of creation.
Controls == 1..MaxControls

Reasons == {"caller", "deadline", "released"}

VARIABLES
    \* the registry
    made,        \* controls created
    slots,       \* [generation, control], control 0 when the slot is free
    free,        \* free slots, the last one is used next
    \* of each control
    handle,      \* the handle create returned
    capacity,
    deadline,    \* "none", "ahead" or "passed"
    cancelled, finished,   \* the atomic flags
    reason, finish,        \* what was recorded under the mutex
    dataLock,    \* holder of the mutex
    progress,    \* queued reports, which are numbered
    pushed, popped, dropped,
    \* of each thread
    thread       \* its call, Idle between calls:
                 \*   at    position
                 \*   on    the control it holds
                 \*   why   reason of its cancel
                 \*   then  position after a cancel or a notification
                 \*   limit of its wait: "never", "ahead" or "passed"

registry == <<made, slots, free, handle, capacity>>
outcome == <<cancelled, finished, reason, finish, dataLock>>
reports == <<progress, pushed, popped, dropped>>
vars == <<registry, deadline, outcome, reports, thread>>

Idle == [at |-> "idle", on |-> 0, why |-> "caller", then |-> "idle",
         limit |-> "never"]

NoHandle == [slot |-> 0, generation |-> 0]

Init ==
    /\ made = 0 /\ slots = <<>> /\ free = <<>>
    /\ handle = [k \in Controls |-> NoHandle]
    /\ capacity = [k \in Controls |-> 0]
    /\ deadline = [k \in Controls |-> "none"]
    /\ cancelled = [k \in Controls |-> FALSE]
    /\ finished = [k \in Controls |-> FALSE]
    /\ reason = [k \in Controls |-> "none"]
    /\ finish = [k \in Controls |-> None]
    /\ dataLock = [k \in Controls |-> None]
    /\ progress = [k \in Controls |-> <<>>]
    /\ pushed = [k \in Controls |-> 0] /\ popped = [k \in Controls |-> 0]
    /\ dropped = [k \in Controls |-> 0]
    /\ thread = [t \in Threads |-> Idle]

At(t, p) == thread[t].at = p
On(t) == thread[t].on

Moved(t, p) == IF p = "idle" THEN Idle ELSE [thread[t] EXCEPT !.at = p]
Go(t, p) == thread' = [thread EXCEPT ![t] = Moved(t, p)]
Unlocked(k) == dataLock[k] = None

-----------------------------------------------------------------------------
(* The registry.                                                            *)

\* create: the slot that was freed last, or a new one.
Create(t) ==
    \E d \in Deadlines, n \in Capacities :
        LET k == made + 1
            entry(g) == [generation |-> g, control |-> k]
        IN  /\ At(t, "idle") /\ "create" \in May
            /\ made < MaxControls
            /\ made' = k
            /\ deadline' = [deadline EXCEPT ![k] = d]
            /\ capacity' = [capacity EXCEPT ![k] = n]
            /\ \/ /\ free # <<>>
                  /\ LET s == free[Len(free)]
                         g == slots[s].generation
                     IN  /\ free' = SubSeq(free, 1, Len(free) - 1)
                         /\ slots' = [slots EXCEPT ![s] = entry(g)]
                         /\ handle' = [handle EXCEPT ![k] =
                                          [slot |-> s, generation |-> g]]
               \/ /\ free = <<>>
                  /\ slots' = Append(slots, entry(1))
                  /\ handle' = [handle EXCEPT ![k] =
                                   [slot |-> Len(slots) + 1, generation |-> 1]]
                  /\ UNCHANGED free
            /\ UNCHANGED <<outcome, reports, thread>>

\* What a handle reaches: the control in its slot, if the generation is the
\* slot's.
Reaches(h) ==
    IF slots[h.slot].generation = h.generation THEN slots[h.slot].control ELSE 0

\* The function op is called with the handle of control k and goes on at p
\* with the control it reaches; otherwise it returns "stale" and changes
\* nothing.
Lookup(t, op, k, p, why, limit) ==
    /\ At(t, "idle") /\ op \in May
    /\ Reaches(handle[k]) # 0
    /\ thread' = [thread EXCEPT ![t] =
                     [at |-> p, on |-> Reaches(handle[k]), why |-> why,
                      then |-> "idle", limit |-> limit]]

Begin(t, op) ==
    /\ \E k \in 1..made : Lookup(t, op, k, op, "caller", "never")
    /\ UNCHANGED <<registry, deadline, outcome, reports>>

NextGeneration(g) == IF g = MaxGeneration THEN 1 ELSE g + 1

\* Wrong variant: the slot keeps its generation.
ReleaseSameGeneration(t) ==
    \E k \in 1..made :
        LET s == handle[k].slot
        IN  /\ Lookup(t, "release", k, "cancel", "released", "never")
            /\ slots' = [slots EXCEPT ![s].control = 0]
            /\ free' = Append(free, s)
            /\ UNCHANGED <<made, handle, capacity, deadline, outcome, reports>>

\* Wrong variant: the control goes, and nobody who waits for it is told.
ReleaseSilently(t) ==
    \E k \in 1..made :
        LET s == handle[k].slot
        IN  /\ At(t, "idle")
            /\ Reaches(handle[k]) # 0
            /\ slots' = [slots EXCEPT ![s] =
                   [generation |-> NextGeneration(@.generation), control |-> 0]]
            /\ free' = Append(free, s)
            /\ UNCHANGED <<made, handle, capacity, deadline, outcome, reports,
                           thread>>

\* Wrong variant: nobody looks whether the slot is in use.
ReleaseTwice(t) ==
    \E k \in 1..made :
        LET s == handle[k].slot
        IN  /\ At(t, "idle") /\ "release" \in May
            /\ slots' = [slots EXCEPT ![s] =
                   [generation |-> NextGeneration(@.generation), control |-> 0]]
            /\ free' = Append(free, s)
            /\ UNCHANGED <<made, handle, capacity, deadline, outcome, reports,
                           thread>>

\* release: the handle is stale at once; then the control is cancelled.
Release(t) ==
    \E k \in 1..made :
        LET s == handle[k].slot
        IN  /\ Lookup(t, "release", k, "cancel", "released", "never")
            /\ slots' = [slots EXCEPT ![s] =
                   [generation |-> NextGeneration(@.generation), control |-> 0]]
            /\ free' = Append(free, s)
            /\ UNCHANGED <<made, handle, capacity, deadline, outcome, reports>>

-----------------------------------------------------------------------------
(* Cancel and finish.                                                       *)
BeginCancel(t) == Begin(t, "cancel")

Control == UNCHANGED <<registry, deadline, reports>>

\* Wrong variant: the flag decides before the mutex is taken.
CancelFlagFirst(t) ==
    /\ At(t, "cancel")
    /\ IF cancelled[On(t)]
       THEN Go(t, thread[t].then) /\ UNCHANGED cancelled
       ELSE /\ Go(t, "record")
            /\ cancelled' = [cancelled EXCEPT ![On(t)] = TRUE]
    /\ UNCHANGED <<finished, reason, finish, dataLock>> /\ Control

\* Wrong variant: the last cancel wins.
CancelAgain(t) ==
    /\ At(t, "cancel")
    /\ Unlocked(On(t))
    /\ Go(t, "record")
    /\ cancelled' = [cancelled EXCEPT ![On(t)] = TRUE]
    /\ dataLock' = [dataLock EXCEPT ![On(t)] = t]
    /\ UNCHANGED <<finished, reason, finish>> /\ Control

\* The mutex is taken and the flag set, unless a cancel came before.
CancelFlag(t) ==
    /\ At(t, "cancel")
    /\ Unlocked(On(t))
    /\ IF cancelled[On(t)]
       THEN Go(t, thread[t].then) /\ UNCHANGED <<cancelled, dataLock>>
       ELSE /\ Go(t, "record")
            /\ cancelled' = [cancelled EXCEPT ![On(t)] = TRUE]
            /\ dataLock' = [dataLock EXCEPT ![On(t)] = t]
    /\ UNCHANGED <<finished, reason, finish>> /\ Control

\* The reason is recorded and the mutex released.
CancelRecord(t) ==
    /\ At(t, "record")
    /\ reason' = [reason EXCEPT ![On(t)] = thread[t].why]
    /\ dataLock' = [dataLock EXCEPT ![On(t)] = None]
    /\ Go(t, "notify")
    /\ UNCHANGED <<cancelled, finished, finish>> /\ Control

\* notify_all: whoever sleeps on this control will run again.
Notify(t) ==
    /\ At(t, "notify")
    /\ thread' = [u \in Threads |->
                     IF u = t THEN Moved(t, thread[t].then)
                     ELSE IF At(u, "asleep") /\ On(u) = On(t) THEN Moved(u, "woken")
                     ELSE thread[u]]
    /\ UNCHANGED outcome /\ Control

BeginFinish(t) == Begin(t, "finish")

FinishFlag(t) ==
    /\ At(t, "finish")
    /\ Unlocked(On(t))
    /\ IF finished[On(t)]
       THEN Go(t, "idle") /\ UNCHANGED <<finished, dataLock>>
       ELSE /\ Go(t, "finish record")
            /\ finished' = [finished EXCEPT ![On(t)] = TRUE]
            /\ dataLock' = [dataLock EXCEPT ![On(t)] = t]
    /\ UNCHANGED <<cancelled, reason, finish>> /\ Control

\* The record is the finisher's: its code and its result.
FinishRecord(t) ==
    /\ At(t, "finish record")
    /\ finish' = [finish EXCEPT ![On(t)] = t]
    /\ dataLock' = [dataLock EXCEPT ![On(t)] = None]
    /\ Go(t, "notify")
    /\ UNCHANGED <<cancelled, finished, reason>> /\ Control

-----------------------------------------------------------------------------
(* The deadline is noticed by whoever looks: is_cancelled, cancel_reason,   *)
(* remaining_ms and wait.                                                   *)
Overdue(k) == deadline[k] = "passed"

\* A cancel for the deadline if it has passed, then p.
ExpireThen(t, k, p) ==
    IF Overdue(k)
    THEN thread' = [thread EXCEPT ![t] =
                       [@ EXCEPT !.at = "cancel", !.why = "deadline", !.then = p]]
    ELSE Go(t, p)

BeginLook(t) == Begin(t, "look")

\* What it returns is a load, or a read under the mutex, after this.
Look(t) ==
    /\ At(t, "look")
    /\ ExpireThen(t, On(t), "idle")
    /\ UNCHANGED <<registry, deadline, outcome, reports>>

DeadlinePasses(k) ==
    /\ deadline[k] = "ahead"
    /\ deadline' = [deadline EXCEPT ![k] = "passed"]
    /\ UNCHANGED <<registry, outcome, reports, thread>>

-----------------------------------------------------------------------------
(* wait.                                                                    *)
BeginWait(t) ==
    /\ \E k \in 1..made, limit \in {"never", "ahead"} :
           Lookup(t, "wait", k, "wait", "caller", limit)
    /\ UNCHANGED <<registry, deadline, outcome, reports>>

WaitExpire(t) ==
    /\ At(t, "wait")
    /\ ExpireThen(t, On(t), "decide")
    /\ UNCHANGED <<registry, deadline, outcome, reports>>

TimeoutPasses(t) ==
    /\ thread[t].limit = "ahead"
    /\ thread' = [thread EXCEPT ![t].limit = "passed"]
    /\ UNCHANGED <<registry, deadline, outcome, reports>>

Ended(k) == finish[k] # None \/ reason[k] # "none"

\* One turn of the loop with the mutex held: return, go and cancel for the
\* deadline, or sleep with the mutex released.
Decide(t) ==
    /\ IF Ended(On(t)) \/ thread[t].limit = "passed" THEN Go(t, "idle")
       ELSE IF Overdue(On(t)) THEN ExpireThen(t, On(t), "decide")
       ELSE Go(t, "asleep")
    /\ UNCHANGED <<registry, deadline, outcome, reports>>

WaitDecide(t) == At(t, "decide") /\ Unlocked(On(t)) /\ Decide(t)

\* The sleep is bounded by the timeout and the deadline.
SleepEnds(t) ==
    /\ At(t, "asleep")
    /\ thread[t].limit = "passed" \/ Overdue(On(t))
    /\ Go(t, "woken")
    /\ UNCHANGED <<registry, deadline, outcome, reports>>

\* It may end for no reason.
WakesSpuriously(t) ==
    /\ At(t, "asleep")
    /\ Go(t, "woken")
    /\ UNCHANGED <<registry, deadline, outcome, reports>>

\* Awake, with the mutex again: the deadline first, then the loop's next turn.
WaitWoken(t) ==
    /\ At(t, "woken")
    /\ Unlocked(On(t))
    /\ IF Overdue(On(t)) /\ reason[On(t)] = "none"
       THEN /\ ExpireThen(t, On(t), "decide")
            /\ UNCHANGED <<registry, deadline, outcome, reports>>
       ELSE Decide(t)

-----------------------------------------------------------------------------
(* Progress.                                                                *)
BeginPush(t) ==
    /\ \E k \in 1..made : /\ Lookup(t, "push", k, "push", "caller", "never")
                         /\ pushed[Reaches(handle[k])] < MaxPushes
    /\ UNCHANGED <<registry, deadline, outcome, reports>>

\* Wrong variant: the newest report is dropped.
PushOrDrop(t) ==
    LET k == On(t)
    IN  /\ At(t, "push")
        /\ Unlocked(k)
        /\ pushed' = [pushed EXCEPT ![k] = @ + 1]
        /\ IF Len(progress[k]) = capacity[k]
           THEN /\ dropped' = [dropped EXCEPT ![k] = @ + 1]
                /\ UNCHANGED progress
           ELSE /\ progress' = [progress EXCEPT ![k] = Append(@, pushed[k] + 1)]
                /\ UNCHANGED dropped
        /\ Go(t, "notify")
        /\ UNCHANGED <<registry, deadline, outcome, popped>>

\* A full queue drops its oldest report; a queue of capacity 0 keeps none.
Push(t) ==
    LET k == On(t)
        full == Len(progress[k]) = capacity[k]
    IN  /\ At(t, "push")
        /\ Unlocked(k)
        /\ pushed' = [pushed EXCEPT ![k] = @ + 1]
        /\ dropped' = [dropped EXCEPT ![k] = IF full THEN @ + 1 ELSE @]
        /\ IF capacity[k] = 0
           THEN Go(t, "idle") /\ UNCHANGED progress
           ELSE /\ Go(t, "notify")
                /\ progress' = [progress EXCEPT ![k] =
                       Append(IF full THEN Tail(@) ELSE @, pushed[k] + 1)]
        /\ UNCHANGED <<registry, deadline, outcome, popped>>

BeginPop(t) == Begin(t, "pop")

Pop(t) ==
    LET k == On(t)
    IN  /\ At(t, "pop")
        /\ Unlocked(k)
        /\ IF progress[k] = <<>>
           THEN UNCHANGED <<progress, popped>>
           ELSE /\ progress' = [progress EXCEPT ![k] = Tail(@)]
                /\ popped' = [popped EXCEPT ![k] = @ + 1]
        /\ Go(t, "idle")
        /\ UNCHANGED <<registry, deadline, outcome, pushed, dropped>>

-----------------------------------------------------------------------------
Begins(t) ==
    \/ Create(t) \/ Release(t) \/ BeginCancel(t) \/ BeginFinish(t) \/ BeginLook(t)
    \/ BeginWait(t) \/ BeginPush(t) \/ BeginPop(t)

\* A thread goes on with its call.
Runs(t) ==
    \/ CancelFlag(t) \/ CancelRecord(t) \/ Notify(t) \/ FinishFlag(t)
    \/ FinishRecord(t) \/ Look(t) \/ WaitExpire(t) \/ WaitDecide(t) \/ WaitWoken(t)
    \/ SleepEnds(t) \/ Push(t) \/ Pop(t)

Next ==
    \/ \E t \in Threads : \/ Begins(t) \/ Runs(t) \/ TimeoutPasses(t)
                          \/ WakesSpuriously(t)
    \/ \E k \in 1..made : DeadlinePasses(k)

Spec == Init /\ [][Next]_vars

\* Threads are scheduled and bounded sleeps end; time need not pass for
\* anybody, and nobody need call anything.
FairSpec == Spec /\ \A t \in Threads : WF_vars(Runs(t))
=============================================================================
