------------------------------- MODULE Futures -------------------------------
(* src/src/async_runtime/future.rs: a future, the task that ends it, threads *)
(* that await it and state machines that register to be polled.              *)
(*                                                                           *)
(* A step is a region under one of the future's mutexes, or a call of its    *)
(* Notify (external: it wakes all who have subscribed so far).               *)
EXTENDS Callers, Integers

CONSTANTS
    MaxFutures,     \* bound: futures created
    Endings         \* how tasks end theirs: "complete", "fail", or "by hand",
                    \*   the way of the network's tasks

ASSUME FutureAssumption ==
    MaxFutures \in Nat /\ Endings \subseteq {"complete", "fail", "by hand"}

Futs == 1..MaxFutures

VARIABLES
    futMade,        \* futures created
    futResult,      \* value or error, "none" before
    futState,       \* "Pending", "Completed" or "Failed"
    futWakers,      \* sm_wakers: state machines, by the thread they run on
    futTask,        \* the task that ends each future: position and ending
    futThread       \* of each thread: position, its future, whether it was
                    \*   notified, and what it was told

futVars == <<futMade, futResult, futState, futWakers, futTask, futThread>>

FutIdle == [at |-> "idle", on |-> 0, notified |-> FALSE, told |-> "nothing"]

FutInit ==
    /\ futMade = 0
    /\ futResult = [f \in Futs |-> "none"]
    /\ futState = [f \in Futs |-> "Pending"]
    /\ futWakers = [f \in Futs |-> {}]
    /\ futTask = [f \in Futs |-> [at |-> "none", ending |-> "complete"]]
    /\ futThread = [t \in Threads |-> FutIdle]

FutAt(t, p) == futThread[t].at = p

FutGo(t, p) == futThread' = [futThread EXCEPT ![t].at = p]

TaskAt(f, p) == futTask[f].at = p

TaskGo(f, p) == futTask' = [futTask EXCEPT ![f].at = p]

\* An asynchronous function returns a pending future and spawns its task.
FutCreate(t) ==
    /\ FutAt(t, "idle") /\ futMade < MaxFutures
    /\ futMade' = futMade + 1
    /\ \E e \in Endings :
          futTask' = [futTask EXCEPT ![futMade + 1] = [at |-> "works", ending |-> e]]
    /\ UNCHANGED <<futResult, futState, futWakers, futThread>>

-----------------------------------------------------------------------------
(* complete and fail: the result first, then the state, then the waiters.    *)
TaskResult(f) ==
    /\ TaskAt(f, "works")
    /\ \E r \in {"value", "error"} :
          /\ futTask[f].ending = "complete" => r = "value"
          /\ futTask[f].ending = "fail" => r = "error"
          /\ futResult' = [futResult EXCEPT ![f] = r]
    /\ TaskGo(f, "state")
    /\ UNCHANGED <<futMade, futState, futWakers, futThread>>

TaskState(f) ==
    /\ TaskAt(f, "state")
    /\ futState' = [futState EXCEPT
           ![f] = IF futResult[f] = "value" THEN "Completed" ELSE "Failed"]
    /\ TaskGo(f, "notify")
    /\ UNCHANGED <<futMade, futResult, futWakers, futThread>>

\* notify_waiters; a task of the network ends here.
TaskNotifies(f) ==
    /\ TaskAt(f, "notify")
    /\ futThread' = [t \in Threads |->
           IF futThread[t].on = f /\ futThread[t].at \in {"subscribed", "looked", "asleep"}
           THEN [futThread[t] EXCEPT !.notified = TRUE] ELSE futThread[t]]
    /\ TaskGo(f, IF futTask[f].ending = "by hand" THEN "over" ELSE "drain")
    /\ UNCHANGED <<futMade, futResult, futState, futWakers>>

\* The wakers are taken, then each state machine is polled: it finds its
\* future ready and goes on.
TaskDrains(f) ==
    /\ TaskAt(f, "drain")
    /\ futThread' = [t \in Threads |->
           IF t \in futWakers[f] THEN FutIdle ELSE futThread[t]]
    /\ futWakers' = [futWakers EXCEPT ![f] = {}]
    /\ TaskGo(f, "over")
    /\ UNCHANGED <<futMade, futResult, futState>>

-----------------------------------------------------------------------------
(* await_value: subscribe, look, sleep, and again.                           *)
FutAwait(t) ==
    /\ FutAt(t, "idle")
    /\ \E f \in 1..futMade : futThread' =
          [futThread EXCEPT ![t] = [FutIdle EXCEPT !.at = "await", !.on = f]]
    /\ UNCHANGED <<futMade, futResult, futState, futWakers, futTask>>

FutSubscribe(t) ==
    /\ FutAt(t, "await")
    /\ futThread' = [futThread EXCEPT ![t].at = "subscribed", ![t].notified = FALSE]
    /\ UNCHANGED <<futMade, futResult, futState, futWakers, futTask>>

\* With the state's mutex held the result is read, when there is one.
FutLook(t) ==
    LET f == futThread[t].on
    IN  /\ FutAt(t, "subscribed")
        /\ futThread' = [futThread EXCEPT ![t] =
               IF futState[f] # "Pending"
               THEN [FutIdle EXCEPT !.on = f, !.told = futResult[f]]
               ELSE [@ EXCEPT !.at = "looked"]]
        /\ UNCHANGED <<futMade, futResult, futState, futWakers, futTask>>

\* Wrong variant: the subscription is the sleep's, after the look.
FutSleepSubscribing(t) ==
    /\ FutAt(t, "looked")
    /\ futThread' = [futThread EXCEPT ![t].at = "asleep", ![t].notified = FALSE]
    /\ UNCHANGED <<futMade, futResult, futState, futWakers, futTask>>

\* The state's mutex is released before the sleep begins.
FutSleep(t) ==
    /\ FutAt(t, "looked")
    /\ FutGo(t, "asleep")
    /\ UNCHANGED <<futMade, futResult, futState, futWakers, futTask>>

FutWakes(t) ==
    /\ FutAt(t, "asleep") /\ futThread[t].notified
    /\ FutGo(t, "await")
    /\ UNCHANGED <<futMade, futResult, futState, futWakers, futTask>>

-----------------------------------------------------------------------------
(* register_sm_waker: of a future that is ready, the state machine is polled *)
(* at once; of a pending one it is put on the list, under another mutex.     *)
FutRegister(t) ==
    /\ FutAt(t, "idle")
    /\ \E f \in 1..futMade : futThread' = [futThread EXCEPT ![t] =
          IF futState[f] # "Pending" THEN FutIdle
          ELSE [FutIdle EXCEPT !.at = "register", !.on = f]]
    /\ UNCHANGED <<futMade, futResult, futState, futWakers, futTask>>

FutPush(t) ==
    LET f == futThread[t].on
    IN  /\ FutAt(t, "register")
        /\ futWakers' = [futWakers EXCEPT ![f] = @ \cup {t}]
        /\ FutGo(t, "suspended")
        /\ UNCHANGED <<futMade, futResult, futState, futTask>>

-----------------------------------------------------------------------------
FutEnds(f) == TaskState(f) \/ TaskNotifies(f) \/ TaskDrains(f)

FutRuns(t) == FutSubscribe(t) \/ FutLook(t) \/ FutSleep(t) \/ FutWakes(t) \/ FutPush(t)

FutNext ==
    \/ \E t \in Threads :
          FutCreate(t) \/ FutAwait(t) \/ FutRegister(t) \/ FutRuns(t)
    \/ \E f \in Futs : TaskResult(f) \/ FutEnds(f)

-----------------------------------------------------------------------------
FutTypes ==
    /\ futMade \in 0..MaxFutures
    /\ futResult \in [Futs -> {"none", "value", "error"}]
    /\ futState \in [Futs -> {"Pending", "Completed", "Failed"}]
    /\ futWakers \in [Futs -> SUBSET Threads]
    /\ futTask \in [Futs -> [at : {"none", "works", "state", "notify", "drain",
                                   "over"}, ending : {"complete", "fail", "by hand"}]]
    /\ futThread \in [Threads ->
           [at : {"idle", "await", "subscribed", "looked", "asleep", "register",
                  "suspended"},
            on : 0..MaxFutures, notified : BOOLEAN,
            told : {"nothing", "none", "value", "error"}]]

\* "First subscribe, then look at the state: complete() may fire in between"
\* (future.rs:151): who awaits a future whose result is there returns, and is
\* told a result, never the None of a value that was not written yet.
AwaitersReturn ==
    \A t \in Threads :
        (\E f \in Futs : /\ futThread[t].on = f /\ futState[f] # "Pending"
                         /\ futThread[t].at \in {"await", "subscribed", "looked", "asleep"})
        ~> (FutAt(t, "idle") /\ futThread[t].told # "none")

\* "future complete/fail 时自动回调 poll_fn(frame)" (state_machine.rs:91): a state
\* machine that has registered with a future is polled once it has ended.  This
\* does not hold for one that looks at the state before the end and registers
\* after the waiting machines were taken.
MachinesPolled ==
    \A t \in Threads :
        (\E f \in Futs : FutAt(t, "suspended") /\ futThread[t].on = f
                         /\ TaskAt(f, "over"))
        ~> FutAt(t, "idle")
=============================================================================
