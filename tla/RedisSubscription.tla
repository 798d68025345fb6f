-------------------------- MODULE RedisSubscription --------------------------
(* src/src/stdlib/redis_ffi.rs: a subscription.  A thread of its own holds   *)
(* the connection and moves messages to a queue; callers wait for them.      *)
(*                                                                           *)
(* A step is a region under the queue's mutex, or one access to a flag or to *)
(* the connection (external: it delivers, times out or breaks).              *)
EXTENDS Callers, Integers, Sequences

CONSTANTS
    SubQueueLimit,  \* SUB_QUEUE_LIMIT in the code
    MaxMessages     \* bound: messages published

ASSUME RedisAssumption == SubQueueLimit \in Nat \ {0} /\ MaxMessages \in Nat

VARIABLES
    redOpen,        \* the handle is in the registry
    redReader,      \* the thread: position
    redReply,       \* what it said about the subscription: "none", "yes", "no"
    redAlive, redStopping,  \* the two flags
    redQueue,       \* messages, numbered as they arrive
    redArrived,     \* messages that arrived
    redTaken,       \* the last message a caller took
    redThread       \* position of each thread

redVars == <<redOpen, redReader, redReply, redAlive, redStopping, redQueue,
             redArrived, redTaken, redThread>>
redMessages == <<redQueue, redArrived, redTaken>>

RedInit ==
    /\ redOpen = FALSE /\ redReader = "unborn" /\ redReply = "none"
    /\ redAlive = FALSE /\ redStopping = FALSE
    /\ redQueue = <<>> /\ redArrived = 0 /\ redTaken = 0
    /\ redThread = [t \in Threads |-> "idle"]

RedAt(t, p) == redThread[t] = p

RedGo(t, p) == redThread' = [redThread EXCEPT ![t] = p]

\* notify_all wakes the callers that wait for a message.
RedNotified == [t \in Threads |-> IF RedAt(t, "asleep") THEN "woken" ELSE redThread[t]]

-----------------------------------------------------------------------------
(* The callers.                                                              *)
RedSubscribe(t) ==
    /\ RedAt(t, "idle") /\ redReader = "unborn"
    /\ redReader' = "connect"
    /\ RedGo(t, "wait reply")
    /\ UNCHANGED <<redOpen, redReply, redAlive, redStopping, redMessages>>

\* The thread's answer, or ten seconds without one.
RedSubscribed(t) ==
    /\ RedAt(t, "wait reply")
    /\ redOpen' = (redReply = "yes")
    /\ RedGo(t, "idle")
    /\ UNCHANGED <<redReader, redReply, redAlive, redStopping, redMessages>>

RedReceive(t) ==
    /\ RedAt(t, "idle") /\ redOpen
    /\ RedGo(t, "receive")
    /\ UNCHANGED <<redOpen, redReader, redReply, redAlive, redStopping, redMessages>>

RedTake ==
    /\ redQueue # <<>>
    /\ redTaken' = Head(redQueue) /\ redQueue' = Tail(redQueue)

\* An empty queue is waited for once.
RedLook(t) ==
    /\ RedAt(t, "receive")
    /\ \/ RedTake /\ RedGo(t, "idle")
       \/ redQueue = <<>> /\ RedGo(t, "asleep") /\ UNCHANGED <<redQueue, redTaken>>
    /\ UNCHANGED <<redOpen, redReader, redReply, redAlive, redStopping, redArrived>>

\* The time is up, or the wait ends for no reason.
RedTimesOut(t) ==
    /\ RedAt(t, "asleep")
    /\ RedGo(t, "woken")
    /\ UNCHANGED <<redOpen, redReader, redReply, redAlive, redStopping, redMessages>>

RedWoken(t) ==
    /\ RedAt(t, "woken")
    /\ RedTake \/ (redQueue = <<>> /\ UNCHANGED <<redQueue, redTaken>>)
    /\ RedGo(t, "idle")
    /\ UNCHANGED <<redOpen, redReader, redReply, redAlive, redStopping, redArrived>>

\* The handle goes, then the thread is told.
RedUnsubscribe(t) ==
    /\ RedAt(t, "idle") /\ redOpen
    /\ redOpen' = FALSE
    /\ RedGo(t, "stop")
    /\ UNCHANGED <<redReader, redReply, redAlive, redStopping, redMessages>>

RedStop(t) ==
    /\ RedAt(t, "stop")
    /\ redStopping' = TRUE
    /\ RedGo(t, "idle")
    /\ UNCHANGED <<redOpen, redReader, redReply, redAlive, redMessages>>

-----------------------------------------------------------------------------
(* sub_thread.                                                               *)
RedConnects ==
    /\ redReader = "connect"
    /\ \/ redReader' = "reply" /\ redAlive' = TRUE /\ UNCHANGED redReply
       \/ redReader' = "over" /\ redReply' = "no" /\ UNCHANGED redAlive
    /\ UNCHANGED <<redOpen, redStopping, redMessages, redThread>>

RedReplies ==
    /\ redReader = "reply"
    /\ redReply' = "yes" /\ redReader' = "top"
    /\ UNCHANGED <<redOpen, redAlive, redStopping, redMessages, redThread>>

RedTop ==
    /\ redReader = "top"
    /\ redReader' = IF redStopping THEN "leave" ELSE "read"
    /\ UNCHANGED <<redOpen, redReply, redAlive, redStopping, redMessages, redThread>>

\* The read times out, or the connection breaks.
RedReadFails ==
    /\ redReader = "read"
    /\ redReader' \in {"top", "leave"}
    /\ UNCHANGED <<redOpen, redReply, redAlive, redStopping, redMessages, redThread>>

\* Wrong variant: a full queue grows.
RedArrivesKeeping ==
    /\ redReader = "read" /\ redArrived < MaxMessages
    /\ redArrived' = redArrived + 1
    /\ redQueue' = Append(redQueue, redArrived + 1)
    /\ redReader' = "notify"
    /\ UNCHANGED <<redOpen, redReply, redAlive, redStopping, redTaken, redThread>>

\* A full queue loses its oldest message.
RedArrives ==
    /\ redReader = "read" /\ redArrived < MaxMessages
    /\ redArrived' = redArrived + 1
    /\ redQueue' = Append(IF Len(redQueue) >= SubQueueLimit THEN Tail(redQueue)
                          ELSE redQueue, redArrived + 1)
    /\ redReader' = "notify"
    /\ UNCHANGED <<redOpen, redReply, redAlive, redStopping, redTaken, redThread>>

RedNotifies ==
    /\ \/ redReader = "notify" /\ redReader' = "top"
       \/ redReader = "leave" /\ ~redAlive /\ redReader' = "over"
    /\ redThread' = RedNotified
    /\ UNCHANGED <<redOpen, redReply, redAlive, redStopping, redMessages>>

RedLeaves ==
    /\ redReader = "leave" /\ redAlive
    /\ redAlive' = FALSE
    /\ UNCHANGED <<redOpen, redReader, redReply, redStopping, redMessages, redThread>>

-----------------------------------------------------------------------------
RedReads == \/ RedConnects \/ RedReplies \/ RedTop \/ RedReadFails \/ RedNotifies
            \/ RedLeaves

RedRuns(t) == RedLook(t) \/ RedTimesOut(t) \/ RedWoken(t) \/ RedStop(t)

RedNext ==
    \/ \E t \in Threads :
          \/ RedSubscribe(t) \/ RedSubscribed(t) \/ RedReceive(t)
          \/ RedUnsubscribe(t) \/ RedRuns(t)
    \/ RedReads \/ RedArrives

-----------------------------------------------------------------------------
RedTypes ==
    /\ redOpen \in BOOLEAN /\ redAlive \in BOOLEAN /\ redStopping \in BOOLEAN
    /\ redReader \in {"unborn", "connect", "reply", "top", "read", "notify",
                      "leave", "over"}
    /\ redReply \in {"none", "yes", "no"}
    /\ redQueue \in Seq(Nat) /\ Len(redQueue) <= SubQueueLimit
    /\ redArrived \in 0..MaxMessages /\ redTaken \in 0..redArrived
    /\ redThread \in [Threads -> {"idle", "wait reply", "receive", "asleep",
                                  "woken", "stop"}]

\* "The reading thread leaves after at most one more read timeout"
\* (redis_ffi.rs:815): once a subscription was given up, its thread and its
\* connection go, although nothing interrupts the read.
SubscriptionEnds ==
    (\E t \in Threads : RedAt(t, "stop")) ~> redReader = "over"
=============================================================================
