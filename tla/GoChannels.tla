----------------------------- MODULE GoChannels -----------------------------
(* src/src/async_runtime/ffi/mod.rs, channels of the goroutines: a global   *)
(* registry under one mutex, and in each channel an unbounded queue whose   *)
(* receiver has a mutex of its own.                                         *)
(*                                                                          *)
(* The registry's and the receivers' mutexes are variables because a call   *)
(* may wait while it holds one of them; a sender's mutex is held for one    *)
(* step only, because the queue takes any value at once.                    *)
EXTENDS Callers, Integers

CONSTANTS
    ChannelUsers,   \* threads that use channels
    MaxChannels,    \* bound: channels created
    MaxChannelCalls \* bound: calls

ChannelOps == {"create", "send", "receive", "try send", "try receive"}

ASSUME ChannelAssumption ==
    /\ None \notin ChannelUsers
    /\ MaxChannels \in Nat /\ MaxChannelCalls \in Nat

Chans == 1..MaxChannels

VARIABLES
    chanMade,       \* channels created
    chanQueued,     \* values in each channel
    chanRegistry,   \* holder of the registry's mutex
    chanReceiver,   \* holder of each receiver's mutex
    chanCalls,      \* calls made
    chanThread      \* of each thread: its position, and the channel it is on

chanVars == <<chanMade, chanQueued, chanRegistry, chanReceiver, chanCalls, chanThread>>

ChanInit ==
    /\ chanMade = 0
    /\ chanQueued = [c \in Chans |-> 0]
    /\ chanRegistry = None
    /\ chanReceiver = [c \in Chans |-> None]
    /\ chanCalls = 0
    /\ chanThread = [t \in ChannelUsers |-> [at |-> "idle", on |-> 0]]

ChanAt(t, p) == chanThread[t].at = p

ChanGo(t, p) == chanThread' = [chanThread EXCEPT ![t].at = p]

\* A call, with any pointer for its channel; only create has none.
ChanCall(t) ==
    /\ ChanAt(t, "idle") /\ chanCalls < MaxChannelCalls
    /\ \E op \in ChannelOps, c \in 0..MaxChannels :
          /\ op = "create" => c = 0
          /\ chanThread' = [chanThread EXCEPT ![t] = [at |-> op, on |-> c]]
    /\ chanCalls' = chanCalls + 1
    /\ UNCHANGED <<chanMade, chanQueued, chanRegistry, chanReceiver>>

CreateChannel(t) ==
    /\ ChanAt(t, "create") /\ chanRegistry = None
    /\ chanMade < MaxChannels
    /\ chanMade' = chanMade + 1
    /\ ChanGo(t, "idle")
    /\ UNCHANGED <<chanQueued, chanRegistry, chanReceiver, chanCalls>>

\* The channel is looked up under the registry's mutex, which is released.
Found(t) == chanThread[t].on \in 1..chanMade

\* Wrong variant: the receiver keeps the registry while it waits.
ChanLookupHolding(t, op, next) ==
    /\ ChanAt(t, op) /\ chanRegistry = None
    /\ ChanGo(t, IF Found(t) THEN next ELSE "idle")
    /\ chanRegistry' = IF Found(t) /\ op = "receive" THEN t ELSE None
    /\ UNCHANGED <<chanMade, chanQueued, chanReceiver, chanCalls>>

ChanLookup(t, op, next) ==
    /\ ChanAt(t, op) /\ chanRegistry = None
    /\ ChanGo(t, IF Found(t) THEN next ELSE "idle")
    /\ UNCHANGED <<chanMade, chanQueued, chanRegistry, chanReceiver,
                   chanCalls>>

ChanSend(t) ==
    /\ ChanAt(t, "push")
    /\ chanQueued' = [chanQueued EXCEPT ![chanThread[t].on] = @ + 1]
    /\ ChanGo(t, "idle")
    /\ UNCHANGED <<chanMade, chanRegistry, chanReceiver, chanCalls>>

\* recv waits for a value with the receiver's mutex held.
ChanReceiveEnters(t) ==
    LET c == chanThread[t].on
    IN  /\ ChanAt(t, "receiver") /\ chanReceiver[c] = None
        /\ chanReceiver' = [chanReceiver EXCEPT ![c] = t]
        /\ ChanGo(t, "recv")
        /\ UNCHANGED <<chanMade, chanQueued, chanRegistry, chanCalls>>

ChanReceive(t) ==
    LET c == chanThread[t].on
    IN  /\ ChanAt(t, "recv") /\ chanQueued[c] > 0
        /\ chanQueued' = [chanQueued EXCEPT ![c] = @ - 1]
        /\ chanReceiver' = [chanReceiver EXCEPT ![c] = None]
        /\ ChanGo(t, "idle")
        /\ UNCHANGED <<chanMade, chanRegistry, chanCalls>>

\* try_receive keeps the registry's mutex until it returns ...
ChanTryReceiveEnters(t) ==
    /\ ChanAt(t, "try receive") /\ chanRegistry = None
    /\ ChanGo(t, IF Found(t) THEN "try recv" ELSE "idle")
    /\ chanRegistry' = IF Found(t) THEN t ELSE None
    /\ UNCHANGED <<chanMade, chanQueued, chanReceiver, chanCalls>>

\* ... and waits for the receiver's.
ChanTryReceive(t) ==
    LET c == chanThread[t].on
    IN  /\ ChanAt(t, "try recv") /\ chanReceiver[c] = None
        /\ chanQueued' = [chanQueued EXCEPT ![c] = IF @ > 0 THEN @ - 1 ELSE 0]
        /\ chanRegistry' = None
        /\ ChanGo(t, "idle")
        /\ UNCHANGED <<chanMade, chanReceiver, chanCalls>>

\* try_send keeps the registry's mutex over a send, which does not wait.
ChanTrySend(t) ==
    /\ ChanAt(t, "try send") /\ chanRegistry = None
    /\ chanQueued' = IF Found(t)
                     THEN [chanQueued EXCEPT ![chanThread[t].on] = @ + 1]
                     ELSE chanQueued
    /\ ChanGo(t, "idle")
    /\ UNCHANGED <<chanMade, chanRegistry, chanReceiver, chanCalls>>

\* A thread goes on with its call.
ChanRuns(t) ==
    \/ CreateChannel(t)
    \/ ChanLookup(t, "send", "push") \/ ChanSend(t) \/ ChanTrySend(t)
    \/ ChanLookup(t, "receive", "receiver") \/ ChanReceiveEnters(t)
    \/ ChanReceive(t)
    \/ ChanTryReceiveEnters(t) \/ ChanTryReceive(t)

ChanNext == \E t \in ChannelUsers : ChanCall(t) \/ ChanRuns(t)

-----------------------------------------------------------------------------
ChanTypes ==
    /\ chanMade \in 0..MaxChannels /\ chanQueued \in [Chans -> Nat]
    /\ chanRegistry \in ChannelUsers \cup {None}
    /\ chanReceiver \in [Chans -> ChannelUsers \cup {None}]
    /\ chanThread \in [ChannelUsers -> [at : {"idle", "push", "receiver", "recv",
                                              "try recv"} \cup ChannelOps,
                                        on : 0..MaxChannels]]

\* A try_receive keeps the registry while it waits for the receiver of a channel
\* on which a receive waits for a value.
TryKeepsRegistry ==
    \E t, u \in ChannelUsers :
        LET c == chanThread[t].on
        IN  /\ ChanAt(t, "try recv") /\ chanRegistry = t
            /\ ChanAt(u, "recv") /\ chanReceiver[c] = u /\ chanQueued[c] = 0

\* "Clone the Arc out and drop the registry lock before touching the sender, so
\* a send never contends with a blocking recv()" (mod.rs:572): a send returns,
\* whoever waits for a value on the same or another channel.  One thing keeps it
\* for ever, against that comment and those of receive (648-652) and try_receive
\* ("WITHOUT blocking", 700): a try_receive (712-715) that does what receive
\* takes care not to, so that the value which would free it cannot be sent.
SendsReturn ==
    \/ \A t \in ChannelUsers :
          chanThread[t].at \in {"send", "push", "try send"} ~> ChanAt(t, "idle")
    \/ <>[]TryKeepsRegistry
=============================================================================
