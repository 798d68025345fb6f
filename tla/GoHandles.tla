----------------------------- MODULE GoHandles ------------------------------
(* src/src/async_runtime/ffi/mod.rs, goroutines with a handle: spawn, the   *)
(* end of the body, and the three calls that join.                          *)
(*                                                                          *)
(* A step is a region under the mutex of the handle's state.  The registry  *)
(* of handles only grows, so a lookup needs no step of its own.             *)
EXTENDS Callers, Integers

CONSTANTS MaxGoroutines     \* bound: goroutines spawned

ASSUME GoroutineAssumption == MaxGoroutines \in Nat

Goroutines == 1..MaxGoroutines

VARIABLES
    gorMade,        \* handles given out
    gorBody,        \* "none", "queued", "runs", "notify" (outcome set) or "over"
    gorDone,        \* GoroutineOutcome.done
    gorError,       \* an uncaught throw or a panic, GoroutineOutcome.error
    gorLive,        \* LIVE_GOROUTINES
    gorThread       \* of each thread: position, handle, and what it was told

gorVars == <<gorMade, gorBody, gorDone, gorError, gorLive, gorThread>>

GorIdle == [at |-> "idle", on |-> 0, told |-> "nothing"]

GorInit ==
    /\ gorMade = 0
    /\ gorBody = [g \in Goroutines |-> "none"]
    /\ gorDone = [g \in Goroutines |-> FALSE]
    /\ gorError = [g \in Goroutines |-> FALSE]
    /\ gorLive = 0
    /\ gorThread = [t \in Threads |-> GorIdle]

GorAt(t, p) == gorThread[t].at = p

GorSpawn(t) ==
    /\ GorAt(t, "idle") /\ gorMade < MaxGoroutines
    /\ gorMade' = gorMade + 1
    /\ gorBody' = [gorBody EXCEPT ![gorMade + 1] = "queued"]
    /\ UNCHANGED <<gorDone, gorError, gorLive, gorThread>>

\* A thread of the blocking pool takes the body.
GorStarts(g) ==
    /\ gorBody[g] = "queued"
    /\ gorBody' = [gorBody EXCEPT ![g] = "runs"]
    /\ gorLive' = gorLive + 1
    /\ UNCHANGED <<gorMade, gorDone, gorError, gorThread>>

\* The body returns, throws or panics; catch_unwind tells.
GorOutcome(g) ==
    /\ gorBody[g] = "runs"
    /\ \E throws \in BOOLEAN : gorError' = [gorError EXCEPT ![g] = throws]
    /\ gorDone' = [gorDone EXCEPT ![g] = TRUE]
    /\ gorBody' = [gorBody EXCEPT ![g] = "notify"]
    /\ UNCHANGED <<gorMade, gorLive, gorThread>>

\* notify_all, after the unlock; then the ticket is dropped.
GorNotifies(g) ==
    /\ gorBody[g] = "notify"
    /\ gorBody' = [gorBody EXCEPT ![g] = "over"]
    /\ gorThread' = [t \in Threads |->
           IF GorAt(t, "asleep") /\ gorThread[t].on = g
           THEN [gorThread[t] EXCEPT !.at = "check"] ELSE gorThread[t]]
    /\ gorLive' = gorLive - 1
    /\ UNCHANGED <<gorMade, gorDone, gorError>>

\* join, has_exception or take_exception of any handle; an unknown one is
\* refused, which changes nothing.
GorJoin(t) ==
    /\ GorAt(t, "idle")
    /\ \E g \in 1..gorMade :
          gorThread' = [gorThread EXCEPT ![t] =
                            [at |-> "check", on |-> g, told |-> "nothing"]]
    /\ UNCHANGED <<gorMade, gorBody, gorDone, gorError, gorLive>>

\* Under the mutex: done, or the wait that releases it.
GorCheck(t) ==
    LET g == gorThread[t].on
    IN  /\ GorAt(t, "check")
        /\ gorThread' = [gorThread EXCEPT ![t] =
               IF gorDone[g]
               THEN [at |-> "idle", on |-> g,
                     told |-> IF gorError[g] THEN "threw" ELSE "returned"]
               ELSE [@ EXCEPT !.at = "asleep"]]
        /\ UNCHANGED <<gorMade, gorBody, gorDone, gorError, gorLive>>

\* A condition variable may wake its waiter for no reason.
GorWakesSpuriously(t) ==
    /\ GorAt(t, "asleep")
    /\ gorThread' = [gorThread EXCEPT ![t].at = "check"]
    /\ UNCHANGED <<gorMade, gorBody, gorDone, gorError, gorLive>>

GorNext ==
    \/ \E t \in Threads : \/ GorSpawn(t) \/ GorJoin(t) \/ GorCheck(t)
                          \/ GorWakesSpuriously(t)
    \/ \E g \in Goroutines : GorStarts(g) \/ GorOutcome(g) \/ GorNotifies(g)

-----------------------------------------------------------------------------
GorTypes ==
    /\ gorMade \in 0..MaxGoroutines /\ gorLive \in 0..MaxGoroutines
    /\ gorBody \in [Goroutines -> {"none", "queued", "runs", "notify", "over"}]
    /\ gorDone \in [Goroutines -> BOOLEAN] /\ gorError \in [Goroutines -> BOOLEAN]
    /\ gorThread \in [Threads -> [at : {"idle", "check", "asleep"},
                                  on : 0..MaxGoroutines,
                                  told : {"nothing", "returned", "threw"}]]

\* A thread that joins a goroutine returns once its body has ended, by a throw
\* or a panic too: the check under the mutex and the notification after it
\* leave no gap in which a joiner falls asleep for ever.
JoinersReturn ==
    \A t \in Threads :
        (\E g \in Goroutines : gorThread[t].on = g /\ gorBody[g] \in {"notify", "over"})
        ~> GorAt(t, "idle")
=============================================================================
