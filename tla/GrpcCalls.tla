------------------------------ MODULE GrpcCalls ------------------------------
(* src/src/io/grpc_client_ffi.rs: the calls of a gRPC client with several    *)
(* backends.  Each call picks a connection by turns, passing over backends   *)
(* that failed lately, and is tried again when its status is UNAVAILABLE.    *)
(*                                                                           *)
(* A step is one look at a backend with its mutex, or the end of one try.    *)
EXTENDS Callers, Integers, FiniteSets

CONSTANTS
    NBackends,      \* the addresses the client was given
    Retries,        \* ClientConn.retries, 2 in the code
    MaxFalls        \* bound: how often a backend falls, before the start or later

ASSUME GrpcCallsAssumption ==
    NBackends \in Nat \ {0} /\ Retries \in Nat /\ MaxFalls \in Nat

Backends == 0..(NBackends - 1)

VARIABLES
    gclUp,          \* backends that run
    gclFalls,       \* how often one fell
    gclSub,         \* SubChannel.sender of each: "none", "live", "broken", or
                    \*   "stale": the backend has gone and nobody noticed
    gclSkip,        \* backends passed over: skip_until lies ahead
    gclNext,        \* the cursor
    gclThread       \* of each thread: position, looks of this pick and the
                    \*   backend it started from, the backend picked, whether
                    \*   its connection is lost, tries, and whether the call
                    \*   ended as unavailable

gclVars == <<gclUp, gclFalls, gclSub, gclSkip, gclNext, gclThread>>

GclIdle == [at |-> "idle", look |-> 0, from |-> 0, on |-> 0, lost |-> FALSE,
            tries |-> 0, dropped |-> FALSE]

\* dial: one connection is enough; those that failed are made when needed.
GclInit ==
    /\ gclUp \in SUBSET Backends /\ gclUp # {}
    /\ gclFalls = Cardinality(Backends \ gclUp) /\ gclFalls <= MaxFalls
    /\ gclNext = 0 /\ gclSkip = {}
    /\ gclSub = [b \in Backends |-> IF b \in gclUp THEN "live" ELSE "none"]
    /\ gclThread = [t \in Threads |-> GclIdle]

GclDropped == [GclIdle EXCEPT !.dropped = TRUE]

GclAt(t, p) == gclThread[t].at = p

GclSubs == <<gclSub, gclSkip>>
GclWorld == <<gclUp, gclFalls>>

-----------------------------------------------------------------------------
(* The backends, external: one at a time is restarted.                       *)

\* Its connections are gone; a client need not notice at once.
BackendFalls(b) ==
    /\ gclUp = Backends /\ gclFalls < MaxFalls
    /\ gclUp' = gclUp \ {b} /\ gclFalls' = gclFalls + 1
    /\ gclSub' = [gclSub EXCEPT ![b] = IF @ = "live" THEN "stale" ELSE @]
    /\ gclThread' = [t \in Threads |->
          IF gclThread[t].on = b /\ GclAt(t, "sent")
          THEN [gclThread[t] EXCEPT !.lost = TRUE] ELSE gclThread[t]]
    /\ UNCHANGED <<gclSkip, gclNext>>

BackendReturns(b) ==
    /\ b \notin gclUp /\ gclUp' = gclUp \cup {b}
    /\ UNCHANGED <<gclFalls, GclSubs, gclNext, gclThread>>

ConnectionEnds(b) ==
    /\ gclSub[b] = "stale" /\ gclSub' = [gclSub EXCEPT ![b] = "broken"]
    /\ UNCHANGED <<GclWorld, gclSkip, gclNext, gclThread>>

BackoffEnds(b) ==
    /\ b \in gclSkip /\ gclSkip' = gclSkip \ {b}
    /\ UNCHANGED <<GclWorld, gclSub, gclNext, gclThread>>

-----------------------------------------------------------------------------
(* pick_sender.                                                              *)
GclCall(t) ==
    /\ GclAt(t, "idle")
    /\ gclThread' = [gclThread EXCEPT ![t] = [GclIdle EXCEPT !.at = "again"]]
    /\ UNCHANGED <<GclWorld, GclSubs, gclNext>>

GclPickStarts(t) ==
    /\ GclAt(t, "again")
    /\ gclNext' = (gclNext + 1) % NBackends
    /\ gclThread' = [gclThread EXCEPT ![t] =
          [@ EXCEPT !.at = "pick", !.look = 0, !.from = gclNext]]
    /\ UNCHANGED <<GclWorld, GclSubs>>

\* Every backend twice, from where the cursor was.
Looked(t) == (gclThread[t].from + gclThread[t].look) % NBackends

GclNextLook(t) == gclThread' = [gclThread EXCEPT ![t].look = @ + 1]

\* In the first round those that failed lately are passed over.
GclPasses(t) ==
    /\ GclAt(t, "pick") /\ gclThread[t].look < NBackends /\ Looked(t) \in gclSkip
    /\ GclNextLook(t)
    /\ UNCHANGED <<GclWorld, GclSubs, gclNext>>

\* A connection that seems alive, or a new one; h2 opens the stream on it.
GclPicks(t) ==
    LET b == Looked(t)
    IN  /\ GclAt(t, "pick") /\ gclThread[t].look < 2 * NBackends
        /\ b \notin gclSkip \/ gclThread[t].look >= NBackends
        /\ \/ gclSub[b] \in {"live", "stale"} /\ UNCHANGED gclSub
           \/ /\ gclSub[b] \in {"none", "broken"} /\ b \in gclUp
              /\ gclSub' = [gclSub EXCEPT ![b] = "live"]
        /\ gclSkip' = gclSkip \ {b}
        /\ gclThread' = [gclThread EXCEPT ![t] =
              [@ EXCEPT !.at = "sent", !.on = b, !.lost = gclSub[b] = "stale"]]
        /\ UNCHANGED <<GclWorld, gclNext>>

GclRefused(t) ==
    LET b == Looked(t)
    IN  /\ GclAt(t, "pick") /\ gclThread[t].look < 2 * NBackends
        /\ b \notin gclSkip \/ gclThread[t].look >= NBackends
        /\ gclSub[b] \in {"none", "broken"} /\ b \notin gclUp
        /\ gclSub' = [gclSub EXCEPT ![b] = "none"] /\ gclSkip' = gclSkip \cup {b}
        /\ GclNextLook(t)
        /\ UNCHANGED <<GclWorld, gclNext>>

\* Wrong variant: one round is enough.
GclNoneAfterOne(t) ==
    /\ GclAt(t, "pick") /\ gclThread[t].look = NBackends
    /\ gclThread' = [gclThread EXCEPT ![t] = GclDropped]
    /\ UNCHANGED <<GclWorld, GclSubs, gclNext>>

\* All refused twice; that is not tried again.
GclNone(t) ==
    /\ GclAt(t, "pick") /\ gclThread[t].look = 2 * NBackends
    /\ gclThread' = [gclThread EXCEPT ![t] = GclDropped]
    /\ UNCHANGED <<GclWorld, GclSubs, gclNext>>

-----------------------------------------------------------------------------
(* unary_call, and what follows from its status.                             *)

\* An end that is not tried again, on a connection that is lost or not: the answer,
\* its refusal, none in time, or UNKNOWN, where the stream has ended with no status.
GclAnswered(t) ==
    /\ GclAt(t, "sent")
    /\ gclThread' = [gclThread EXCEPT ![t] = GclIdle]
    /\ UNCHANGED <<GclWorld, GclSubs, gclNext>>

\* A stream that breaks, before its answer or in it: UNAVAILABLE.
GclBreaks(t) ==
    /\ GclAt(t, "sent") /\ gclThread[t].lost
    /\ gclThread' = [gclThread EXCEPT ![t] =
          IF @.tries >= Retries THEN GclDropped ELSE [@ EXCEPT !.at = "marks"]]
    /\ UNCHANGED <<GclWorld, GclSubs, gclNext>>

\* mark_dead goes by the address: the connection may be another one by now.
GclMarksDead(t) ==
    LET b == gclThread[t].on
    IN  /\ GclAt(t, "marks")
        /\ gclSub' = [gclSub EXCEPT ![b] = "none"] /\ gclSkip' = gclSkip \cup {b}
        /\ gclThread' = [gclThread EXCEPT ![t] =
              [@ EXCEPT !.at = "again", !.tries = gclThread[t].tries + 1]]
        /\ UNCHANGED <<GclWorld, gclNext>>

GclNext ==
    \/ \E t \in Threads :
          \/ GclCall(t) \/ GclPickStarts(t) \/ GclPasses(t) \/ GclPicks(t)
          \/ GclRefused(t) \/ GclNone(t) \/ GclAnswered(t)
          \/ GclBreaks(t) \/ GclMarksDead(t)
    \/ \E b \in Backends :
          BackendFalls(b) \/ BackendReturns(b) \/ ConnectionEnds(b) \/ BackoffEnds(b)

-----------------------------------------------------------------------------
GclTypes ==
    /\ gclUp \subseteq Backends /\ gclFalls \in 0..MaxFalls
    /\ gclSub \in [Backends -> {"none", "live", "stale", "broken"}]
    /\ gclSkip \subseteq Backends /\ gclNext \in Backends
    /\ \A t \in Threads :
          /\ gclThread[t].at \in {"idle", "again", "pick", "sent", "marks"}
          /\ gclThread[t].tries \in 0..Retries

\* "Several replicas, no request dropped in a rolling restart"
\* (grpc_client_ffi.rs:54):
\* while backends restart one after the other, no more often than a call is
\* tried again, and too few times to meet a call at every look it takes, none
\* ends as UNAVAILABLE: for want of a connection, or because its own broke.  (The first round takes a fall of each
\* backend, the second one more of each but the first, which may still be down.)
RestartsDropNoCall ==
    NBackends > 1 /\ MaxFalls <= Retries /\ MaxFalls < 2 * NBackends - 1 =>
        \A t \in Threads : ~gclThread[t].dropped
=============================================================================
