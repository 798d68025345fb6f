----------------------------- MODULE PeersProofs -----------------------------
(* Proofs about the components that talk to another party: the calls of a    *)
(* gRPC client over its backends; what comes before the end of a queue, for  *)
(* child processes, MCP servers and gRPC; responses of an MCP server, and    *)
(* what a server of tools writes to its clients.                             *)
EXTENDS GrpcCalls, Subprocesses, McpStdio, McpHttp, McpServer, GrpcServer, GrpcStreams,
        FiniteSetTheorems, SequenceTheorems, TLAPS

-----------------------------------------------------------------------------
(* Turns of a cursor.                                                        *)
LEMMA BackendsFinite ==
    /\ IsFiniteSet(Backends) /\ Cardinality(Backends) = NBackends
    /\ \A S \in SUBSET Backends : IsFiniteSet(S) /\ Cardinality(S) \in Nat
<1>1. IsFiniteSet(Backends) /\ Cardinality(Backends) = NBackends
  BY FS_Interval, GrpcCallsAssumption DEF Backends
<1> QED
  BY <1>1, FS_Subset, FS_CardinalityType

LEMMA Turns ==
    ASSUME NEW i \in Nat
    PROVE  i % NBackends \in Backends
BY GrpcCallsAssumption DEF Backends

LEMMA TurnsOf ==
    ASSUME NEW n \in Nat \ {0}, NEW i \in Nat
    PROVE  /\ i < n => i % n = i
           /\ n <= i /\ i < n + n => i % n = i - n
           /\ n + n <= i /\ i < n + n + n => i % n = i - n - n
<1>1. ASSUME i < n PROVE i % n = i
  BY <1>1
<1>2. ASSUME n <= i, i < n + n PROVE i % n = i - n
  BY <1>2
<1>3. ASSUME n + n <= i, i < n + n + n PROVE i % n = i - n - n
  BY <1>3
<1> QED
  BY <1>1, <1>2, <1>3

\* Two looks in a row are at two backends.
LEMMA TurnsOn ==
    ASSUME NEW i \in Nat, i + 1 < NBackends + NBackends + NBackends, NBackends > 1
    PROVE  i % NBackends # (i + 1) % NBackends
<1>1. NBackends \in Nat \ {0} /\ i + 1 \in Nat
  BY GrpcCallsAssumption
<1> DEFINE j == i + 1
<1>2. j \in Nat /\ j = i + 1
  OBVIOUS
<1> HIDE DEF j
<1> DEFINE p == i % NBackends
           q == j % NBackends
<1>3. /\ i < NBackends => p = i
      /\ NBackends <= i /\ i < NBackends + NBackends => p = i - NBackends
      /\ NBackends + NBackends <= i /\ i < NBackends + NBackends + NBackends =>
            p = i - NBackends - NBackends
  BY <1>1, TurnsOf
<1>4. /\ j < NBackends => q = j
      /\ NBackends <= j /\ j < NBackends + NBackends => q = j - NBackends
      /\ NBackends + NBackends <= j /\ j < NBackends + NBackends + NBackends =>
            q = j - NBackends - NBackends
  BY <1>1, <1>2, TurnsOf
<1> HIDE DEF p, q
<1>5. p # q
  BY <1>1, <1>2, <1>3, <1>4
<1> QED
  BY <1>5 DEF p, q, j

\* A round looks at every backend.
LEMMA FullTurn ==
    ASSUME NEW from \in Backends, NEW b \in Backends
    PROVE  \E i \in 0..(NBackends - 1) : b = (from + i) % NBackends
<1> NBackends \in Nat \ {0} /\ from \in 0..(NBackends - 1) /\ b \in 0..(NBackends - 1)
  BY GrpcCallsAssumption DEF Backends
<1>1. CASE from <= b
  <2>1. b - from \in 0..(NBackends - 1) /\ from + (b - from) = b /\ b \in Nat /\ b < NBackends
    BY <1>1
  <2>2. b % NBackends = b
    BY <2>1, TurnsOf
  <2>3. (from + (b - from)) % NBackends = b
    BY <2>1, <2>2
  <2> QED
    BY <2>1, <2>3
<1>2. CASE b < from
  <2> DEFINE i == b + NBackends - from
             c == b + NBackends
  <2>1. /\ i \in 0..(NBackends - 1) /\ from + i = c
        /\ c \in Nat /\ NBackends <= c /\ c < NBackends + NBackends /\ c - NBackends = b
    BY <1>2
  <2>2. c % NBackends = b
    <3> HIDE DEF c
    <3> QED
      BY <2>1, TurnsOf
  <2> HIDE DEF i, c
  <2>3. (from + i) % NBackends = b
    BY <2>1, <2>2
  <2> QED
    BY <2>1, <2>3
<1> QED
  BY <1>1, <1>2

\* Sets of backends, one in the other, or all but one.
LEMMA Sizes ==
    ASSUME NEW S \in SUBSET Backends, NEW T \in SUBSET Backends
    PROVE  /\ Cardinality(S) \in Nat /\ Cardinality(T) \in Nat
           /\ T \subseteq S => Cardinality(T) <= Cardinality(S)
           /\ \A b \in Backends : T \subseteq S \cup {b} =>
                 Cardinality(T) <= Cardinality(S) + 1
           /\ \A b \in S : T \subseteq S \ {b} => Cardinality(T) + 1 <= Cardinality(S)
<1>1. IsFiniteSet(S) /\ IsFiniteSet(T) /\ Cardinality(S) \in Nat /\ Cardinality(T) \in Nat
  BY BackendsFinite
<1>2. ASSUME T \subseteq S
      PROVE  Cardinality(T) <= Cardinality(S)
  <2>1. T \in SUBSET S
    BY <1>2
  <2> QED
    BY <1>1, <2>1, FS_Subset, Zenon
<1>3. ASSUME NEW b \in Backends, T \subseteq S \cup {b}
      PROVE  Cardinality(T) <= Cardinality(S) + 1
  <2>1. /\ IsFiniteSet(S \cup {b})
        /\ \/ Cardinality(S \cup {b}) = Cardinality(S)
           \/ Cardinality(S \cup {b}) = Cardinality(S) + 1
    BY <1>1, FS_AddElement, Zenon
  <2>2. Cardinality(T) <= Cardinality(S \cup {b})
    BY <2>1, <1>3, FS_Subset, Zenon
  <2> QED
    BY <1>1, <2>1, <2>2
<1>4. ASSUME NEW b \in S, T \subseteq S \ {b}
      PROVE  Cardinality(T) + 1 <= Cardinality(S)
  <2>1. IsFiniteSet(S \ {b}) /\ Cardinality(S \ {b}) = Cardinality(S) - 1
    BY <1>1, FS_RemoveElement, Zenon
  <2>2. Cardinality(T) <= Cardinality(S \ {b})
    BY <2>1, <1>4, FS_Subset, Zenon
  <2> QED
    BY <1>1, <2>1, <2>2
<1> QED
  BY <1>1, <1>2, <1>3, <1>4

-----------------------------------------------------------------------------
(* The calls of a gRPC client.                                               *)

\* The shape of the state, as far as the proof needs it.
GclCalls ==
    [at : {"idle", "again", "pick", "sent", "marks"}, look : Nat, from : Backends,
     on : Backends, lost : BOOLEAN, tries : Nat, dropped : BOOLEAN]

GclShapes ==
    /\ gclUp \subseteq Backends /\ gclFalls \in Nat /\ gclFalls <= MaxFalls
    /\ gclSub \in [Backends -> {"none", "live", "stale", "broken"}]
    /\ gclSkip \subseteq Backends /\ gclNext \in Backends
    /\ gclThread \in [Threads -> GclCalls]
    /\ \A t \in Threads : gclThread[t].look <= NBackends + NBackends

\* What a thread has that a backend's fall took away, known to it or not.
LostOne(t) == (GclAt(t, "sent") /\ gclThread[t].lost) \/ GclAt(t, "marks")
LostOf(t) == {b \in Backends : b = gclThread[t].on /\ LostOne(t)}
Stale == {b \in Backends : gclSub[b] = "stale"}
Down == Backends \ gclUp

\* A backend is in trouble when a fall has left a trace of it anywhere.
Troubled == Down \cup gclSkip \cup Stale \cup {b \in Backends : \E t \in Threads : b \in LostOf(t)}

\* The backends a pick has looked at in its first round.
Round(t) ==
    {b \in Backends : /\ GclAt(t, "pick")
                      /\ \E i \in 0..(NBackends - 1) :
                            i < gclThread[t].look /\ b = (gclThread[t].from + i) % NBackends}

\* Every trace has its fall, and those a pick has met have one each.
TroubleIsAFall == \A t \in Threads : Cardinality(Troubled \cup Round(t)) <= gclFalls

\* When each has fallen once on average, they fall one at a time.
OneDown == gclFalls >= NBackends => \A a, b \in Down : a = b

\* In the second round each refusal is a further fall, of another backend than
\* the last.
SecondRound ==
    \A t \in Threads : GclAt(t, "pick") /\ gclThread[t].look > NBackends =>
        /\ gclFalls >= gclThread[t].look - 1
        /\ gclFalls = gclThread[t].look - 1 =>
              \A b \in Down : b = (gclThread[t].from + (gclThread[t].look - 1)) % NBackends

\* Each try of a call was cut by a fall of its own.
TriesAreFalls ==
    \A t \in Threads : gclThread[t].tries + Cardinality(Stale \cup LostOf(t)) <= gclFalls

GclInv ==
    /\ GclShapes /\ TroubleIsAFall /\ OneDown /\ SecondRound /\ TriesAreFalls
    /\ RestartsDropNoCall

LEMMA FirstBackend == 0 \in Backends
BY GrpcCallsAssumption DEF Backends

LEMMA IdleCalls == GclIdle \in GclCalls /\ GclDropped \in GclCalls
BY FirstBackend DEF GclIdle, GclDropped, GclCalls

LEMMA ShapesStart == GclInit => GclShapes
<1> SUFFICES ASSUME GclInit
             PROVE  GclShapes
  OBVIOUS
<1>1. gclFalls \in Nat
  BY BackendsFinite DEF GclInit
<1>2. \A t \in Threads : gclThread[t].look = 0
  BY DEF GclInit, GclIdle
<1> QED
  BY <1>1, <1>2, IdleCalls, FirstBackend, GrpcCallsAssumption DEF GclInit, GclShapes

\* The records the steps of a call leave are of that shape.
LEMMA CallSteps ==
    ASSUME NEW c \in GclCalls
    PROVE  /\ \A b \in Backends :
                 /\ [c EXCEPT !.at = "pick", !.look = 0, !.from = b] \in GclCalls
                 /\ \A l \in BOOLEAN :
                       [c EXCEPT !.at = "sent", !.on = b, !.lost = l] \in GclCalls
           /\ [c EXCEPT !.look = @ + 1] \in GclCalls
           /\ [c EXCEPT !.at = "marks"] \in GclCalls
           /\ [c EXCEPT !.lost = TRUE] \in GclCalls
           /\ [c EXCEPT !.at = "again", !.tries = @ + 1] \in GclCalls
           /\ [GclIdle EXCEPT !.at = "again"] \in GclCalls
<1>1. \A b \in Backends :
         /\ [c EXCEPT !.at = "pick", !.look = 0, !.from = b] \in GclCalls
         /\ \A l \in BOOLEAN : [c EXCEPT !.at = "sent", !.on = b, !.lost = l] \in GclCalls
  BY DEF GclCalls
<1>2. \A n \in Nat : /\ [c EXCEPT !.look = n] \in GclCalls
                     /\ [c EXCEPT !.at = "again", !.tries = n] \in GclCalls
  BY DEF GclCalls
<1>5. c.look + 1 \in Nat /\ c.tries + 1 \in Nat
  BY DEF GclCalls
<1>3. [c EXCEPT !.at = "marks"] \in GclCalls /\ [c EXCEPT !.lost = TRUE] \in GclCalls
  BY DEF GclCalls
<1>4. [GclIdle EXCEPT !.at = "again"] \in GclCalls
  BY FirstBackend DEF GclIdle, GclCalls
<1> QED
  BY <1>1, <1>2, <1>3, <1>4, <1>5

\* What a step of one thread does to the others: nothing.
LEMMA OneCall ==
    ASSUME GclShapes, NEW t \in Threads, NEW c \in GclCalls,
           gclThread' = [gclThread EXCEPT ![t] = c], c.look <= NBackends + NBackends
    PROVE  /\ gclThread' \in [Threads -> GclCalls] /\ gclThread'[t] = c
           /\ \A u \in Threads : gclThread'[u].look <= NBackends + NBackends
           /\ \A u \in Threads : u # t => gclThread'[u] = gclThread[u]
BY DEF GclShapes

-----------------------------------------------------------------------------
(* What each step does, field by field.                                      *)
Others(t) == \A u \in Threads : u # t => gclThread'[u] = gclThread[u]

LEMMA CallDoes ==
    ASSUME GclShapes, NEW t \in Threads, GclCall(t)
    PROVE  /\ GclShapes' /\ Others(t) /\ UNCHANGED <<GclWorld, GclSubs, gclNext>>
           /\ gclThread'[t].at = "again" /\ gclThread'[t].tries = 0
           /\ ~gclThread'[t].dropped
<1> DEFINE c == [GclIdle EXCEPT !.at = "again"]
<1>1. /\ gclThread' = [gclThread EXCEPT ![t] = c]
      /\ UNCHANGED <<GclWorld, GclSubs, gclNext>>
  BY DEF GclCall
<1>2. c \in GclCalls
  BY IdleCalls, CallSteps
<1>3. c.at = "again" /\ c.look = 0 /\ c.tries = 0 /\ ~c.dropped
  BY DEF GclIdle
<1> HIDE DEF c
<1> QED
  BY <1>1, <1>2, <1>3, OneCall, GrpcCallsAssumption DEF GclShapes, GclWorld, GclSubs, Others

LEMMA PickStartsDoes ==
    ASSUME GclShapes, NEW t \in Threads, GclPickStarts(t)
    PROVE  /\ GclShapes' /\ Others(t) /\ UNCHANGED <<GclWorld, GclSubs>>
           /\ GclAt(t, "again") /\ gclThread'[t].at = "pick" /\ gclThread'[t].look = 0
           /\ gclThread'[t].tries = gclThread[t].tries
           /\ gclThread'[t].dropped = gclThread[t].dropped
<1> DEFINE c == [gclThread[t] EXCEPT !.at = "pick", !.look = 0, !.from = gclNext]
<1>1. /\ gclThread' = [gclThread EXCEPT ![t] = c] /\ GclAt(t, "again")
      /\ gclNext' = (gclNext + 1) % NBackends /\ UNCHANGED <<GclWorld, GclSubs>>
  BY DEF GclPickStarts
<1>2. c \in GclCalls
  BY CallSteps DEF GclShapes
<1>3. /\ c.at = "pick" /\ c.look = 0 /\ c.tries = gclThread[t].tries
      /\ c.dropped = gclThread[t].dropped
  BY DEF GclShapes, GclCalls
<1>4. (gclNext + 1) % NBackends \in Backends
  <2>1. gclNext \in Nat
    BY GrpcCallsAssumption DEF GclShapes, Backends
  <2>2. gclNext + 1 \in Nat
    BY <2>1
  <2> QED
    BY <2>2, Turns
<1> HIDE DEF c
<1> QED
  BY <1>1, <1>2, <1>3, <1>4, OneCall, GrpcCallsAssumption
  DEF GclShapes, GclWorld, GclSubs, Others

LEMMA LookedIn ==
    ASSUME GclShapes, NEW t \in Threads
    PROVE  /\ Looked(t) \in Backends /\ gclThread[t].from \in Backends
           /\ gclThread[t].look \in Nat /\ gclThread[t].tries \in Nat
           /\ gclThread[t].on \in Backends
<1>1. /\ gclThread[t].from \in Backends /\ gclThread[t].look \in Nat
      /\ gclThread[t].tries \in Nat /\ gclThread[t].on \in Backends
  BY DEF GclShapes, GclCalls
<1>2. gclThread[t].from + gclThread[t].look \in Nat
  BY <1>1, GrpcCallsAssumption DEF Backends
<1> QED
  BY <1>1, <1>2, Turns DEF Looked

LEMMA LookDoes ==
    ASSUME GclShapes, NEW t \in Threads, GclAt(t, "pick"), GclNextLook(t),
           gclThread[t].look < NBackends + NBackends
    PROVE  /\ gclThread' \in [Threads -> GclCalls] /\ Others(t)
           /\ \A u \in Threads : gclThread'[u].look <= NBackends + NBackends
           /\ gclThread'[t].at = "pick" /\ gclThread'[t].look = gclThread[t].look + 1
           /\ gclThread'[t].from = gclThread[t].from
           /\ gclThread'[t].tries = gclThread[t].tries
           /\ gclThread'[t].dropped = gclThread[t].dropped
<1> DEFINE c == [gclThread[t] EXCEPT !.look = @ + 1]
<1>1. gclThread' = [gclThread EXCEPT ![t] = c]
  BY DEF GclNextLook
<1>2. c \in GclCalls
  BY CallSteps DEF GclShapes
<1>3. /\ c.at = "pick" /\ c.look = gclThread[t].look + 1 /\ c.from = gclThread[t].from
      /\ c.tries = gclThread[t].tries /\ c.dropped = gclThread[t].dropped
  BY DEF GclShapes, GclCalls, GclAt
<1>4. c.look <= NBackends + NBackends
  BY <1>3, LookedIn, GrpcCallsAssumption
<1> HIDE DEF c
<1> QED
  BY <1>1, <1>2, <1>3, <1>4, OneCall DEF Others

LEMMA PassesDoes ==
    ASSUME GclShapes, NEW t \in Threads, GclPasses(t)
    PROVE  /\ GclShapes' /\ Others(t) /\ UNCHANGED <<GclWorld, GclSubs, gclNext>>
           /\ GclAt(t, "pick") /\ gclThread[t].look < NBackends /\ Looked(t) \in gclSkip
           /\ gclThread'[t].at = "pick" /\ gclThread'[t].look = gclThread[t].look + 1
           /\ gclThread'[t].from = gclThread[t].from
           /\ gclThread'[t].tries = gclThread[t].tries
           /\ gclThread'[t].dropped = gclThread[t].dropped
<1>1. /\ GclAt(t, "pick") /\ gclThread[t].look < NBackends /\ Looked(t) \in gclSkip
      /\ GclNextLook(t) /\ UNCHANGED <<GclWorld, GclSubs, gclNext>>
  BY DEF GclPasses
<1>2. gclThread[t].look < NBackends + NBackends
  BY <1>1, LookedIn, GrpcCallsAssumption
<1> QED
  BY <1>1, <1>2, LookDoes DEF GclShapes, GclWorld, GclSubs

LEMMA PicksDoes ==
    ASSUME GclShapes, NEW t \in Threads, GclPicks(t)
    PROVE  /\ GclShapes' /\ Others(t) /\ UNCHANGED GclWorld
           /\ GclAt(t, "pick") /\ gclSkip' \subseteq gclSkip
           /\ \A b \in Backends : gclSub'[b] = "stale" => gclSub[b] = "stale"
           /\ gclThread'[t].at = "sent" /\ gclThread'[t].on = Looked(t)
           /\ gclThread'[t].lost => gclSub[Looked(t)] = "stale"
           /\ gclThread'[t].tries = gclThread[t].tries
           /\ gclThread'[t].dropped = gclThread[t].dropped
<1> DEFINE b == Looked(t)
           c == [gclThread[t] EXCEPT !.at = "sent", !.on = b, !.lost = gclSub[b] = "stale"]
<1>1. /\ GclAt(t, "pick") /\ gclThread' = [gclThread EXCEPT ![t] = c]
      /\ gclSkip' = gclSkip \ {b} /\ UNCHANGED <<GclWorld, gclNext>>
      /\ gclSub' = gclSub \/ gclSub' = [gclSub EXCEPT ![b] = "live"]
  BY DEF GclPicks
<1>2. b \in Backends /\ (gclSub[b] = "stale") \in BOOLEAN
  BY LookedIn
<1>3. c \in GclCalls
  BY <1>2, CallSteps DEF GclShapes
<1>4. /\ c.at = "sent" /\ c.on = b /\ (c.lost => gclSub[b] = "stale")
      /\ c.look = gclThread[t].look
      /\ c.tries = gclThread[t].tries /\ c.dropped = gclThread[t].dropped
  BY DEF GclShapes, GclCalls
<1> HIDE DEF b, c
<1>5. /\ gclSub' \in [Backends -> {"none", "live", "stale", "broken"}]
      /\ \A a \in Backends : gclSub'[a] = "stale" => gclSub[a] = "stale"
  BY <1>1, <1>2 DEF GclShapes
<1>6. c.look <= NBackends + NBackends
  BY <1>4 DEF GclShapes
<1>7. gclThread'[t] = c /\ gclThread' \in [Threads -> GclCalls] /\ Others(t)
      /\ \A u \in Threads : gclThread'[u].look <= NBackends + NBackends
  BY <1>1, <1>3, <1>6, OneCall DEF Others
<1>8. GclShapes'
  BY <1>1, <1>5, <1>7 DEF GclShapes, GclWorld
<1>9. gclSkip' \subseteq gclSkip
  BY <1>1
<1> QED
  BY <1>1, <1>4, <1>5, <1>7, <1>8, <1>9 DEF b

LEMMA RefusedDoes ==
    ASSUME GclShapes, NEW t \in Threads, GclRefused(t)
    PROVE  /\ GclShapes' /\ Others(t) /\ UNCHANGED GclWorld
           /\ GclAt(t, "pick") /\ gclThread[t].look < NBackends + NBackends
           /\ Looked(t) \in Down /\ gclSkip' = gclSkip \cup {Looked(t)}
           /\ \A b \in Backends : gclSub'[b] = "stale" => gclSub[b] = "stale"
           /\ gclThread'[t].at = "pick" /\ gclThread'[t].look = gclThread[t].look + 1
           /\ gclThread'[t].from = gclThread[t].from
           /\ gclThread'[t].tries = gclThread[t].tries
           /\ gclThread'[t].dropped = gclThread[t].dropped
<1> DEFINE b == Looked(t)
<1>1. /\ GclAt(t, "pick") /\ gclThread[t].look < 2 * NBackends
      /\ b \notin gclUp /\ GclNextLook(t)
      /\ gclSub' = [gclSub EXCEPT ![b] = "none"] /\ gclSkip' = gclSkip \cup {b}
      /\ UNCHANGED <<GclWorld, gclNext>>
  BY DEF GclRefused
<1>2. b \in Backends /\ gclThread[t].look < NBackends + NBackends
  BY <1>1, LookedIn, GrpcCallsAssumption
<1> HIDE DEF b
<1>3. /\ gclSub' \in [Backends -> {"none", "live", "stale", "broken"}]
      /\ \A a \in Backends : gclSub'[a] = "stale" => gclSub[a] = "stale"
  BY <1>1, <1>2 DEF GclShapes
<1>4. GclShapes'
  BY <1>1, <1>2, <1>3, LookDoes DEF GclShapes, GclWorld
<1>5. /\ GclAt(t, "pick") /\ b \in Down /\ gclSkip' = gclSkip \cup {b} /\ UNCHANGED GclWorld
  BY <1>1, <1>2 DEF Down
<1>6. /\ Others(t) /\ gclThread'[t].at = "pick"
      /\ gclThread'[t].look = gclThread[t].look + 1
      /\ gclThread'[t].from = gclThread[t].from
      /\ gclThread'[t].tries = gclThread[t].tries
      /\ gclThread'[t].dropped = gclThread[t].dropped
  BY <1>1, <1>2, LookDoes
<1> QED
  BY <1>2, <1>3, <1>4, <1>5, <1>6 DEF b

LEMMA EndsDoes ==
    ASSUME GclShapes, NEW t \in Threads, GclNone(t) \/ GclAnswered(t)
    PROVE  /\ GclShapes' /\ Others(t) /\ UNCHANGED <<GclWorld, GclSubs, gclNext>>
           /\ gclThread'[t].at = "idle" /\ gclThread'[t].tries = 0
           /\ gclThread'[t].dropped =>
                 GclAt(t, "pick") /\ gclThread[t].look = NBackends + NBackends
<1>0. GclIdle # GclDropped
  <2>1. GclIdle.dropped = FALSE /\ GclDropped.dropped = TRUE
    BY DEF GclIdle, GclDropped
  <2> QED
    BY <2>1
<1>1. PICK c \in {GclIdle, GclDropped} :
         /\ gclThread' = [gclThread EXCEPT ![t] = c] /\ UNCHANGED <<GclWorld, GclSubs, gclNext>>
         /\ c = GclDropped => GclAt(t, "pick") /\ gclThread[t].look = 2 * NBackends
  <2>1. CASE GclNone(t)
    BY <2>1 DEF GclNone
  <2>2. CASE GclAnswered(t)
    BY <1>0, <2>2 DEF GclAnswered
  <2> QED
    BY <2>1, <2>2
<1>2. c \in GclCalls
  BY IdleCalls
<1>3. c.at = "idle" /\ c.look = 0 /\ c.tries = 0 /\ (c.dropped => c = GclDropped)
  BY DEF GclIdle, GclDropped
<1>4. /\ gclThread'[t] = c /\ gclThread' \in [Threads -> GclCalls] /\ Others(t)
      /\ \A u \in Threads : gclThread'[u].look <= NBackends + NBackends
  <2>1. c.look <= NBackends + NBackends
    BY <1>3, GrpcCallsAssumption
  <2> QED
    BY <1>1, <1>2, <2>1, OneCall DEF Others
<1>5. GclShapes'
  BY <1>1, <1>4 DEF GclShapes, GclWorld, GclSubs
<1> QED
  BY <1>1, <1>3, <1>4, <1>5, GrpcCallsAssumption

LEMMA BreaksDoes ==
    ASSUME GclShapes, NEW t \in Threads, GclBreaks(t)
    PROVE  /\ GclShapes' /\ Others(t) /\ UNCHANGED <<GclWorld, GclSubs, gclNext>>
           /\ GclAt(t, "sent") /\ gclThread[t].lost
           /\ \/ /\ gclThread'[t].at = "idle" /\ gclThread'[t].tries = 0
                 /\ gclThread[t].tries >= Retries
              \/ /\ gclThread'[t].at = "marks" /\ gclThread'[t].on = gclThread[t].on
                 /\ gclThread'[t].tries = gclThread[t].tries
                 /\ gclThread'[t].dropped = gclThread[t].dropped
<1> DEFINE m == [gclThread[t] EXCEPT !.at = "marks"]
           c == IF gclThread[t].tries >= Retries THEN GclDropped ELSE m
<1>1. /\ gclThread' = [gclThread EXCEPT ![t] = c] /\ UNCHANGED <<GclWorld, GclSubs, gclNext>>
      /\ GclAt(t, "sent") /\ gclThread[t].lost
  BY DEF GclBreaks
<1>2. m \in GclCalls /\ GclDropped \in GclCalls
  BY CallSteps, IdleCalls DEF GclShapes
<1>3. /\ GclDropped.at = "idle" /\ GclDropped.look = 0 /\ GclDropped.tries = 0
      /\ m.at = "marks" /\ m.on = gclThread[t].on /\ m.look = gclThread[t].look
      /\ m.tries = gclThread[t].tries /\ m.dropped = gclThread[t].dropped
  BY DEF GclIdle, GclDropped, GclShapes, GclCalls
<1> HIDE DEF m
<1>4. c \in GclCalls /\ c.look <= NBackends + NBackends
  BY <1>2, <1>3, GrpcCallsAssumption DEF GclShapes
<1>5. \/ gclThread[t].tries >= Retries /\ c = GclDropped
      \/ c = m
  OBVIOUS
<1> HIDE DEF c
<1>6. /\ gclThread'[t] = c /\ gclThread' \in [Threads -> GclCalls] /\ Others(t)
      /\ \A u \in Threads : gclThread'[u].look <= NBackends + NBackends
  BY <1>1, <1>4, OneCall DEF Others
<1>7. GclShapes'
  BY <1>1, <1>6 DEF GclShapes, GclWorld, GclSubs
<1> QED
  BY <1>1, <1>3, <1>5, <1>6, <1>7

LEMMA MarksDoes ==
    ASSUME GclShapes, NEW t \in Threads, GclMarksDead(t)
    PROVE  /\ GclShapes' /\ Others(t) /\ UNCHANGED GclWorld
           /\ GclAt(t, "marks") /\ gclSkip' = gclSkip \cup {gclThread[t].on}
           /\ gclSub'[gclThread[t].on] = "none"
           /\ \A b \in Backends : gclSub'[b] = "stale" => gclSub[b] = "stale"
           /\ gclThread'[t].at = "again" /\ gclThread'[t].tries = gclThread[t].tries + 1
           /\ gclThread'[t].dropped = gclThread[t].dropped
<1> DEFINE b == gclThread[t].on
           c == [gclThread[t] EXCEPT !.at = "again", !.tries = gclThread[t].tries + 1]
<1>1. /\ GclAt(t, "marks") /\ gclThread' = [gclThread EXCEPT ![t] = c]
      /\ gclSub' = [gclSub EXCEPT ![b] = "none"] /\ gclSkip' = gclSkip \cup {b}
      /\ UNCHANGED <<GclWorld, gclNext>>
  BY DEF GclMarksDead, GclAt
<1>2. b \in Backends
  BY LookedIn
<1>3. c \in GclCalls
  BY CallSteps DEF GclShapes
<1>4. /\ c.at = "again" /\ c.tries = gclThread[t].tries + 1
      /\ c.look = gclThread[t].look /\ c.dropped = gclThread[t].dropped
  BY DEF GclShapes, GclCalls
<1> HIDE DEF b, c
<1>5. /\ gclSub' \in [Backends -> {"none", "live", "stale", "broken"}] /\ gclSub'[b] = "none"
      /\ \A a \in Backends : gclSub'[a] = "stale" => gclSub[a] = "stale"
  BY <1>1, <1>2 DEF GclShapes
<1>6. c.look <= NBackends + NBackends
  BY <1>4 DEF GclShapes
<1>7. /\ gclThread'[t] = c /\ gclThread' \in [Threads -> GclCalls] /\ Others(t)
      /\ \A u \in Threads : gclThread'[u].look <= NBackends + NBackends
  BY <1>1, <1>3, <1>6, OneCall DEF Others
<1>8. GclShapes'
  BY <1>1, <1>2, <1>5, <1>7 DEF GclShapes, GclWorld
<1> QED
  BY <1>1, <1>4, <1>5, <1>7, <1>8 DEF b

LEMMA FallsDoes ==
    ASSUME GclShapes, NEW b \in Backends, BackendFalls(b)
    PROVE  /\ GclShapes' /\ gclSkip' = gclSkip /\ gclFalls' = gclFalls + 1
           /\ Down = {} /\ Down' = {b}
           /\ \A a \in Backends : gclSub'[a] = "stale" => gclSub[a] = "stale" \/ a = b
           /\ \A t \in Threads :
                 /\ gclThread'[t].at = gclThread[t].at
                 /\ gclThread'[t].look = gclThread[t].look
                 /\ gclThread'[t].from = gclThread[t].from
                 /\ gclThread'[t].on = gclThread[t].on
                 /\ gclThread'[t].tries = gclThread[t].tries
                 /\ gclThread'[t].dropped = gclThread[t].dropped
                 /\ gclThread'[t].lost => gclThread[t].lost \/ gclThread[t].on = b
<1>1. /\ gclUp = Backends /\ gclFalls < MaxFalls
      /\ gclUp' = gclUp \ {b} /\ gclFalls' = gclFalls + 1
      /\ gclSub' = [gclSub EXCEPT ![b] = IF @ = "live" THEN "stale" ELSE @]
      /\ UNCHANGED <<gclSkip, gclNext>>
  BY DEF BackendFalls
<1>2. /\ gclThread' \in [Threads -> GclCalls]
      /\ \A t \in Threads : \/ gclThread'[t] = gclThread[t]
                            \/ gclThread'[t] = [gclThread[t] EXCEPT !.lost = TRUE]
                               /\ gclThread[t].on = b
  BY CallSteps DEF BackendFalls, GclShapes
<1>3. \A t \in Threads :
         /\ gclThread'[t].at = gclThread[t].at
         /\ gclThread'[t].look = gclThread[t].look
         /\ gclThread'[t].from = gclThread[t].from
         /\ gclThread'[t].on = gclThread[t].on
         /\ gclThread'[t].tries = gclThread[t].tries
         /\ gclThread'[t].dropped = gclThread[t].dropped
         /\ gclThread'[t].lost => gclThread[t].lost \/ gclThread[t].on = b
  BY <1>2 DEF GclShapes, GclCalls
<1>4. /\ gclSub' \in [Backends -> {"none", "live", "stale", "broken"}]
      /\ \A a \in Backends : gclSub'[a] = "stale" => gclSub[a] = "stale" \/ a = b
  BY <1>1 DEF GclShapes
<1>5. gclFalls' \in Nat /\ gclFalls' <= MaxFalls
  BY <1>1, GrpcCallsAssumption DEF GclShapes
<1>6. GclShapes'
  BY <1>1, <1>2, <1>3, <1>4, <1>5 DEF GclShapes
<1>7. Down = {} /\ Down' = {b}
  BY <1>1 DEF Down
<1> QED
  BY <1>1, <1>3, <1>4, <1>6, <1>7

LEMMA HealsDoes ==
    ASSUME GclShapes, NEW b \in Backends,
           BackendReturns(b) \/ ConnectionEnds(b) \/ BackoffEnds(b)
    PROVE  /\ GclShapes' /\ UNCHANGED <<gclFalls, gclThread>>
           /\ Down' \subseteq Down /\ gclSkip' \subseteq gclSkip
           /\ \A a \in Backends : gclSub'[a] = "stale" => gclSub[a] = "stale"
<1>1. CASE BackendReturns(b)
  BY <1>1 DEF BackendReturns, GclSubs, GclShapes, Down
<1>2. CASE ConnectionEnds(b)
  BY <1>2 DEF ConnectionEnds, GclWorld, GclShapes, Down
<1>3. CASE BackoffEnds(b)
  BY <1>3 DEF BackoffEnds, GclWorld, GclShapes, Down
<1> QED
  BY <1>1, <1>2, <1>3

-----------------------------------------------------------------------------
(* The parts of the invariant.                                               *)
LEMMA OthersSame ==
    ASSUME NEW t \in Threads, Others(t)
    PROVE  \A u \in Threads : u # t => Round(u)' = Round(u) /\ LostOf(u)' = LostOf(u)
BY DEF Others, Round, LostOf, LostOne, GclAt

LEMMA Traces ==
    /\ Troubled \in SUBSET Backends \/ ~GclShapes
    /\ \A u \in Threads : /\ Round(u) \in SUBSET Backends
                          /\ Stale \cup LostOf(u) \in SUBSET Backends
                          /\ Stale \cup LostOf(u) \subseteq Troubled
BY DEF Troubled, Down, Stale, LostOf, Round, GclShapes

\* What a step of a call that is no fall does to the traces.
Quiet(t) ==
    /\ GclShapes' /\ Others(t) /\ UNCHANGED GclWorld
    /\ gclSkip' \subseteq Troubled
    /\ \A b \in Backends : gclSub'[b] = "stale" => gclSub[b] = "stale"
    /\ LostOf(t)' \subseteq Stale \cup LostOf(t)
    /\ Round(t)' \subseteq Round(t) \cup Troubled
    /\ \/ gclThread'[t].tries = 0 /\ LostOf(t)' = {}
       \/ gclThread'[t].tries = gclThread[t].tries
       \/ /\ gclThread'[t].tries = gclThread[t].tries + 1
          /\ \E b \in LostOf(t) : b \notin Stale' \cup LostOf(t)'

LEMMA QuietTrouble ==
    ASSUME GclInv, NEW t \in Threads, Quiet(t)
    PROVE  TroubleIsAFall' /\ Troubled' \subseteq Troubled
<1>1. GclShapes /\ TroubleIsAFall
  BY DEF GclInv
<1>2. Stale' \subseteq Stale /\ Down' = Down
  BY DEF Quiet, Stale, Down, GclWorld
<1>3. \A u \in Threads : LostOf(u)' \subseteq Troubled
  BY OthersSame, Traces DEF Quiet, Troubled
<1>4. Troubled' \subseteq Troubled
  BY <1>2, <1>3 DEF Quiet, Troubled
<1>5. \A u \in Threads : Round(u)' \subseteq Round(u) \cup Troubled
  BY OthersSame DEF Quiet
<1>6. ASSUME NEW u \in Threads
      PROVE  Cardinality(Troubled' \cup Round(u)') <= gclFalls'
  <2>1. /\ Troubled \cup Round(u) \in SUBSET Backends
        /\ Troubled' \cup Round(u)' \subseteq Troubled \cup Round(u)
        /\ Troubled' \cup Round(u)' \in SUBSET Backends
    BY <1>1, <1>4, <1>5, Traces
  <2>2. Cardinality(Troubled' \cup Round(u)') <= Cardinality(Troubled \cup Round(u))
    BY <2>1, Sizes
  <2>3. /\ Cardinality(Troubled' \cup Round(u)') \in Nat
        /\ Cardinality(Troubled \cup Round(u)) \in Nat
    BY <2>1, BackendsFinite
  <2> QED
    <3>1. gclFalls' = gclFalls /\ gclFalls \in Nat
      BY <1>1 DEF Quiet, GclWorld, GclShapes
    <3>2. Cardinality(Troubled \cup Round(u)) <= gclFalls
      BY <1>1 DEF TroubleIsAFall
    <3> QED
      BY <2>2, <2>3, <3>1, <3>2
<1> QED
  BY <1>4, <1>6 DEF TroubleIsAFall

LEMMA QuietTries ==
    ASSUME GclInv, NEW t \in Threads, Quiet(t)
    PROVE  TriesAreFalls'
<1>1. GclShapes /\ TriesAreFalls /\ GclShapes' /\ gclFalls' = gclFalls /\ gclFalls \in Nat
  BY DEF GclInv, Quiet, GclShapes, GclWorld
<1>2. Stale' \subseteq Stale
  BY DEF Quiet, Stale
<1>3. ASSUME NEW u \in Threads
      PROVE  gclThread'[u].tries + Cardinality(Stale' \cup LostOf(u)') <= gclFalls'
  <2> DEFINE S == Stale \cup LostOf(u)
             T == Stale' \cup LostOf(u)'
             n == gclThread[u].tries
             m == gclThread'[u].tries
  <2>1. /\ S \in SUBSET Backends /\ T \in SUBSET Backends
        /\ n \in Nat /\ m \in Nat /\ n + Cardinality(S) <= gclFalls
    <3>1. n \in Nat /\ n + Cardinality(S) <= gclFalls /\ S \in SUBSET Backends
      BY <1>1, LookedIn, Traces DEF TriesAreFalls
    <3>2. m \in Nat
      BY <1>1 DEF GclShapes, GclCalls
    <3>3. T \in SUBSET Backends
      BY DEF Stale, LostOf
    <3> QED
      BY <3>1, <3>2, <3>3
  <2>2. T \subseteq S
    BY <1>2, OthersSame DEF Quiet
  <2>3. \/ m = 0 /\ u = t
        \/ m = n
        \/ m = n + 1 /\ \E b \in S : T \subseteq S \ {b}
    <3>1. CASE u # t
      BY <3>1 DEF Quiet, Others
    <3>2. CASE u = t
      BY <2>2, <3>2 DEF Quiet
    <3> QED
      BY <3>1, <3>2
  <2>4. CASE m = 0
    <3>1. T \subseteq Troubled' \cup Round(u)'
      BY DEF Troubled, LostOf
    <3>2. Troubled' \cup Round(u)' \in SUBSET Backends
      BY <1>1 DEF Troubled, Down, Stale, LostOf, Round, GclShapes
    <3>3. Cardinality(T) <= Cardinality(Troubled' \cup Round(u)')
      BY <2>1, <3>1, <3>2, Sizes
    <3>4. Cardinality(Troubled' \cup Round(u)') <= gclFalls'
      BY QuietTrouble DEF TroubleIsAFall
    <3>5. Cardinality(T) \in Nat /\ Cardinality(Troubled' \cup Round(u)') \in Nat
      BY <2>1, <3>2, BackendsFinite
    <3> HIDE DEF T, m
    <3>6. m + Cardinality(T) <= gclFalls'
      BY <1>1, <2>4, <3>3, <3>4, <3>5
    <3> QED
      BY <3>6 DEF T, m
  <2> HIDE DEF S, T, m, n
  <2>5. CASE m = n
    <3>1. Cardinality(T) <= Cardinality(S) /\ Cardinality(T) \in Nat /\ Cardinality(S) \in Nat
      BY <2>1, <2>2, Sizes
    <3> QED
      BY <1>1, <2>1, <2>5, <3>1 DEF m, T
  <2>6. CASE m = n + 1 /\ \E b \in S : T \subseteq S \ {b}
    <3>1. Cardinality(T) + 1 <= Cardinality(S) /\ Cardinality(T) \in Nat
          /\ Cardinality(S) \in Nat
      BY <2>1, <2>6, Sizes
    <3> QED
      BY <1>1, <2>1, <2>6, <3>1 DEF m, T
  <2> QED
    BY <2>3, <2>4, <2>5, <2>6
<1> QED
  BY <1>3 DEF TriesAreFalls

\* The steps of a call are of that kind.
LEMMA CallsQuiet ==
    ASSUME GclInv, NEW t \in Threads,
           \/ GclCall(t) \/ GclPickStarts(t) \/ GclPasses(t) \/ GclPicks(t)
           \/ GclRefused(t) \/ GclNone(t) \/ GclAnswered(t)
           \/ GclBreaks(t) \/ GclMarksDead(t)
    PROVE  Quiet(t)
<1> USE DEF Quiet, LostOf, LostOne, GclAt
<1>0. GclShapes /\ gclSkip \subseteq Troubled
  BY DEF GclInv, Troubled
<1>1. CASE GclCall(t)
  BY <1>0, <1>1, CallDoes DEF Round, GclSubs
<1>2. CASE GclPickStarts(t)
  <2>1. Round(t)' = {}
    BY <1>0, <1>2, PickStartsDoes DEF Round
  <2> QED
    BY <1>0, <1>2, <2>1, PickStartsDoes DEF GclSubs
<1>3. CASE GclPasses(t)
  <2>1. Round(t)' \subseteq Round(t) \cup Troubled
    BY <1>0, <1>3, PassesDoes, LookedIn DEF Round, Looked, GclAt
  <2> QED
    BY <1>0, <1>3, <2>1, PassesDoes DEF GclSubs
<1>4. CASE GclPicks(t)
  <2>1. Round(t)' = {}
    BY <1>0, <1>4, PicksDoes DEF Round
  <2>2. LostOf(t)' \subseteq Stale
    BY <1>0, <1>4, PicksDoes DEF Stale
  <2> QED
    BY <1>0, <1>4, <2>1, <2>2, PicksDoes
<1>5. CASE GclRefused(t)
  <2>1. Round(t)' \subseteq Round(t) \cup {Looked(t)}
    BY <1>0, <1>5, RefusedDoes, LookedIn DEF Round, Looked, GclAt
  <2>2. Looked(t) \in Troubled
    BY <1>0, <1>5, RefusedDoes DEF Troubled
  <2> QED
    BY <1>0, <1>5, <2>1, <2>2, RefusedDoes
<1>6. CASE GclNone(t) \/ GclAnswered(t)
  BY <1>0, <1>6, EndsDoes DEF Round, GclSubs
<1>7. CASE GclBreaks(t)
  <2>1. Round(t)' = {}
    BY <1>0, <1>7, BreaksDoes DEF Round
  <2> QED
    BY <1>0, <1>7, <2>1, BreaksDoes DEF GclSubs
<1>8. CASE GclMarksDead(t)
  <2>1. Round(t)' = {} /\ LostOf(t)' = {} /\ gclThread[t].on \in LostOf(t)
    BY <1>0, <1>8, MarksDoes, LookedIn DEF Round
  <2>2. gclThread[t].on \notin Stale' /\ gclThread[t].on \in Troubled
    BY <1>0, <1>8, <2>1, MarksDoes DEF Stale, Troubled
  <2> HIDE DEF LostOf
  <2> QED
    BY <1>0, <1>8, <2>1, <2>2, MarksDoes
<1> QED
  BY <1>1, <1>2, <1>3, <1>4, <1>5, <1>6, <1>7, <1>8

\* One backend is down after a fall, and none comes down otherwise.
LEMMA OneDownKept ==
    ASSUME GclInv, GclNext
    PROVE  OneDown'
<1>1. GclShapes /\ OneDown
  BY DEF GclInv
<1>2. ASSUME NEW t \in Threads, Quiet(t)
      PROVE  OneDown'
  BY <1>1, <1>2 DEF Quiet, OneDown, Down, GclWorld
<1>3. ASSUME NEW b \in Backends, BackendFalls(b)
      PROVE  OneDown'
  BY <1>1, <1>3, FallsDoes DEF OneDown
<1>4. ASSUME NEW b \in Backends, BackendReturns(b) \/ ConnectionEnds(b) \/ BackoffEnds(b)
      PROVE  OneDown'
  BY <1>1, <1>4, HealsDoes DEF OneDown
<1> QED
  BY <1>2, <1>3, <1>4, CallsQuiet DEF GclNext

\* A pick in its second round after one more look.
LEMMA RefusedAgain ==
    ASSUME GclInv, NEW t \in Threads, GclRefused(t), gclThread[t].look >= NBackends
    PROVE  /\ gclFalls >= gclThread[t].look
           /\ \A b \in Down : b = (gclThread[t].from + gclThread[t].look) % NBackends
<1>1. /\ GclShapes /\ TroubleIsAFall /\ OneDown /\ SecondRound
  BY DEF GclInv
<1> DEFINE look == gclThread[t].look
           from == gclThread[t].from
<1>2. /\ GclAt(t, "pick") /\ look < NBackends + NBackends /\ Looked(t) \in Down
      /\ look \in Nat /\ from \in Backends /\ from \in Nat /\ from < NBackends
      /\ NBackends \in Nat /\ gclFalls \in Nat
  BY <1>1, RefusedDoes, LookedIn, GrpcCallsAssumption DEF GclShapes, Backends
<1>3. gclFalls >= NBackends
  <2>1. Round(t) = Backends
    BY <1>2, FullTurn DEF Round
  <2>2. Troubled \cup Round(t) = Backends
    BY <1>1, <2>1, Traces
  <2> QED
    BY <1>1, <1>2, <2>2, BackendsFinite DEF TroubleIsAFall
<1>4. \A b \in Down : b = Looked(t)
  BY <1>1, <1>2, <1>3 DEF OneDown
<1>5. gclFalls >= look
  <2>1. CASE look = NBackends
    BY <1>3, <2>1
  <2>2. CASE look > NBackends
    <3>1. gclFalls >= look - 1
      BY <1>1, <1>2, <2>2 DEF SecondRound
    <3>2. CASE gclFalls = look - 1
      <4> DEFINE i == from + (look - 1)
      <4>1. Looked(t) = i % NBackends
        BY <1>1, <1>2, <2>2, <3>2 DEF SecondRound
      <4>2. /\ i \in Nat /\ i + 1 < NBackends + NBackends + NBackends /\ i + 1 = from + look
            /\ NBackends > 1
        BY <1>2, <2>2
      <4>3. Looked(t) = (i + 1) % NBackends
        BY <4>2 DEF Looked
      <4> HIDE DEF i
      <4> QED
        BY <4>1, <4>2, <4>3, TurnsOn
    <3> QED
      BY <1>2, <3>1, <3>2
  <2> QED
    BY <1>2, <2>1, <2>2
<1> QED
  BY <1>4, <1>5 DEF Looked

LEMMA SecondRoundQuiet ==
    ASSUME GclInv, NEW t \in Threads,
           \/ GclCall(t) \/ GclPickStarts(t) \/ GclPasses(t) \/ GclPicks(t)
           \/ GclRefused(t) \/ GclNone(t) \/ GclAnswered(t)
           \/ GclBreaks(t) \/ GclMarksDead(t)
    PROVE  SecondRound'
<1> DEFINE P(u) ==
        GclAt(u, "pick") /\ gclThread[u].look > NBackends =>
            /\ gclFalls >= gclThread[u].look - 1
            /\ gclFalls = gclThread[u].look - 1 =>
                  \A b \in Down : b = (gclThread[u].from + (gclThread[u].look - 1)) % NBackends
<1>1. GclShapes /\ Others(t) /\ gclFalls' = gclFalls /\ Down' = Down
      /\ \A u \in Threads : P(u)
  BY CallsQuiet DEF GclInv, SecondRound, Quiet, GclWorld, Down
<1>2. ASSUME NEW u \in Threads, u # t
      PROVE  P(u)'
  BY <1>1, <1>2 DEF Others, GclAt
<1>3. P(t)'
  <2>1. CASE GclRefused(t)
    <3> DEFINE n == gclThread[t].look
               m == gclThread'[t].look
    <3>1. /\ m = n + 1 /\ n \in Nat /\ gclFalls \in Nat
          /\ gclThread'[t].from = gclThread[t].from /\ NBackends \in Nat
      BY <1>1, <2>1, RefusedDoes, LookedIn, GrpcCallsAssumption DEF GclShapes
    <3>2. n >= NBackends => /\ gclFalls >= n
                            /\ \A b \in Down : b = (gclThread[t].from + n) % NBackends
      BY <2>1, RefusedAgain
    <3> HIDE DEF n, m
    <3>3. m > NBackends => n >= NBackends /\ m - 1 = n
      BY <3>1
    <3>4. m > NBackends =>
             /\ gclFalls' >= m - 1
             /\ \A b \in Down' : b = (gclThread'[t].from + (m - 1)) % NBackends
      BY <1>1, <3>1, <3>2, <3>3
    <3> QED
      BY <3>4 DEF m
  <2>2. CASE GclPasses(t)
    <3>1. ~(gclThread'[t].look > NBackends)
      BY <1>1, <2>2, PassesDoes, LookedIn, GrpcCallsAssumption
    <3> QED
      BY <3>1
  <2>3. CASE GclPickStarts(t)
    <3>1. ~(gclThread'[t].look > NBackends)
      BY <1>1, <2>3, PickStartsDoes, GrpcCallsAssumption
    <3> QED
      BY <3>1
  <2>4. CASE \/ GclCall(t) \/ GclPicks(t) \/ GclNone(t) \/ GclAnswered(t)
             \/ GclBreaks(t) \/ GclMarksDead(t)
    <3>1. gclThread'[t].at # "pick"
      BY <1>1, <2>4, CallDoes, PicksDoes, EndsDoes, BreaksDoes, MarksDoes
    <3> QED
      BY <3>1 DEF GclAt
  <2> QED
    BY <2>1, <2>2, <2>3, <2>4
<1> QED
  BY <1>2, <1>3 DEF SecondRound

\* No step of a call ends it as unavailable, within the bounds.
LEMMA CallsKeepAnswers ==
    ASSUME GclInv, NEW t \in Threads,
           NBackends > 1, MaxFalls <= Retries, MaxFalls < 2 * NBackends - 1,
           \/ GclCall(t) \/ GclPickStarts(t) \/ GclPasses(t) \/ GclPicks(t)
           \/ GclRefused(t) \/ GclNone(t) \/ GclAnswered(t)
           \/ GclBreaks(t) \/ GclMarksDead(t)
    PROVE  \A u \in Threads : ~gclThread'[u].dropped
<1>1. /\ GclShapes /\ SecondRound /\ TriesAreFalls /\ Others(t)
      /\ \A u \in Threads : ~gclThread[u].dropped
      /\ gclFalls \in Nat /\ gclFalls <= MaxFalls
  BY CallsQuiet DEF GclInv, Quiet, RestartsDropNoCall, GclShapes
<1>2. CASE GclNone(t) \/ GclAnswered(t)
  <2>1. SUFFICES ASSUME GclAt(t, "pick"), gclThread[t].look = NBackends + NBackends
                 PROVE  FALSE
    BY <1>1, <1>2, EndsDoes DEF Others
  <2>2. gclFalls >= gclThread[t].look - 1
    BY <1>1, <2>1, GrpcCallsAssumption DEF SecondRound
  <2> QED
    BY <1>1, <2>1, <2>2, GrpcCallsAssumption
<1>3. CASE GclBreaks(t)
  <2>1. gclThread[t].tries < Retries
    <3> DEFINE S == Stale \cup LostOf(t)
    <3>1. gclThread[t].on \in S
      BY <1>1, <1>3, BreaksDoes, LookedIn DEF LostOf, LostOne
    <3>2. S \in SUBSET Backends /\ gclThread[t].tries \in Nat
          /\ gclThread[t].tries + Cardinality(S) <= gclFalls
      BY <1>1, Traces, LookedIn DEF TriesAreFalls
    <3> HIDE DEF S
    <3>3. Cardinality({}) + 1 <= Cardinality(S) /\ Cardinality({}) \in Nat
          /\ Cardinality(S) \in Nat
      BY <3>1, <3>2, Sizes
    <3> QED
      BY <1>1, <3>2, <3>3, GrpcCallsAssumption
  <2>2. gclThread'[t].dropped = gclThread[t].dropped
    BY <1>1, <1>3, <2>1, BreaksDoes, LookedIn, GrpcCallsAssumption
  <2> QED
    BY <1>1, <2>2 DEF Others
<1>4. CASE GclCall(t) \/ GclPickStarts(t) \/ GclPasses(t)
  BY <1>1, <1>4, CallDoes, PickStartsDoes, PassesDoes DEF Others
<1>5. CASE GclPicks(t) \/ GclRefused(t) \/ GclMarksDead(t)
  BY <1>1, <1>5, PicksDoes, RefusedDoes, MarksDoes DEF Others
<1> QED
  BY <1>2, <1>3, <1>4, <1>5

LEMMA GclStart == GclInit => GclInv
<1> SUFFICES ASSUME GclInit
             PROVE  GclInv
  OBVIOUS
<1>1. GclShapes
  BY ShapesStart
<1>2. \A t \in Threads : /\ gclThread[t].at = "idle" /\ gclThread[t].tries = 0
                         /\ ~gclThread[t].dropped
  BY DEF GclInit, GclIdle
<1>3. Stale = {} /\ gclSkip = {} /\ \A t \in Threads : LostOf(t) = {} /\ Round(t) = {}
  BY <1>2 DEF GclInit, Stale, LostOf, LostOne, Round, GclAt
<1>4. \A t \in Threads : Troubled \cup Round(t) = Down /\ Stale \cup LostOf(t) = {}
  BY <1>3 DEF Troubled
<1>5. gclFalls = Cardinality(Down) /\ gclFalls \in Nat
  BY <1>1 DEF GclInit, Down, GclShapes
<1>6. TroubleIsAFall
  <2>1. ASSUME NEW t \in Threads
        PROVE  Cardinality(Troubled \cup Round(t)) <= gclFalls
    <3>1. Troubled \cup Round(t) = Down
      BY <1>4
    <3> QED
      BY <1>5, <3>1
  <2> QED
    BY <2>1 DEF TroubleIsAFall
<1>7. TriesAreFalls
  <2>1. Cardinality({}) = 0
    BY FS_EmptySet, Zenon
  <2>2. \A t \in Threads : Cardinality(Stale \cup LostOf(t)) = 0
    BY <1>4, <2>1
  <2>3. ASSUME NEW t \in Threads
        PROVE  gclThread[t].tries + Cardinality(Stale \cup LostOf(t)) <= gclFalls
    <3>1. gclThread[t].tries = 0 /\ Cardinality(Stale \cup LostOf(t)) = 0
      BY <1>2, <2>2
    <3> QED
      BY <1>5, <3>1
  <2> QED
    BY <2>3 DEF TriesAreFalls
<1>8. OneDown
  <2>1. PICK b \in gclUp : TRUE
    <3>1. gclUp # {}
      BY DEF GclInit
    <3> QED
      BY <3>1
  <2>2. Cardinality(Down) + 1 <= Cardinality(Backends)
    <3>1. /\ Backends \in SUBSET Backends /\ Down \in SUBSET Backends /\ b \in Backends
          /\ Down \subseteq Backends \ {b}
      BY <1>1, <2>1 DEF Down, GclShapes
    <3> QED
      BY <3>1, Sizes
  <2>3. ~(gclFalls >= NBackends)
    BY <1>5, <2>2, BackendsFinite, GrpcCallsAssumption
  <2> QED
    BY <2>3 DEF OneDown
<1>9. SecondRound
  BY <1>2 DEF SecondRound, GclAt
<1>10. RestartsDropNoCall
  BY <1>2 DEF RestartsDropNoCall
<1> QED
  BY <1>1, <1>6, <1>7, <1>8, <1>9, <1>10 DEF GclInv

\* A fall: one backend more in trouble, and one fall more.
LEMMA FallsKept ==
    ASSUME GclInv, NEW b \in Backends, BackendFalls(b)
    PROVE  GclInv'
<1>1. /\ GclShapes /\ TroubleIsAFall /\ TriesAreFalls /\ SecondRound /\ RestartsDropNoCall
      /\ GclShapes' /\ gclFalls' = gclFalls + 1 /\ gclFalls \in Nat
  BY FallsDoes DEF GclInv, GclShapes
<1>2. /\ Stale' \subseteq Stale \cup {b}
      /\ \A t \in Threads : /\ LostOf(t)' \subseteq LostOf(t) \cup {b}
                            /\ Round(t)' = Round(t)
  BY <1>1, FallsDoes DEF Stale, LostOf, LostOne, GclAt, Round
<1>3. Troubled' \subseteq Troubled \cup {b}
  BY <1>1, <1>2, FallsDoes DEF Troubled
<1>4. ASSUME NEW t \in Threads
      PROVE  Cardinality(Troubled' \cup Round(t)') <= gclFalls'
  <2> DEFINE S == Troubled \cup Round(t)
             T == Troubled' \cup Round(t)'
  <2>1. T \subseteq S \cup {b}
    BY <1>2, <1>3
  <2>2. S \in SUBSET Backends /\ T \in SUBSET Backends /\ Cardinality(S) <= gclFalls
    <3>1. S \in SUBSET Backends /\ Cardinality(S) <= gclFalls
      BY <1>1, Traces DEF TroubleIsAFall
    <3> QED
      BY <2>1, <3>1
  <2> HIDE DEF S, T
  <2>3. Cardinality(T) <= gclFalls + 1
    BY <1>1, <2>1, <2>2, Sizes
  <2> QED
    BY <1>1, <2>3 DEF T
<1>5. ASSUME NEW t \in Threads
      PROVE  gclThread'[t].tries + Cardinality(Stale' \cup LostOf(t)') <= gclFalls'
  <2> DEFINE S == Stale \cup LostOf(t)
             T == Stale' \cup LostOf(t)'
  <2>1. T \subseteq S \cup {b}
    BY <1>2
  <2>2. /\ S \in SUBSET Backends /\ T \in SUBSET Backends
        /\ gclThread[t].tries + Cardinality(S) <= gclFalls
        /\ gclThread[t].tries \in Nat /\ gclThread'[t].tries = gclThread[t].tries
    <3>1. S \in SUBSET Backends /\ gclThread[t].tries + Cardinality(S) <= gclFalls
          /\ gclThread[t].tries \in Nat /\ gclThread'[t].tries = gclThread[t].tries
      BY <1>1, Traces, FallsDoes, LookedIn DEF TriesAreFalls
    <3> QED
      BY <2>1, <3>1
  <2> HIDE DEF S, T
  <2>3. gclThread[t].tries + Cardinality(T) <= gclFalls + 1
    BY <1>1, <2>1, <2>2, Sizes
  <2> QED
    BY <1>1, <2>2, <2>3 DEF T
<1>6. OneDown'
  BY <1>1, FallsDoes DEF OneDown
<1>7. SecondRound'
  <2>1. ASSUME NEW t \in Threads, GclAt(t, "pick")', gclThread'[t].look > NBackends
        PROVE  gclFalls' > gclThread'[t].look - 1
    <3>1. /\ gclThread'[t].look = gclThread[t].look /\ gclThread[t].look \in Nat
          /\ gclFalls >= gclThread[t].look - 1
      BY <1>1, <2>1, FallsDoes, LookedIn DEF SecondRound, GclAt
    <3> QED
      BY <1>1, <3>1
  <2>2. \A t \in Threads : gclThread'[t].look \in Nat
    BY <1>1 DEF GclShapes, GclCalls
  <2> QED
    BY <1>1, <2>1, <2>2 DEF SecondRound
<1>8. RestartsDropNoCall'
  BY <1>1, FallsDoes DEF RestartsDropNoCall
<1> QED
  BY <1>1, <1>4, <1>5, <1>6, <1>7, <1>8 DEF GclInv, TroubleIsAFall, TriesAreFalls

\* A backend that returns, a loss noticed, a backoff over: less trouble.
LEMMA HealsKept ==
    ASSUME GclInv, NEW b \in Backends,
           BackendReturns(b) \/ ConnectionEnds(b) \/ BackoffEnds(b)
    PROVE  GclInv'
<1>1. /\ GclShapes /\ TroubleIsAFall /\ TriesAreFalls /\ SecondRound /\ RestartsDropNoCall
      /\ OneDown /\ GclShapes' /\ UNCHANGED <<gclFalls, gclThread>> /\ gclFalls \in Nat
      /\ Down' \subseteq Down
  BY HealsDoes DEF GclInv, GclShapes
<1>2. /\ Stale' \subseteq Stale
      /\ \A t \in Threads : LostOf(t)' = LostOf(t) /\ Round(t)' = Round(t)
  BY <1>1, HealsDoes DEF Stale, LostOf, LostOne, GclAt, Round
<1>3. Troubled' \subseteq Troubled
  BY <1>1, <1>2, HealsDoes DEF Troubled
<1>4. ASSUME NEW t \in Threads
      PROVE  Cardinality(Troubled' \cup Round(t)') <= gclFalls'
  <2> DEFINE S == Troubled \cup Round(t)
             T == Troubled' \cup Round(t)'
  <2>1. T \subseteq S
    BY <1>2, <1>3
  <2>2. S \in SUBSET Backends /\ T \in SUBSET Backends /\ Cardinality(S) <= gclFalls
    <3>1. S \in SUBSET Backends /\ Cardinality(S) <= gclFalls
      BY <1>1, Traces DEF TroubleIsAFall
    <3> QED
      BY <2>1, <3>1
  <2> HIDE DEF S, T
  <2>3. Cardinality(T) <= gclFalls
    BY <1>1, <2>1, <2>2, Sizes
  <2> QED
    BY <1>1, <2>3 DEF T
<1>5. ASSUME NEW t \in Threads
      PROVE  gclThread'[t].tries + Cardinality(Stale' \cup LostOf(t)') <= gclFalls'
  <2> DEFINE S == Stale \cup LostOf(t)
             T == Stale' \cup LostOf(t)'
  <2>1. T \subseteq S
    BY <1>2
  <2>2. /\ S \in SUBSET Backends /\ T \in SUBSET Backends
        /\ gclThread[t].tries + Cardinality(S) <= gclFalls
        /\ gclThread[t].tries \in Nat /\ gclThread'[t].tries = gclThread[t].tries
    <3>1. S \in SUBSET Backends /\ gclThread[t].tries + Cardinality(S) <= gclFalls
          /\ gclThread[t].tries \in Nat /\ gclThread'[t].tries = gclThread[t].tries
      BY <1>1, Traces, LookedIn DEF TriesAreFalls
    <3> QED
      BY <2>1, <3>1
  <2> HIDE DEF S, T
  <2>3. gclThread[t].tries + Cardinality(T) <= gclFalls
    BY <1>1, <2>1, <2>2, Sizes
  <2> QED
    BY <1>1, <2>2, <2>3 DEF T
<1>6. OneDown' /\ SecondRound' /\ RestartsDropNoCall'
  BY <1>1 DEF OneDown, SecondRound, RestartsDropNoCall, GclAt
<1> QED
  BY <1>1, <1>4, <1>5, <1>6 DEF GclInv, TroubleIsAFall, TriesAreFalls

LEMMA GclKept == GclInv /\ [GclNext]_gclVars => GclInv'
<1> SUFFICES ASSUME GclInv, [GclNext]_gclVars
             PROVE  GclInv'
  OBVIOUS
<1>1. ASSUME NEW t \in Threads,
             \/ GclCall(t) \/ GclPickStarts(t) \/ GclPasses(t) \/ GclPicks(t)
             \/ GclRefused(t) \/ GclNone(t) \/ GclAnswered(t)
             \/ GclBreaks(t) \/ GclMarksDead(t)
      PROVE  GclInv'
  <2>1. GclShapes' /\ TroubleIsAFall' /\ TriesAreFalls'
    BY <1>1, CallsQuiet, QuietTrouble, QuietTries DEF Quiet
  <2>2. OneDown' /\ SecondRound'
    BY <1>1, OneDownKept, SecondRoundQuiet DEF GclNext
  <2>3. RestartsDropNoCall'
    BY <1>1, CallsKeepAnswers DEF RestartsDropNoCall
  <2> QED
    BY <2>1, <2>2, <2>3 DEF GclInv
<1>2. CASE UNCHANGED gclVars
  BY <1>2 DEF gclVars, GclInv, GclShapes, TroubleIsAFall, OneDown, SecondRound, TriesAreFalls,
     RestartsDropNoCall, Troubled, Round, Down, Stale, LostOf, LostOne, GclAt
<1> QED
  BY <1>1, <1>2, FallsKept, HealsKept DEF GclNext

\* While the backends restart one after the other, and no more often than the
\* bounds of the property allow, no call ends because nobody could be reached:
\* for every number of backends, of tries and of threads
\* (grpc_client_ffi.rs: pick_sender, mark_dead, the loop of unary_call).
THEOREM RestartsAreSurvived ==
    GclInit /\ [][GclNext]_gclVars => []RestartsDropNoCall
<1>1. GclInv => RestartsDropNoCall
  BY DEF GclInv
<1> QED
  BY <1>1, GclStart, GclKept, PTL

-----------------------------------------------------------------------------
(* A child process: the end is told after the last line.                     *)
SubInv ==
    /\ SubTypes
    /\ subChild = "none" => subWritten = 0
    /\ subBad # 0 => subQueued < subBad
    /\ subEof => subQueued = Readable /\ (subChild = "gone" \/ NextIsBad)
    /\ \A t \in Threads : subThread[t].told = "end" => subEof /\ subTaken = Readable

LEMMA SubInvInit == SubInit => SubInv
<1> SUFFICES ASSUME SubInit PROVE SubInv
  OBVIOUS
<1>1. /\ subTaken = 0 /\ subQueued = 0 /\ subWritten = 0 /\ subBad = 0 /\ subInput = 0
      /\ 0 \in 0..InputRoom /\ 0 \in 0..MaxLines /\ 0 \in 0..0
  BY SubprocessAssumption DEF SubInit
<1>2. \A t \in Threads : subThread[t].told = "nothing"
  BY DEF SubInit
<1> QED
  BY <1>1, <1>2 DEF SubInit, SubInv, SubTypes, Readable

SubPlaces ==
    {"idle", "write", "pipe", "read", "look", "flag", "timed read", "timed look",
     "timed flag", "is alive", "terminate"}

SubThreads == [Threads -> [at : SubPlaces, told : {"nothing", "line", "end"}]]

LEMMA SubThreadsKept ==
    ASSUME subThread \in SubThreads, NEW t \in Threads
    PROVE  /\ \A p \in SubPlaces : SubGo(t, p) =>
                 /\ subThread' \in SubThreads
                 /\ \A u \in Threads : subThread'[u].told = subThread[u].told
           /\ \A what \in {"nothing", "line", "end"} : SubReturns(t, what) =>
                 /\ subThread' \in SubThreads
                 /\ \A u \in Threads : subThread'[u].told \in {subThread[u].told, what}
<1>1. ASSUME NEW p \in SubPlaces, SubGo(t, p)
      PROVE  /\ subThread' \in SubThreads
             /\ \A u \in Threads : subThread'[u].told = subThread[u].told
  BY <1>1 DEF SubGo, SubThreads
<1>2. ASSUME NEW what \in {"nothing", "line", "end"}, SubReturns(t, what)
      PROVE  /\ subThread' \in SubThreads
             /\ \A u \in Threads : subThread'[u].told \in {subThread[u].told, what}
  BY <1>2 DEF SubReturns, SubThreads, SubPlaces
<1> QED
  BY <1>1, <1>2

\* A step that keeps the lines and the child, or kills it.
LEMMA SubQuiet ==
    ASSUME SubInv, NEW t \in Threads, UNCHANGED subLines, subChild' \in {subChild, "gone"},
           subInput' \in 0..InputRoom, subOpen' \in BOOLEAN, subLock' \in Threads \cup {None},
           NEW p \in SubPlaces,
           SubGo(t, p) \/ SubReturns(t, "nothing") \/ subThread' = subThread
    PROVE  SubInv'
<1>1. /\ subThread' \in SubThreads
      /\ \A u \in Threads : subThread'[u].told \in {subThread[u].told, "nothing"}
  BY SubThreadsKept DEF SubInv, SubTypes, SubThreads, SubPlaces
<1> QED
  BY <1>1 DEF SubInv, SubTypes, SubThreads, SubPlaces, subLines, Readable, NextIsBad

LEMMA SubTakes ==
    ASSUME SubInv, NEW t \in Threads, TakesLine(t), ~SubAt(t, "pipe"),
           UNCHANGED <<subOpen, subChild, subInput, subWritten, subBad, subQueued, subEof,
                       subLock>>
    PROVE  SubInv'
<1>1. /\ subThread' \in SubThreads
      /\ \A u \in Threads : subThread'[u].told \in {subThread[u].told, "line"}
  BY SubThreadsKept DEF SubInv, SubTypes, SubThreads, SubPlaces, TakesLine
<1>2. /\ subTaken < subQueued /\ subTaken' = subTaken + 1 /\ subQueued \in 0..subWritten
      /\ subTaken \in 0..subQueued /\ subWritten \in 0..MaxLines /\ MaxLines \in Nat
  BY SubprocessAssumption DEF SubInv, SubTypes, TakesLine
<1>3. \A u \in Threads : subThread[u].told # "end"
  BY <1>2 DEF SubInv
<1>4. subTaken' \in 0..subQueued'
  BY <1>2
<1> QED
  BY <1>1, <1>3, <1>4 DEF SubInv, SubTypes, SubThreads, SubPlaces, Readable, NextIsBad

LEMMA SubInvNext ==
    ASSUME SubInv, [SubNext]_subVars
    PROVE  SubInv'
<1> USE DEF SubAt, Readable, NextIsBad
<1>1. ASSUME NEW t \in Threads,
             \/ SubSpawn(t) \/ SubCall(t) \/ SubWriteEnters(t) \/ SubWrite(t)
             \/ SubReadEnters(t) \/ SubLookAgain(t) \/ SubAsks(t) \/ SubTerminate(t)
      PROVE  SubInv'
  <2>0. /\ subOpen \in BOOLEAN /\ subInput \in 0..InputRoom /\ subLock \in Threads \cup {None}
        /\ InputRoom \in Nat
    BY SubprocessAssumption DEF SubInv, SubTypes
  <2>1. CASE SubSpawn(t)
    <3>0. /\ subChild = "none" /\ subWritten = 0
          /\ subBad \in 0..subWritten /\ subQueued \in 0..subWritten
      BY <2>1 DEF SubSpawn, SubInv, SubTypes
    <3>1. subBad = 0 /\ subQueued = 0 /\ ~NextIsBad
      BY <3>0
    <3>2. ~subEof /\ \A u \in Threads : subThread[u].told # "end"
      BY <3>0, <3>1 DEF SubInv
    <3> QED
      BY <2>1, <3>0, <3>1, <3>2 DEF SubSpawn, SubInv, SubTypes, subLines
  <2>2. CASE SubCall(t)
    BY <2>0, <2>2, SubQuiet DEF SubCall, SubPlaces
  <2>3. CASE SubWriteEnters(t)
    BY <2>0, <2>3, SubQuiet DEF SubWriteEnters, SubPlaces
  <2>4. CASE SubWrite(t)
    <3>1. subInput' \in 0..InputRoom
      BY <2>0, <2>4 DEF SubWrite
    <3> QED
      BY <2>0, <2>4, <3>1, SubQuiet DEF SubWrite, subLines, SubPlaces
  <2>5. CASE SubReadEnters(t)
    BY <2>0, <2>5, SubQuiet DEF SubReadEnters, SubPlaces
  <2>6. CASE SubLookAgain(t)
    BY <2>0, <2>6, SubQuiet DEF SubLookAgain, SubPlaces
  <2>7. CASE SubAsks(t)
    BY <2>0, <2>7, SubQuiet DEF SubAsks, SubPlaces
  <2>8. CASE SubTerminate(t)
    BY <2>0, <2>8, SubQuiet DEF SubTerminate, SubPlaces
  <2> QED
    BY <1>1, <2>1, <2>2, <2>3, <2>4, <2>5, <2>6, <2>7, <2>8
<1>2. ASSUME NEW t \in Threads, SubLook(t)
      PROVE  SubInv'
  <2>1. CASE TakesLine(t)
    BY <1>2, <2>1, SubTakes DEF SubLook, Looking
  <2>2. CASE ~TakesLine(t)
    BY <1>2, <2>2, SubQuiet DEF SubLook, SubPlaces, subLines, SubInv, SubTypes
  <2> QED
    BY <2>1, <2>2
<1>3. ASSUME NEW t \in Threads, SubEnds(t)
      PROVE  SubInv'
  <2>1. CASE TakesLine(t)
    BY <1>3, <2>1, SubTakes DEF SubEnds, Flagged
  <2>2. CASE ~TakesLine(t)
    <3>1. /\ subTaken = subQueued /\ subEof /\ SubReturns(t, "end")
          /\ UNCHANGED <<subOpen, subChild, subInput, subWritten, subBad, subQueued, subEof,
                         subLock, subTaken>>
      BY <1>3, <2>2 DEF SubEnds, Flagged
    <3>2. subThread' \in SubThreads
      BY <3>1, SubThreadsKept DEF SubInv, SubTypes, SubThreads, SubPlaces
    <3> QED
      BY <3>1, <3>2 DEF SubInv, SubTypes, SubThreads, SubPlaces
  <2> QED
    BY <2>1, <2>2
<1>4. CASE SubQueues \/ SubEofSeen \/ ChildReads \/ ChildWrites \/ ChildExits
  <2>1. /\ subQueued \in 0..subWritten /\ subTaken \in 0..subQueued
        /\ subWritten \in 0..MaxLines /\ MaxLines \in Nat /\ subInput \in 0..InputRoom
        /\ subBad \in 0..subWritten /\ (subBad # 0 => subQueued < subBad)
        /\ InputRoom \in Nat
    BY SubprocessAssumption DEF SubInv, SubTypes
  <2>2. CASE SubQueues
    <3>1. subQueued' \in 0..subWritten' /\ subTaken' \in 0..subQueued'
      BY <2>1, <2>2 DEF SubQueues
    <3>2. subBad # 0 => subQueued' < subBad
      BY <2>1, <2>2 DEF SubQueues
    <3> QED
      BY <2>1, <2>2, <3>1, <3>2 DEF SubQueues, SubInv, SubTypes
  <2>3. CASE SubEofSeen
    <3>1. subQueued = Readable
      BY <2>1, <2>3 DEF SubEofSeen
    <3> HIDE DEF Readable
    <3>2. UNCHANGED Readable /\ (NextIsBad => NextIsBad')
      BY <2>3 DEF SubEofSeen, Readable
    <3> HIDE DEF NextIsBad
    <3> QED
      BY <2>1, <2>3, <3>1, <3>2 DEF SubEofSeen, SubInv, SubTypes
  <2>4. CASE ChildReads
    <3>1. subInput' \in 0..InputRoom
      BY <2>1, <2>4 DEF ChildReads
    <3> QED
      BY <2>4, <3>1 DEF ChildReads, SubInv, SubTypes, subLines
  <2>5. CASE ChildWrites
    <3>1. subQueued' \in 0..subWritten' /\ subWritten' \in 0..MaxLines
      BY <2>1, <2>5 DEF ChildWrites
    <3>2. subBad' \in 0..subWritten' /\ (subBad' # 0 => subQueued' < subBad')
      BY <2>1, <2>5 DEF ChildWrites
    <3> QED
      BY <2>5, <3>1, <3>2 DEF ChildWrites, SubInv, SubTypes
  <2>6. CASE ChildExits
    BY <2>6 DEF ChildExits, SubInv, SubTypes, subLines
  <2> QED
    BY <1>4, <2>2, <2>3, <2>4, <2>5, <2>6
<1>5. CASE UNCHANGED subVars
  BY <1>5 DEF subVars, SubInv, SubTypes
<1> QED
  BY <1>1, <1>2, <1>3, <1>4, <1>5 DEF SubNext

\* Who is told that a child's output has ended has no line before it that
\* nobody took, however many lines, readers and kills (subprocess_ffi.rs:158).
THEOREM LinesComeBeforeTheEnd == SubInit /\ [][SubNext]_subVars => []LinesAllRead
<1>1. SubInv /\ [SubNext]_subVars => SubInv'
  BY SubInvNext
<1>2. SubInv => LinesAllRead
  BY DEF SubInv, LinesAllRead
<1> QED
  BY <1>1, <1>2, SubInvInit, PTL

-----------------------------------------------------------------------------
(* An MCP server that is a child: the end is told after the last answer.     *)
McpPlaces == {"idle", "lock", "write", "poll", "ended", "ready lock", "ready", "kill"}
McpTolds == {"nothing", "answer", "refused", "timeout", "end"}
McpCallers ==
    [at : McpPlaces, op : {"connect", "request"}, id : Requests \cup {0}, told : McpTolds]

McpShapes ==
    /\ mcpThread \in [Threads -> McpCallers] /\ mcpNextId \in 1..(MaxRequests + 1)
    /\ mcpInput \in Seq(Requests \cup {0}) /\ mcpAsked \subseteq Requests
    /\ mcpOutput \in Seq(McpMessages)

McpInv ==
    /\ McpShapes
    /\ mcpServer = "none" => mcpReader = "none"
    /\ mcpReader = "eof" => OutputEnds
    /\ \A t \in Threads : McpAt(t, "idle") /\ mcpThread[t].told = "end" =>
          mcpReader = "eof" /\ mcpThread[t].id \notin mcpResponses

LEMMA McpInvInit == McpInit => McpInv
<1> SUFFICES ASSUME McpInit PROVE McpInv
  OBVIOUS
<1>1. \A t \in Threads : mcpThread[t] = McpIdle
  BY DEF McpInit
<1>2. McpIdle \in McpCallers /\ 1 \in 1..(MaxRequests + 1)
  BY McpAssumption DEF McpIdle, McpCallers, McpPlaces, McpTolds
<1>3. McpShapes
  BY <1>2 DEF McpInit, McpShapes
<1> QED
  BY <1>1, <1>3 DEF McpInit, McpInv, McpIdle

\* A thread's step that tells nobody of an end leaves the others as they are.
LEMMA McpThreadStep ==
    ASSUME McpInv, NEW t \in Threads, NEW r,
           mcpThread' = [mcpThread EXCEPT ![t] = r],
           r \in McpCallers,
           r.at = "idle" /\ r.told = "end" => mcpReader' = "eof" /\ r.id \notin mcpResponses',
           mcpResponses' \subseteq mcpResponses, mcpNextId' \in 1..(MaxRequests + 1),
           mcpInput' \in Seq(Requests \cup {0}), UNCHANGED <<mcpAsked, mcpOutput>>,
           mcpReader = "eof" => mcpReader' = "eof",
           mcpReader' = "eof" => OutputEnds',
           mcpServer' = "none" => mcpReader' = "none"
    PROVE  McpInv'
<1>1. /\ mcpThread'[t] = r /\ \A u \in Threads : u # t => mcpThread'[u] = mcpThread[u]
      /\ mcpThread' \in [Threads -> McpCallers]
  BY DEF McpInv, McpShapes
<1>2. \A u \in Threads : McpAt(u, "idle")' /\ mcpThread'[u].told = "end" =>
          mcpReader' = "eof" /\ mcpThread'[u].id \notin mcpResponses'
  BY <1>1 DEF McpInv, McpAt
<1> QED
  BY <1>1, <1>2 DEF McpInv, McpShapes

LEMMA McpMoves ==
    ASSUME McpInv, NEW t \in Threads
    PROVE  /\ \A p \in McpPlaces : McpGo(t, p) => \E r :
                 /\ mcpThread' = [mcpThread EXCEPT ![t] = r]
                 /\ r \in McpCallers /\ r.at = p
           /\ \A what \in McpTolds : McpReturns(t, what) => \E r :
                 /\ mcpThread' = [mcpThread EXCEPT ![t] = r]
                 /\ r \in McpCallers
                 /\ r.told = what /\ r.id = mcpThread[t].id
<1>1. ASSUME NEW p \in McpPlaces, McpGo(t, p)
      PROVE  \E r : /\ mcpThread' = [mcpThread EXCEPT ![t] = r]
                    /\ r \in McpCallers /\ r.at = p
  <2> WITNESS [mcpThread[t] EXCEPT !.at = p]
  <2> QED
    BY <1>1 DEF McpGo, McpInv, McpShapes, McpCallers
<1>2. ASSUME NEW what \in McpTolds, McpReturns(t, what)
      PROVE  \E r : /\ mcpThread' = [mcpThread EXCEPT ![t] = r]
                    /\ r \in McpCallers
                    /\ r.told = what /\ r.id = mcpThread[t].id
  <2> WITNESS [mcpThread[t] EXCEPT !.at = "idle", !.told = what]
  <2> QED
    BY <1>2 DEF McpReturns, McpInv, McpShapes, McpCallers, McpPlaces
<1> QED
  BY <1>1, <1>2

LEMMA McpInvNext ==
    ASSUME McpInv, [McpNext]_mcpVars
    PROVE  McpInv'
<1>0. /\ mcpNextId \in 1..(MaxRequests + 1) /\ MaxRequests \in Nat
      /\ mcpNextId <= MaxRequests => mcpNextId \in Requests /\ mcpNextId + 1 \in 1..(MaxRequests + 1)
      /\ mcpInput \in Seq(Requests \cup {0}) /\ mcpAsked \subseteq Requests
      /\ mcpOutput \in Seq(McpMessages)
      /\ mcpReader = "eof" => OutputEnds
      /\ mcpServer = "none" => mcpReader = "none"
      /\ UNCHANGED mcpOutput /\ mcpServer' \in {mcpServer, "gone"} => (OutputEnds => OutputEnds')
  BY McpAssumption DEF McpInv, McpShapes, Requests, OutputEnds, NextIsBroken
<1>1. ASSUME NEW t \in Threads, McpConnect(t) \/ McpRequest(t)
      PROVE  McpInv'
  <2>1. PICK r \in McpCallers : /\ mcpThread' = [mcpThread EXCEPT ![t] = r]
                                /\ r.at = "lock"
    <3>1. PICK op \in {"connect", "request"} : mcpThread' = [mcpThread EXCEPT ![t] =
             [at |-> "lock", op |-> op, id |-> mcpNextId, told |-> "nothing"]]
      BY <1>1 DEF McpConnect, McpRequest
    <3>2. mcpNextId \in Requests
      BY <1>0, <1>1 DEF McpConnect, McpRequest
    <3>3. [at |-> "lock", op |-> op, id |-> mcpNextId, told |-> "nothing"] \in McpCallers
      BY <3>2 DEF McpCallers, McpPlaces, McpTolds
    <3> QED
      BY <3>1, <3>3
  <2> QED
    BY <1>0, <1>1, <2>1, McpThreadStep DEF McpConnect, McpRequest, mcpPeer, mcpFiles
<1>2. ASSUME NEW t \in Threads, McpClose(t)
      PROVE  McpInv'
  <2> DEFINE r == [mcpThread[t] EXCEPT !.at = "kill", !.told = "nothing"]
  <2>1. /\ mcpThread' = [mcpThread EXCEPT ![t] = r] /\ r.at = "kill"
        /\ r \in McpCallers
    BY <1>2 DEF McpClose, McpInv, McpShapes, McpCallers, McpPlaces, McpTolds
  <2> HIDE DEF r
  <2> QED
    BY <1>0, <1>2, <2>1, McpThreadStep DEF McpClose, mcpPeer, mcpFiles
<1>3. ASSUME NEW t \in Threads, McpDrainNotes(t)
      PROVE  McpInv'
  BY <1>0, <1>3 DEF McpDrainNotes, McpInv, McpShapes, McpAt, mcpPeer
<1>4. ASSUME NEW t \in Threads, McpTimesOut(t) \/ McpPollAgain(t) \/ McpLock(t)
      PROVE  McpInv'
  <2>1. PICK r : /\ mcpThread' = [mcpThread EXCEPT ![t] = r]
                 /\ r \in McpCallers
                 /\ r.at # "idle" \/ r.told # "end"
    BY <1>4, McpMoves DEF McpTimesOut, McpPollAgain, McpLock, McpPlaces, McpTolds
  <2> QED
    BY <1>0, <1>4, <2>1, McpThreadStep DEF McpTimesOut, McpPollAgain, McpLock, mcpPeer, mcpFiles
<1>5. ASSUME NEW t \in Threads, McpWrite(t) \/ McpReady(t) \/ McpKill(t)
      PROVE  McpInv'
  <2>1. PICK r : /\ mcpThread' = [mcpThread EXCEPT ![t] = r]
                 /\ r \in McpCallers
                 /\ r.at # "idle" \/ r.told # "end"
    BY <1>5, McpMoves DEF McpWrite, McpReady, McpKill, McpPlaces, McpTolds
  <2>2. mcpInput' \in Seq(Requests \cup {0})
    <3>1. mcpThread[t].id \in Requests \cup {0}
      BY DEF McpInv, McpShapes, McpCallers
    <3>2. Append(mcpInput, mcpThread[t].id) \in Seq(Requests \cup {0})
          /\ Append(mcpInput, 0) \in Seq(Requests \cup {0})
      BY <1>0, <3>1, AppendProperties
    <3> QED
      BY <1>0, <1>5, <3>2 DEF McpWrite, McpReady, McpKill
  <2> QED
    BY <1>0, <1>5, <2>1, <2>2, McpThreadStep DEF McpWrite, McpReady, McpKill, mcpPeer, mcpFiles
<1>6. ASSUME NEW t \in Threads, McpPoll(t) \/ McpEnded(t)
      PROVE  McpInv'
  <2>1. CASE Answered(t)
    <3>1. PICK r : /\ mcpThread' = [mcpThread EXCEPT ![t] = r]
                   /\ r \in McpCallers
                   /\ r.at # "idle" \/ r.told # "end"
      BY <2>1, McpMoves DEF Answered, McpPlaces, McpTolds
    <3> QED
      BY <1>0, <1>6, <2>1, <3>1, McpThreadStep DEF Answered, McpPoll, McpEnded, mcpPeer
  <2>2. CASE ~Answered(t) /\ McpPoll(t)
    <3>1. PICK r : /\ mcpThread' = [mcpThread EXCEPT ![t] = r]
                   /\ r \in McpCallers
                   /\ r.at # "idle" \/ r.told # "end"
      BY <2>2, McpMoves DEF McpPoll, McpPlaces, McpTolds
    <3> QED
      BY <1>0, <2>2, <3>1, McpThreadStep DEF McpPoll, mcpPeer
  <2>3. CASE ~Answered(t) /\ McpEnded(t)
    <3>1. PICK r : /\ mcpThread' = [mcpThread EXCEPT ![t] = r]
                   /\ r \in McpCallers
                   /\ r.id = mcpThread[t].id
      <4>1. McpReturns(t, "end") /\ "end" \in McpTolds
        BY <2>3 DEF McpEnded, McpTolds
      <4> QED
        BY <4>1, McpMoves
    <3> QED
      BY <1>0, <2>3, <3>1, McpThreadStep DEF McpEnded, mcpPeer
  <2> QED
    BY <1>6, <2>1, <2>2, <2>3
<1>7. CASE McpReads \/ ServerReads \/ ServerWrites \/ ServerExits
  <2>1. mcpThread' = mcpThread /\ mcpNextId' = mcpNextId
    BY <1>7 DEF McpReads, McpRoute, McpReply, McpEof, ServerReads, ServerWrites, ServerExits
  <2>2. CASE McpRoute
    <3>1. /\ mcpReader = "read" /\ Tail(mcpOutput) \in Seq(McpMessages)
          /\ Head(mcpOutput) \in McpMessages
      BY <1>0, <2>2, HeadTailProperties DEF McpRoute
    <3>2. mcpReader' \in {"read", "reply lock"}
      BY <2>2, <3>1 DEF McpRoute, McpMessages, NextIsBroken
    <3> QED
      BY <2>1, <2>2, <3>1, <3>2 DEF McpInv, McpShapes, McpAt, McpRoute
  <2>3. CASE McpReply
    <3>1. Append(mcpInput, 0) \in Seq(Requests \cup {0})
      <4>1. 0 \in Requests \cup {0}
        OBVIOUS
      <4> QED
        BY <1>0, <4>1, AppendProperties
    <3> QED
      BY <1>0, <2>1, <2>3, <3>1 DEF McpReply, McpInv, McpShapes, McpAt, mcpPeer
  <2>4. CASE McpEof
    BY <1>0, <2>1, <2>4 DEF McpEof, McpInv, McpShapes, McpAt, mcpPeer
  <2>5. CASE ServerReads
    <3>1. Head(mcpInput) \in Requests \cup {0} /\ Tail(mcpInput) \in Seq(Requests \cup {0})
      BY <1>0, <2>5, HeadTailProperties DEF ServerReads
    <3> QED
      BY <1>0, <2>1, <2>5, <3>1 DEF ServerReads, McpInv, McpShapes, McpAt, mcpFiles
  <2>6. CASE ServerWrites
    <3>1. mcpOutput' \in Seq(McpMessages) /\ mcpAsked' \subseteq Requests
      <4>1. \A r \in mcpAsked : [kind |-> "answer", id |-> r] \in McpMessages
        BY <1>0 DEF McpMessages
      <4>2. \A k \in {"ask", "note", "bad"} : [kind |-> k, id |-> 0] \in McpMessages
        BY DEF McpMessages
      <4>3. \A m \in McpMessages : Append(mcpOutput, m) \in Seq(McpMessages)
        BY <1>0, AppendProperties
      <4> QED
        BY <1>0, <2>6, <4>1, <4>2, <4>3 DEF ServerWrites
    <3> QED
      BY <2>1, <2>6, <3>1 DEF ServerWrites, McpInv, McpShapes, McpAt, mcpFiles
  <2>7. CASE ServerExits
    BY <1>0, <2>1, <2>7 DEF ServerExits, McpInv, McpShapes, McpAt, mcpFiles
  <2> QED
    BY <1>7, <2>2, <2>3, <2>4, <2>5, <2>6, <2>7 DEF McpReads
<1>8. CASE UNCHANGED mcpVars
  BY <1>0, <1>8 DEF mcpVars, McpInv, McpShapes, McpAt
<1> QED
  BY <1>1, <1>2, <1>3, <1>4, <1>5, <1>6, <1>7, <1>8 DEF McpNext, McpRuns

\* A caller told that the server's output has ended has no answer in it but
\* behind a line that is not UTF-8, for any number of callers, requests and
\* lines of the server (mcp_client_ffi.rs:612, 701).
THEOREM AnswersComeBeforeTheEnd == McpInit /\ [][McpNext]_mcpVars => []NoAnswerLost
<1>1. McpInv /\ [McpNext]_mcpVars => McpInv'
  BY McpInvNext
<1>2. McpInv => NoAnswerLost
  BY DEF McpInv, NoAnswerLost, Written, OutputEnds
<1> QED
  BY <1>1, <1>2, McpInvInit, PTL

-----------------------------------------------------------------------------
(* A gRPC call: the end is told after the last message.                      *)
GrpInbound ==
    [at : {"none", "reads", "ends", "over"}, queued : Nat, taken : Nat,
     aborted : BOOLEAN, bad : BOOLEAN, ended : BOOLEAN]

GrpPlaces == {"idle", "accept", "recv", "recv wait", "send", "finish", "stop"}

GrpCallers == [at : GrpPlaces, on : Nat, told : {"nothing", "end"}]

GrpShapes ==
    /\ grpThread \in [Threads -> GrpCallers]
    /\ grpIn \in [GrpCalls -> GrpInbound]
    /\ grpMade \in Nat /\ grpPending \subseteq GrpCalls

\* A reading leg that has not begun or is not over has not told the end.
EndedIsOver ==
    \A c \in GrpCalls : /\ grpIn[c].ended => grpIn[c].at = "over"
                        /\ c > grpMade => grpIn[c].at = "none"

\* Who is told the end waited for a call, all of whose messages are taken.
ToldIsEnd ==
    \A t \in Threads :
        LET c == grpThread[t].on
        IN  /\ GrpAt(t, "recv") \/ GrpAt(t, "recv wait") => c \in GrpCalls
            /\ grpThread[t].told = "end" =>
                  c \in GrpCalls /\ grpIn[c].ended /\ grpIn[c].taken = grpIn[c].queued

GrpInv == GrpShapes /\ EndedIsOver /\ ToldIsEnd

LEMMA SmallerIsNot == \A n, m \in Nat : n < m => n # m
  OBVIOUS

LEMMA GrpCallsNatural == \A c \in GrpCalls : c \in Nat
  BY GrpcServerAssumption DEF GrpCalls

LEMMA GrpInvInit == GrpInit => GrpInv
<1> SUFFICES ASSUME GrpInit PROVE GrpInv
  OBVIOUS
<1>1. GrpIdle \in GrpCallers /\ NoInbound \in GrpInbound
  BY DEF GrpIdle, NoInbound, GrpPlaces, GrpInbound, GrpCallers
<1>2. GrpShapes
  BY <1>1 DEF GrpInit, GrpShapes
<1>3. EndedIsOver /\ ToldIsEnd
  BY DEF GrpInit, EndedIsOver, ToldIsEnd, GrpIdle, NoInbound, GrpAt
<1> QED
  BY <1>2, <1>3 DEF GrpInv

\* A step that changes no inbound queue, and of the threads one at most, which
\* is told nothing.
LEMMA GrpThreadStep ==
    ASSUME GrpInv, NEW t \in Threads, NEW p \in GrpPlaces,
           UNCHANGED <<grpIn, grpMade>>, grpPending' \subseteq GrpCalls,
           NEW c \in Nat,
           \/ grpThread' = [grpThread EXCEPT ![t] = [at |-> p, on |-> c, told |-> "nothing"]]
           \/ grpThread' = grpThread,
           p \in {"recv", "recv wait"} => c \in GrpCalls
    PROVE  GrpInv'
<1> DEFINE r == [at |-> p, on |-> c, told |-> "nothing"]
<1>0. r \in GrpCallers /\ r.at = p /\ r.on = c /\ r.told = "nothing"
  BY DEF GrpCallers
<1>1. /\ grpThread' \in [Threads -> GrpCallers]
      /\ \A u \in Threads : grpThread'[u] = grpThread[u] \/ grpThread'[u] = r
  <2>1. grpThread \in [Threads -> GrpCallers]
    BY DEF GrpInv, GrpShapes
  <2> HIDE DEF r
  <2>2. grpThread' = [grpThread EXCEPT ![t] = r] \/ grpThread' = grpThread
    BY DEF r
  <2> QED
    BY <1>0, <2>1, <2>2
<1>2. ToldIsEnd'
  <2> HIDE DEF r
  <2> SUFFICES ASSUME NEW u \in Threads
               PROVE  LET d == grpThread'[u].on
                      IN  /\ grpThread'[u].at \in {"recv", "recv wait"} => d \in GrpCalls
                          /\ grpThread'[u].told = "end" =>
                                d \in GrpCalls /\ grpIn[d].ended /\ grpIn[d].taken = grpIn[d].queued
    BY DEF ToldIsEnd, GrpAt
  <2>1. CASE grpThread'[u] = grpThread[u]
    BY <2>1 DEF GrpInv, ToldIsEnd, GrpAt
  <2>2. CASE grpThread'[u] = r
    BY <1>0, <2>2
  <2> QED
    BY <1>1, <2>1, <2>2
<1> QED
  BY <1>1, <1>2 DEF GrpInv, GrpShapes, EndedIsOver

LEMMA GrpMoves ==
    ASSUME GrpInv, NEW t \in Threads
    PROVE  /\ grpThread[t].on \in Nat
           /\ \A p \in GrpPlaces : GrpGo(t, p) =>
                 grpThread' = [grpThread EXCEPT ![t] =
                     [at |-> p, on |-> grpThread[t].on, told |-> "nothing"]]
           /\ GrpReturns(t) =>
                 grpThread' = [grpThread EXCEPT ![t] = [at |-> "idle", on |-> 0, told |-> "nothing"]]
           /\ GrpTells(t, "end") =>
                 grpThread' = [grpThread EXCEPT ![t] =
                     [at |-> "idle", on |-> grpThread[t].on, told |-> "end"]]
<1>1. grpThread \in [Threads -> GrpCallers]
  BY DEF GrpInv, GrpShapes
<1>2. grpThread[t] \in GrpCallers
  BY <1>1
<1>3. ASSUME NEW p, NEW w
      PROVE  [grpThread[t] EXCEPT !.at = p, !.told = w]
                = [at |-> p, on |-> grpThread[t].on, told |-> w]
  <2>1. [grpThread[t] EXCEPT !.at = p]
           = [at |-> p, on |-> grpThread[t].on, told |-> grpThread[t].told]
    BY <1>2 DEF GrpCallers
  <2>2. [[at |-> p, on |-> grpThread[t].on, told |-> grpThread[t].told] EXCEPT !.told = w]
           = [at |-> p, on |-> grpThread[t].on, told |-> w]
    OBVIOUS
  <2> QED
    BY <2>1, <2>2
<1>4. ASSUME NEW p \in GrpPlaces, GrpGo(t, p)
      PROVE  grpThread' = [grpThread EXCEPT ![t] =
                     [at |-> p, on |-> grpThread[t].on, told |-> "nothing"]]
  <2>1. grpThread' = [grpThread EXCEPT ![t] = [grpThread[t] EXCEPT !.at = p, !.told = "nothing"]]
    BY <1>1, <1>4 DEF GrpGo
  <2> QED
    BY <1>3, <2>1
<1>5. ASSUME GrpTells(t, "end")
      PROVE  grpThread' = [grpThread EXCEPT ![t] =
                     [at |-> "idle", on |-> grpThread[t].on, told |-> "end"]]
  <2>1. grpThread' = [grpThread EXCEPT ![t] = [grpThread[t] EXCEPT !.at = "idle", !.told = "end"]]
    BY <1>1, <1>5 DEF GrpTells
  <2> QED
    BY <1>3, <2>1
<1>6. grpThread[t].on \in Nat
  BY <1>2 DEF GrpCallers
<1> QED
  BY <1>4, <1>5, <1>6 DEF GrpReturns, GrpIdle

LEMMA GrpInboundEdits ==
    ASSUME NEW r \in GrpInbound
    PROVE  /\ [r EXCEPT !.queued = r.queued + 1] \in GrpInbound
           /\ [r EXCEPT !.taken = r.taken + 1] \in GrpInbound
           /\ [r EXCEPT !.at = "reads"] \in GrpInbound
           /\ [r EXCEPT !.at = "ends"] \in GrpInbound
           /\ [r EXCEPT !.at = "ends", !.bad = TRUE] \in GrpInbound
           /\ [r EXCEPT !.at = "ends", !.aborted = TRUE] \in GrpInbound
           /\ [r EXCEPT !.at = "over", !.ended = TRUE] \in GrpInbound
           /\ [r EXCEPT !.aborted = TRUE] \in GrpInbound
<1>1. [r EXCEPT !.queued = r.queued + 1] \in GrpInbound
  BY DEF GrpInbound
<1>2. [r EXCEPT !.taken = r.taken + 1] \in GrpInbound
  BY DEF GrpInbound
<1>3. [r EXCEPT !.at = "reads"] \in GrpInbound
  BY DEF GrpInbound
<1>4. [r EXCEPT !.at = "ends"] \in GrpInbound
  BY DEF GrpInbound
<1>5. [r EXCEPT !.at = "ends", !.bad = TRUE] \in GrpInbound
  BY DEF GrpInbound
<1>6. [r EXCEPT !.at = "ends", !.aborted = TRUE] \in GrpInbound
  BY DEF GrpInbound
<1>7. [r EXCEPT !.at = "over", !.ended = TRUE] \in GrpInbound
  BY DEF GrpInbound
<1>8. [r EXCEPT !.aborted = TRUE] \in GrpInbound
  BY DEF GrpInbound
<1> QED
  BY <1>1, <1>2, <1>3, <1>4, <1>5, <1>6, <1>7, <1>8

\* One inbound queue is another.
LEMMA GrpInBecomes ==
    ASSUME GrpInv, NEW c \in GrpCalls, NEW r \in GrpInbound, grpIn' = [grpIn EXCEPT ![c] = r]
    PROVE  /\ grpIn' \in [GrpCalls -> GrpInbound] /\ grpIn'[c] = r
           /\ \A d \in GrpCalls : d # c => grpIn'[d] = grpIn[d]
<1>1. grpIn \in [GrpCalls -> GrpInbound]
  BY DEF GrpInv, GrpShapes
<1> QED
  BY <1>1

\* A step of a reading leg that has not told the end.
LEMMA GrpLegStep ==
    ASSUME GrpInv, NEW c \in GrpCalls, NEW r \in GrpInbound,
           grpIn' = [grpIn EXCEPT ![c] = r], ~grpIn[c].ended,
           r.ended => r.at = "over", c <= grpMade',
           UNCHANGED grpThread, grpMade' \in Nat, grpMade <= grpMade',
           grpPending' \subseteq GrpCalls
    PROVE  GrpInv'
<1>1. /\ grpIn' \in [GrpCalls -> GrpInbound] /\ grpIn'[c] = r
      /\ \A d \in GrpCalls : d # c => grpIn'[d] = grpIn[d]
  BY GrpInBecomes
<1>2. grpMade \in Nat /\ \A d \in GrpCalls : d \in Int
  BY DEF GrpInv, GrpShapes, GrpCalls
<1>3. ASSUME NEW d \in GrpCalls
      PROVE  /\ grpIn'[d].ended => grpIn'[d].at = "over"
             /\ d > grpMade' => grpIn'[d].at = "none"
  <2>1. CASE d = c
    BY <1>1, <1>2, <2>1
  <2>2. CASE d # c
    <3>1. d > grpMade' => d > grpMade
      BY <1>2
    <3> QED
      BY <1>1, <2>2, <3>1 DEF GrpInv, EndedIsOver
  <2> QED
    BY <2>1, <2>2
<1>4. ToldIsEnd'
  <2> SUFFICES ASSUME NEW t \in Threads
               PROVE  /\ GrpAt(t, "recv") \/ GrpAt(t, "recv wait") => grpThread[t].on \in GrpCalls
                      /\ grpThread[t].told = "end" =>
                            /\ grpThread[t].on \in GrpCalls /\ grpIn'[grpThread[t].on].ended
                            /\ grpIn'[grpThread[t].on].taken = grpIn'[grpThread[t].on].queued
    BY DEF ToldIsEnd, GrpAt
  <2> QED
    BY <1>1 DEF GrpInv, ToldIsEnd
<1> QED
  BY <1>1, <1>3, <1>4 DEF GrpInv, GrpShapes, EndedIsOver

LEMMA GrpReaderKept ==
    ASSUME GrpInv, NEW c \in GrpCalls, GrpReaderRuns(c)
    PROVE  GrpInv'
<1>1. grpIn \in [GrpCalls -> GrpInbound] /\ grpMade \in Nat /\ grpPending \subseteq GrpCalls
  BY DEF GrpInv, GrpShapes
<1>2. grpIn[c].at \in {"reads", "ends"} /\ grpIn[c] \in GrpInbound
  BY <1>1 DEF GrpReaderRuns, GrpReads, GrpReadFails, GrpReadEnds
<1>3. ~grpIn[c].ended /\ c <= grpMade
  BY <1>1, <1>2 DEF GrpInv, EndedIsOver, GrpCalls
<1>4. PICK r \in GrpInbound :
          grpIn' = [grpIn EXCEPT ![c] = r] /\ (r.ended => r.at = "over")
  <2>1. CASE GrpReads(c)
    <3>1. grpIn' = [grpIn EXCEPT ![c] = [grpIn[c] EXCEPT !.queued = grpIn[c].queued + 1]]
      BY <2>1 DEF GrpReads
    <3>2. ~[grpIn[c] EXCEPT !.queued = grpIn[c].queued + 1].ended
      BY <1>2, <1>3 DEF GrpInbound
    <3> QED
      BY <1>2, <3>1, <3>2, GrpInboundEdits
  <2>2. CASE GrpReadFails(c)
    <3>1. \/ grpIn' = [grpIn EXCEPT ![c] = [grpIn[c] EXCEPT !.at = "ends"]]
          \/ grpIn' = [grpIn EXCEPT ![c] = [grpIn[c] EXCEPT !.at = "ends", !.bad = TRUE]]
          \/ grpIn' = [grpIn EXCEPT ![c] = [grpIn[c] EXCEPT !.at = "ends", !.aborted = TRUE]]
      BY <2>2 DEF GrpReadFails
    <3>2. ~[grpIn[c] EXCEPT !.at = "ends"].ended
      BY <1>2, <1>3 DEF GrpInbound
    <3>3. ~[grpIn[c] EXCEPT !.at = "ends", !.bad = TRUE].ended
      BY <1>2, <1>3 DEF GrpInbound
    <3>4. ~[grpIn[c] EXCEPT !.at = "ends", !.aborted = TRUE].ended
      BY <1>2, <1>3 DEF GrpInbound
    <3> QED
      BY <1>2, <3>1, <3>2, <3>3, <3>4, GrpInboundEdits
  <2>3. CASE GrpReadEnds(c)
    <3>1. grpIn' = [grpIn EXCEPT ![c] = [grpIn[c] EXCEPT !.at = "over", !.ended = TRUE]]
      BY <2>3 DEF GrpReadEnds
    <3>2. [grpIn[c] EXCEPT !.at = "over", !.ended = TRUE].at = "over"
      BY <1>2 DEF GrpInbound
    <3> QED
      BY <1>2, <3>1, <3>2, GrpInboundEdits
  <2> QED
    BY <2>1, <2>2, <2>3 DEF GrpReaderRuns
<1>5. UNCHANGED <<grpThread, grpMade, grpPending>>
  BY DEF GrpReaderRuns, GrpReads, GrpReadFails, GrpReadEnds, GrpReaderFrame, grpQueued
<1>6. grpMade' \in Nat /\ grpMade <= grpMade' /\ c <= grpMade' /\ grpPending' \subseteq GrpCalls
  BY <1>1, <1>3, <1>5
<1> QED
  BY <1>3, <1>4, <1>5, <1>6, GrpLegStep

\* A message is taken by one who looks.
LEMMA GrpTakesKept ==
    ASSUME GrpInv, NEW t \in Threads, GrpAt(t, "recv") \/ GrpAt(t, "recv wait"), GrpTakes(t),
           UNCHANGED <<grpMade, grpPending>>
    PROVE  GrpInv'
<1> DEFINE c == grpThread[t].on
<1> DEFINE r == [grpIn[c] EXCEPT !.taken = grpIn[c].taken + 1]
<1>1. c \in GrpCalls /\ grpIn \in [GrpCalls -> GrpInbound]
  BY DEF GrpInv, GrpShapes, ToldIsEnd
<1>2. /\ grpIn[c] \in GrpInbound /\ grpIn[c].taken < grpIn[c].queued
      /\ grpIn' = [grpIn EXCEPT ![c] = r]
  BY <1>1 DEF GrpTakes
<1>3. grpThread' = [grpThread EXCEPT ![t] = [at |-> "idle", on |-> 0, told |-> "nothing"]]
  BY DEF GrpTakes, GrpReturns, GrpIdle
<1>4. /\ r \in GrpInbound /\ r.at = grpIn[c].at /\ r.ended = grpIn[c].ended
      /\ grpIn[c].taken # grpIn[c].queued
  <2>1. r \in GrpInbound
    BY <1>2, GrpInboundEdits
  <2>2. r.at = grpIn[c].at /\ r.ended = grpIn[c].ended
    BY <1>2 DEF GrpInbound
  <2>3. grpIn[c].taken \in Nat /\ grpIn[c].queued \in Nat
    BY <1>2 DEF GrpInbound
  <2>4. grpIn[c].taken # grpIn[c].queued
    BY <1>2, <2>3, SmallerIsNot, Zenon
  <2> QED
    BY <2>1, <2>2, <2>4
<1> HIDE DEF c, r
<1>5. /\ grpIn' \in [GrpCalls -> GrpInbound] /\ grpIn'[c] = r
      /\ \A d \in GrpCalls : d # c => grpIn'[d] = grpIn[d]
  BY <1>1, <1>2, <1>4, GrpInBecomes
<1>6. /\ grpThread' \in [Threads -> GrpCallers]
      /\ grpThread'[t].told = "nothing" /\ grpThread'[t].at = "idle"
      /\ \A u \in Threads : u # t => grpThread'[u] = grpThread[u]
  <2>1. [at |-> "idle", on |-> 0, told |-> "nothing"] \in GrpCallers
    BY DEF GrpCallers, GrpPlaces
  <2>2. grpThread \in [Threads -> GrpCallers]
    BY DEF GrpInv, GrpShapes
  <2> QED
    BY <1>3, <2>1, <2>2
<1>7. ToldIsEnd'
  <2>1. ASSUME NEW u \in Threads, grpThread'[u].told = "end"
        PROVE  grpThread'[u].on # c /\ grpThread'[u] = grpThread[u]
    BY <1>2, <1>4, <1>6, <2>1 DEF GrpInv, ToldIsEnd
  <2>2. ASSUME NEW u \in Threads, GrpAt(u, "recv")' \/ GrpAt(u, "recv wait")'
        PROVE  grpThread'[u].on \in GrpCalls
    BY <1>6, <2>2 DEF GrpInv, ToldIsEnd, GrpAt
  <2>3. ASSUME NEW u \in Threads, grpThread'[u].told = "end"
        PROVE  LET d == grpThread'[u].on
               IN  d \in GrpCalls /\ grpIn'[d].ended /\ grpIn'[d].taken = grpIn'[d].queued
    <3>1. LET d == grpThread[u].on
          IN  d \in GrpCalls /\ grpIn[d].ended /\ grpIn[d].taken = grpIn[d].queued
      BY <2>1, <2>3 DEF GrpInv, ToldIsEnd
    <3> QED
      BY <1>5, <2>1, <2>3, <3>1
  <2> QED
    BY <2>2, <2>3 DEF ToldIsEnd
<1>8. EndedIsOver'
  BY <1>1, <1>4, <1>5 DEF GrpInv, EndedIsOver
<1> QED
  BY <1>5, <1>6, <1>7, <1>8 DEF GrpInv, GrpShapes

\* recv looks, once or after a wait.
LEMMA GrpRecvKept ==
    ASSUME GrpInv, NEW t \in Threads, GrpRecvLooks(t) \/ GrpRecvWoken(t)
    PROVE  GrpInv'
<1>1. /\ GrpAt(t, "recv") \/ GrpAt(t, "recv wait")
      /\ UNCHANGED <<grpMade, grpPending>>
      /\ \/ GrpTakes(t)
         \/ /\ UNCHANGED grpIn /\ grpIn[grpThread[t].on].ended /\ GrpTells(t, "end")
            /\ grpIn[grpThread[t].on].taken = grpIn[grpThread[t].on].queued
         \/ UNCHANGED grpIn /\ (GrpGo(t, "recv wait") \/ GrpReturns(t))
  BY DEF GrpRecvLooks, GrpRecvWoken, grpQueued
<1>2. CASE GrpTakes(t)
  BY <1>1, <1>2, GrpTakesKept
<1>3. CASE /\ UNCHANGED grpIn /\ grpIn[grpThread[t].on].ended /\ GrpTells(t, "end")
           /\ grpIn[grpThread[t].on].taken = grpIn[grpThread[t].on].queued
  <2>1. grpThread[t].on \in GrpCalls
    BY <1>1 DEF GrpInv, ToldIsEnd
  <2>2. /\ grpThread' \in [Threads -> GrpCallers]
        /\ \A u \in Threads : u # t => grpThread'[u] = grpThread[u]
        /\ grpThread'[t].on = grpThread[t].on /\ grpThread'[t].at = "idle"
    <3>1. grpThread[t].on \in Nat /\ grpThread' = [grpThread EXCEPT ![t] =
                     [at |-> "idle", on |-> grpThread[t].on, told |-> "end"]]
      BY <1>3, GrpMoves
    <3>2. [at |-> "idle", on |-> grpThread[t].on, told |-> "end"] \in GrpCallers
      BY <3>1 DEF GrpCallers, GrpPlaces
    <3>3. grpThread \in [Threads -> GrpCallers]
      BY DEF GrpInv, GrpShapes
    <3> QED
      BY <3>1, <3>2, <3>3
  <2>3. ToldIsEnd'
    BY <1>3, <2>1, <2>2 DEF GrpInv, ToldIsEnd, GrpAt
  <2> QED
    BY <1>1, <1>3, <2>2, <2>3 DEF GrpInv, GrpShapes, EndedIsOver
<1>4. CASE UNCHANGED grpIn /\ (GrpGo(t, "recv wait") \/ GrpReturns(t))
  <2>1. grpThread[t].on \in GrpCalls /\ grpPending \subseteq GrpCalls
    BY <1>1 DEF GrpInv, GrpShapes, ToldIsEnd
  <2>2. "recv wait" \in GrpPlaces /\ "idle" \in GrpPlaces /\ "idle" \notin {"recv", "recv wait"}
    BY DEF GrpPlaces
  <2>3. grpThread[t].on \in Nat
    BY GrpMoves
  <2>4. UNCHANGED <<grpIn, grpMade>> /\ grpPending' \subseteq GrpCalls
    BY <1>1, <1>4, <2>1
  <2>5. CASE GrpGo(t, "recv wait")
    <3>1. grpThread' = [grpThread EXCEPT ![t] =
             [at |-> "recv wait", on |-> grpThread[t].on, told |-> "nothing"]]
      BY <2>2, <2>5, GrpMoves
    <3> QED
      BY <2>1, <2>2, <2>3, <2>4, <3>1, GrpThreadStep
  <2>6. CASE GrpReturns(t)
    <3>1. grpThread' = [grpThread EXCEPT ![t] = [at |-> "idle", on |-> 0, told |-> "nothing"]]
      BY <2>6, GrpMoves
    <3> QED
      BY <2>2, <2>4, <3>1, GrpThreadStep
  <2> QED
    BY <1>4, <2>5, <2>6
<1> QED
  BY <1>1, <1>2, <1>3, <1>4

\* The other calls of the program.
LEMMA GrpCallsKept ==
    ASSUME GrpInv, NEW t \in Threads,
           \/ GrpAccept(t) \/ GrpStop(t) \/ GrpAccepts(t) \/ GrpSends(t) \/ GrpFinishes(t)
           \/ GrpStops(t) \/ (\E c \in grpHanded : GrpRecv(t, c) \/ GrpSend(t, c) \/ GrpFinish(t, c))
    PROVE  GrpInv'
<1>1. UNCHANGED <<grpIn, grpMade>> /\ grpPending' \subseteq GrpCalls
  BY DEF GrpAccept, GrpStop, GrpAccepts, GrpSends, GrpFinishes, GrpStops, GrpRecv, GrpSend,
     GrpFinish, GrpLooksUp, grpQueued, GrpInv, GrpShapes
<1>2. PICK p \in GrpPlaces, c \in Nat :
          /\ grpThread' = [grpThread EXCEPT ![t] = [at |-> p, on |-> c, told |-> "nothing"]]
          /\ p \in {"recv", "recv wait"} => c \in GrpCalls
  <2>0. \A p \in GrpPlaces : GrpGo(t, p) =>
            grpThread' = [grpThread EXCEPT ![t] =
                     [at |-> p, on |-> grpThread[t].on, told |-> "nothing"]]
    BY GrpMoves
  <2>1. CASE GrpAccept(t) \/ GrpStop(t) \/ GrpAccepts(t)
    <3>1. PICK p \in {"accept", "stop", "idle"} : GrpGo(t, p)
      BY <2>1 DEF GrpAccept, GrpStop, GrpAccepts
    <3>2. p \in GrpPlaces /\ p \notin {"recv", "recv wait"}
      BY DEF GrpPlaces
    <3> QED
      BY <2>0, <3>1, <3>2, GrpMoves
  <2>2. CASE GrpSends(t) \/ GrpFinishes(t) \/ GrpStops(t)
    <3>1. GrpReturns(t)
      BY <2>2 DEF GrpSends, GrpFinishes, GrpStops, GrpPut
    <3>2. "idle" \in GrpPlaces
      BY DEF GrpPlaces
    <3> QED
      BY <3>1, <3>2, GrpMoves
  <2>3. ASSUME NEW d \in grpHanded, GrpRecv(t, d) \/ GrpSend(t, d) \/ GrpFinish(t, d)
        PROVE  \E p \in GrpPlaces, c \in Nat :
                 /\ grpThread' = [grpThread EXCEPT ![t] = [at |-> p, on |-> c, told |-> "nothing"]]
                 /\ p \in {"recv", "recv wait"} => c \in GrpCalls
    <3>1. PICK found \in {"recv", "send", "finish"} : GrpLooksUp(t, d, found)
      BY <2>3 DEF GrpRecv, GrpSend, GrpFinish
    <3>2. CASE d \in grpPending
      <4>1. d \in GrpCalls
        BY <3>2 DEF GrpInv, GrpShapes
      <4>2. d \in Nat /\ found \in GrpPlaces
        BY <4>1, GrpCallsNatural, Zenon DEF GrpPlaces
      <4>3. [GrpIdle EXCEPT !.at = found, !.on = d] = [at |-> found, on |-> d, told |-> "nothing"]
        <5>1. [GrpIdle EXCEPT !.at = found] = [at |-> found, on |-> 0, told |-> "nothing"]
          BY DEF GrpIdle
        <5>2. [[at |-> found, on |-> 0, told |-> "nothing"] EXCEPT !.on = d]
                 = [at |-> found, on |-> d, told |-> "nothing"]
          OBVIOUS
        <5> QED
          BY <5>1, <5>2
      <4>4. grpThread' = [grpThread EXCEPT ![t] = [GrpIdle EXCEPT !.at = found, !.on = d]]
        BY <3>1, <3>2 DEF GrpLooksUp
      <4> QED
        BY <4>1, <4>2, <4>3, <4>4
    <3>3. CASE d \notin grpPending
      <4>1. grpThread' = [grpThread EXCEPT ![t] = [at |-> "idle", on |-> 0, told |-> "nothing"]]
        BY <3>1, <3>3 DEF GrpLooksUp, GrpIdle
      <4>2. "idle" \in GrpPlaces
        BY DEF GrpPlaces
      <4> QED
        BY <4>1, <4>2
    <3> QED
      BY <3>2, <3>3
  <2> QED
    BY <2>1, <2>2, <2>3
<1> QED
  BY <1>1, <1>2, GrpThreadStep

\* A stream that arrives has a reading leg of its own.
LEMMA GrpArrivesKept ==
    ASSUME GrpInv, GrpArrives
    PROVE  GrpInv'
<1>1. /\ grpMade \in Nat /\ grpMade' = grpMade + 1 /\ grpMade' \in GrpCalls
      /\ grpPending' \subseteq GrpCalls
  BY GrpcServerAssumption DEF GrpInv, GrpShapes, GrpArrives, GrpCalls
<1>2. grpIn[grpMade'] \in GrpInbound /\ grpIn[grpMade'].at = "none" /\ ~grpIn[grpMade'].ended
  BY <1>1 DEF GrpInv, GrpShapes, EndedIsOver
<1>3. PICK r \in GrpInbound : grpIn' = [grpIn EXCEPT ![grpMade'] = r] /\ ~r.ended
  <2>1. grpIn' = [grpIn EXCEPT ![grpMade'] = [grpIn[grpMade'] EXCEPT !.at = "reads"]]
    BY DEF GrpArrives
  <2>2. ~[grpIn[grpMade'] EXCEPT !.at = "reads"].ended
    BY <1>2 DEF GrpInbound
  <2> QED
    BY <1>2, <2>1, <2>2, GrpInboundEdits
<1>4. grpMade' \in Nat /\ grpMade <= grpMade' /\ grpMade' <= grpMade'
  BY <1>1
<1>5. UNCHANGED grpThread
  BY DEF GrpArrives
<1> QED
  BY <1>1, <1>2, <1>3, <1>4, <1>5, GrpLegStep

\* The writing leg and the client may only note that the client has gone.
LEMMA GrpWritersKept ==
    ASSUME GrpInv, NEW c \in GrpCalls, GrpLegRuns(c) \/ GrpClientActs(c)
    PROVE  GrpInv'
<1>1. UNCHANGED <<grpThread, grpMade>> /\ grpPending' \subseteq grpPending
  BY DEF GrpLegRuns, GrpSetsDeadline, GrpWrites, GrpTooLong, GrpWritesStatus, GrpExpires,
     GrpSeesReset, GrpUnregisters, GrpClientActs, GrpLegFrame, grpQueued
<1>2. /\ grpIn' \in [GrpCalls -> GrpInbound]
      /\ \A d \in GrpCalls : /\ grpIn'[d].at = grpIn[d].at /\ grpIn'[d].ended = grpIn[d].ended
                             /\ grpIn'[d].taken = grpIn[d].taken
                             /\ grpIn'[d].queued = grpIn[d].queued
  <2>1. CASE GrpSeesReset(c)
    BY <2>1 DEF GrpInv, GrpShapes, GrpInbound, GrpSeesReset
  <2>2. CASE ~GrpSeesReset(c)
    BY <2>2 DEF GrpInv, GrpShapes, GrpLegRuns, GrpSetsDeadline, GrpWrites, GrpTooLong,
       GrpWritesStatus, GrpExpires, GrpUnregisters, GrpClientActs
  <2> QED
    BY <2>1, <2>2
<1>3. grpThread' = grpThread /\ grpMade' = grpMade
  BY <1>1
<1>4. GrpShapes'
  BY <1>1, <1>2 DEF GrpInv, GrpShapes
<1>5. EndedIsOver'
  <2>1. EndedIsOver
    BY DEF GrpInv
  <2> QED
    BY <1>2, <1>3, <2>1 DEF EndedIsOver
<1>6. ToldIsEnd'
  <2>1. ToldIsEnd
    BY DEF GrpInv
  <2> SUFFICES ASSUME NEW u \in Threads
               PROVE  /\ grpThread'[u].at \in {"recv", "recv wait"} =>
                            grpThread'[u].on \in GrpCalls
                      /\ grpThread'[u].told = "end" =>
                            /\ grpThread'[u].on \in GrpCalls /\ grpIn'[grpThread'[u].on].ended
                            /\ grpIn'[grpThread'[u].on].taken = grpIn'[grpThread'[u].on].queued
    BY DEF ToldIsEnd, GrpAt
  <2>2. PICK s : s = grpThread[u]
    OBVIOUS
  <2>3. grpThread'[u] = s
    BY <1>3, <2>2
  <2>4. /\ s.at \in {"recv", "recv wait"} => s.on \in GrpCalls
        /\ s.told = "end" => /\ s.on \in GrpCalls /\ grpIn[s.on].ended
                              /\ grpIn[s.on].taken = grpIn[s.on].queued
    BY <2>1, <2>2 DEF ToldIsEnd, GrpAt
  <2> QED
    BY <1>2, <2>3, <2>4
<1> QED
  BY <1>4, <1>5, <1>6 DEF GrpInv

LEMMA GrpInvNext ==
    ASSUME GrpInv, [GrpNext]_grpVars
    PROVE  GrpInv'
<1>1. ASSUME NEW t \in Threads,
             \/ GrpAccept(t) \/ GrpStop(t) \/ GrpRuns(t)
             \/ \E c \in grpHanded : GrpRecv(t, c) \/ GrpSend(t, c) \/ GrpFinish(t, c)
      PROVE  GrpInv'
  <2>1. CASE GrpRecvLooks(t) \/ GrpRecvWoken(t)
    BY <2>1, GrpRecvKept
  <2>2. CASE ~(GrpRecvLooks(t) \/ GrpRecvWoken(t))
    BY <1>1, <2>2, GrpCallsKept DEF GrpRuns
  <2> QED
    BY <2>1, <2>2
<1>2. CASE GrpRefuses \/ UNCHANGED grpVars
  <2>1. UNCHANGED <<grpThread, grpIn, grpMade, grpPending>>
    BY <1>2 DEF GrpRefuses, grpVars
  <2> QED
    BY <2>1 DEF GrpInv, GrpShapes, EndedIsOver, ToldIsEnd, GrpAt
<1>3. GrpcUsers \subseteq Threads
  BY GrpcServerAssumption
<1> QED
  BY <1>1, <1>2, <1>3, GrpReaderKept, GrpWritersKept, GrpArrivesKept DEF GrpNext

\* A program is told that a client has half closed once it took everything
\* before it, whatever calls, receivers and resets there are (grpc_ffi.rs:930).
THEOREM MessagesComeBeforeTheEnd == GrpInit /\ [][GrpNext]_grpVars => []ReceivedBeforeEnd
<1>1. GrpInv /\ [GrpNext]_grpVars => GrpInv'
  BY GrpInvNext
<1>2. GrpInv => ReceivedBeforeEnd
  BY DEF GrpInv, ToldIsEnd, ReceivedBeforeEnd
<1> QED
  BY <1>1, <1>2, GrpInvInit, PTL

-----------------------------------------------------------------------------
(* A gRPC stream: the end is told after the last message, with a status.     *)
GstSteps == {"none", "waits", "reads", "parses", "status", "over"}

GstServers == [at : {"open", "ended", "broken"}, sent : Nat, half : BOOLEAN]
GstReaders == [at : GstSteps, read : Nat, parsed : Nat]
GstCallers ==
    [at : {"idle", "open", "send", "close send", "recv", "recv wait"}, told : {"nothing", "end"}]

GstShapes ==
    /\ gstServer \in GstServers /\ gstReader \in GstReaders /\ gstBad \in Nat
    /\ gstInbox \in Seq(Nat) /\ gstTaken \in Seq(Nat)
    /\ gstThread \in [Threads -> GstCallers]

\* What was parsed is what was taken and then what waits, in order.
GstInOrder ==
    /\ \A i \in 1..Len(gstTaken) : gstTaken[i] = i
    /\ \A j \in 1..Len(gstInbox) : gstInbox[j] = Len(gstTaken) + j
    /\ Len(gstTaken) + Len(gstInbox) = gstReader.parsed

\* How far the reading leg is.
GstLegFar ==
    /\ gstReader.at = "parses" => gstReader.parsed < gstReader.read
    /\ gstReader.at \in {"none", "waits", "reads"} => gstReader.parsed = gstReader.read

GstEnding ==
    /\ gstReader.at \in {"status", "over"} <=> gstStatus # "none"
    /\ gstStatus = "told" =>
          /\ gstServer.at = "ended" /\ gstReader.read = gstServer.sent
          /\ gstBad = 0 => gstReader.parsed = gstReader.read
    /\ gstDone => gstReader.at = "over"
    /\ \A t \in Threads : gstThread[t].told = "end" => gstDone /\ gstInbox = <<>>

GstInv == GstShapes /\ (gstBad = 0 => GstInOrder /\ GstLegFar) /\ GstEnding

\* The reading leg begins with the task, and the task with the handle.
GstBegins ==
    /\ gstHandle = "none" => gstTask = "none"
    /\ gstTask \in {"none", "starts"} => gstReader.at = "none"

LEMMA GstInvInit == GstInit => GstInv
<1> SUFFICES ASSUME GstInit PROVE GstInv
  OBVIOUS
<1>1. /\ [at |-> "open", sent |-> 0, half |-> FALSE] \in GstServers
      /\ [at |-> "none", read |-> 0, parsed |-> 0] \in GstReaders
      /\ GstIdle \in GstCallers
  BY DEF GstServers, GstReaders, GstSteps, GstCallers, GstIdle
<1>2. gstBad \in Nat /\ <<>> \in Seq(Nat) /\ Len(<<>>) = 0
  BY GrpcStreamsAssumption DEF GstInit
<1>3. GstShapes
  BY <1>1, <1>2 DEF GstInit, GstShapes
<1>4. GstInOrder
  BY <1>2 DEF GstInit, GstInOrder
<1> QED
  BY <1>3, <1>4 DEF GstInit, GstInv, GstLegFar, GstEnding, GstIdle

\* A step of the program that is told nothing and takes nothing.
LEMMA GstThreadStep ==
    ASSUME GstInv, NEW t \in Threads, NEW p \in {"idle", "open", "send", "close send", "recv",
                                                 "recv wait"},
           GstGo(t, p), UNCHANGED <<gstServer, gstReader, gstBad, gstInbox, gstTaken, gstStatus,
                                    gstDone>>
    PROVE  GstInv'
<1> DEFINE r == [at |-> p, told |-> "nothing"]
<1>1. r \in GstCallers /\ r.told = "nothing"
  BY DEF GstCallers
<1>2. gstThread' = [gstThread EXCEPT ![t] = r] /\ gstThread \in [Threads -> GstCallers]
  BY DEF GstGo, GstInv, GstShapes
<1> HIDE DEF r
<1>3. /\ gstThread' \in [Threads -> GstCallers]
      /\ \A u \in Threads : gstThread'[u].told = "end" => gstThread[u].told = "end"
  BY <1>1, <1>2
<1> QED
  BY <1>3 DEF GstInv, GstShapes, GstInOrder, GstLegFar, GstEnding

LEMMA GstTakesKept ==
    ASSUME GstInv, NEW t \in Threads, GstTakes(t),
           UNCHANGED <<gstServer, gstReader, gstBad, gstStatus, gstDone>>
    PROVE  GstInv'
<1>1. gstInbox \in Seq(Nat) /\ gstTaken \in Seq(Nat) /\ gstInbox # <<>>
  BY DEF GstInv, GstShapes, GstTakes
<1>2. /\ gstTaken' = Append(gstTaken, Head(gstInbox)) /\ gstInbox' = Tail(gstInbox)
      /\ gstThread' = [gstThread EXCEPT ![t] = [at |-> "idle", told |-> "nothing"]]
  BY DEF GstTakes, GstReturns, GstGo
<1>3. /\ Head(gstInbox) \in Nat /\ gstInbox' \in Seq(Nat)
      /\ Len(gstInbox') = Len(gstInbox) - 1 /\ Len(gstInbox) \in Nat \ {0}
      /\ \A j \in 1..Len(gstInbox') : gstInbox'[j] = gstInbox[j + 1]
      /\ Head(gstInbox) = gstInbox[1]
  BY <1>1, <1>2, HeadTailProperties
<1>4. /\ gstTaken' \in Seq(Nat) /\ Len(gstTaken) \in Nat /\ Len(gstTaken') = Len(gstTaken) + 1
      /\ \A i \in 1..Len(gstTaken) : gstTaken'[i] = gstTaken[i]
      /\ gstTaken'[Len(gstTaken) + 1] = Head(gstInbox)
  BY <1>1, <1>2, <1>3, AppendProperties
<1>5. [at |-> "idle", told |-> "nothing"] \in GstCallers
  BY DEF GstCallers
<1>6. /\ gstThread' \in [Threads -> GstCallers]
      /\ \A u \in Threads : gstThread'[u].told = "end" => gstThread[u].told = "end"
  BY <1>2, <1>5 DEF GstInv, GstShapes
<1>7. ASSUME GstInOrder PROVE GstInOrder'
  <2>1. ASSUME NEW i \in 1..Len(gstTaken') PROVE gstTaken'[i] = i
    <3>1. CASE i \in 1..Len(gstTaken)
      BY <1>4, <1>7, <3>1 DEF GstInOrder
    <3>2. CASE i = Len(gstTaken) + 1
      BY <1>3, <1>4, <1>7, <3>2 DEF GstInOrder
    <3> QED
      BY <1>4, <3>1, <3>2
  <2>2. ASSUME NEW j \in 1..Len(gstInbox') PROVE gstInbox'[j] = Len(gstTaken') + j
    <3>1. j + 1 \in 1..Len(gstInbox) /\ gstInbox'[j] = gstInbox[j + 1]
      BY <1>3
    <3>2. gstInbox[j + 1] = Len(gstTaken) + (j + 1)
      BY <1>7, <3>1 DEF GstInOrder
    <3> QED
      BY <1>4, <3>1, <3>2
  <2>3. Len(gstTaken') + Len(gstInbox') = Len(gstTaken) + Len(gstInbox)
    BY <1>3, <1>4
  <2> QED
    BY <1>7, <2>1, <2>2, <2>3 DEF GstInOrder
<1>8. GstEnding'
  BY <1>1, <1>6 DEF GstInv, GstEnding
<1> QED
  BY <1>3, <1>4, <1>6, <1>7, <1>8 DEF GstInv, GstShapes, GstLegFar

LEMMA GstToldEndKept ==
    ASSUME GstInv, NEW t \in Threads, GstToldEnd(t),
           UNCHANGED <<gstServer, gstReader, gstBad, gstStatus, gstDone>>
    PROVE  GstInv'
<1>1. [at |-> "idle", told |-> "end"] \in GstCallers
  BY DEF GstCallers
<1>2. gstThread' \in [Threads -> GstCallers] /\ gstInbox = <<>> /\ gstDone
      /\ UNCHANGED <<gstInbox, gstTaken>>
  BY <1>1 DEF GstToldEnd, gstQueue, GstInv, GstShapes
<1> QED
  BY <1>2 DEF GstInv, GstShapes, GstInOrder, GstLegFar, GstEnding

\* A step of the reading leg or of the server, of which the program knows
\* nothing: what it needs of the leg's new place.
LEMMA GstLegStep ==
    ASSUME GstInv, gstServer' \in GstServers, gstReader' \in GstReaders, gstInbox' \in Seq(Nat),
           UNCHANGED <<gstBad, gstTaken, gstThread>>,
           gstBad = 0 => GstInOrder' /\ GstLegFar',
           gstReader'.at \in {"status", "over"} <=> gstStatus' # "none",
           gstStatus' = "told" =>
              /\ gstServer'.at = "ended" /\ gstReader'.read = gstServer'.sent
              /\ gstBad = 0 => gstReader'.parsed = gstReader'.read,
           gstDone' => gstReader'.at = "over", gstDone => gstDone' /\ UNCHANGED gstInbox
    PROVE  GstInv'
<1>1. \A t \in Threads : gstThread'[t].told = "end" => gstDone' /\ gstInbox' = <<>>
  BY DEF GstInv, GstEnding
<1> QED
  BY <1>1 DEF GstInv, GstShapes, GstEnding

\* A step of the leg that leaves the numbers and the queue.
LEMMA GstLegMoves ==
    ASSUME GstInv, UNCHANGED <<gstBad, gstTaken, gstThread, gstInbox>>,
           gstServer' \in GstServers, NEW p \in GstSteps, p # "parses",
           gstReader' = [gstReader EXCEPT !.at = p],
           gstReader.at = "status" => p \in {"status", "over"},
           gstReader.at = "over" => p = "over", gstReader.at # "parses" \/ p = "status",
           gstServer.at = "ended" => gstServer'.at = "ended" /\ gstServer'.sent = gstServer.sent,
           p \in {"status", "over"} <=> gstStatus' # "none",
           gstStatus' = "told" => gstStatus = "told" \/
              /\ gstServer'.at = "ended" /\ gstReader.read = gstServer'.sent
              /\ gstReader.at = "reads",
           gstDone' => p = "over", gstDone => gstDone'
    PROVE  GstInv'
<1>1. gstReader \in GstReaders
  BY DEF GstInv, GstShapes
<1>2. /\ gstReader' \in GstReaders /\ gstReader'.at = p /\ gstReader'.read = gstReader.read
      /\ gstReader'.parsed = gstReader.parsed
  BY <1>1 DEF GstReaders
<1>3. ASSUME gstBad = 0 PROVE GstInOrder' /\ GstLegFar'
  <2>1. GstInOrder'
    BY <1>2, <1>3 DEF GstInv, GstInOrder
  <2>2. p \in {"none", "waits", "reads"} => gstReader.at \in {"none", "waits", "reads"}
    BY <1>1 DEF GstReaders, GstSteps
  <2> QED
    BY <1>2, <1>3, <2>1, <2>2 DEF GstInv, GstLegFar
<1>4. ASSUME gstStatus' = "told"
      PROVE  /\ gstServer'.at = "ended" /\ gstReader'.read = gstServer'.sent
             /\ gstBad = 0 => gstReader'.parsed = gstReader'.read
  BY <1>2, <1>4 DEF GstInv, GstLegFar, GstEnding
<1>5. gstInbox \in Seq(Nat)
  BY DEF GstInv, GstShapes
<1> QED
  BY <1>2, <1>3, <1>4, <1>5, GstLegStep

\* A chunk: the leg has messages to parse.
LEMMA GstReadsKept ==
    ASSUME GstInv, GstReads
    PROVE  GstInv'
<1>1. /\ gstReader \in GstReaders /\ gstServer \in GstServers /\ gstInbox \in Seq(Nat)
      /\ gstReader.read \in Nat /\ gstServer.sent \in Nat
  BY DEF GstInv, GstShapes, GstReaders, GstServers
<1>2. PICK last \in (gstReader.read + 1)..gstServer.sent :
          gstReader' = [gstReader EXCEPT !.read = last, !.at = "parses"]
  BY DEF GstReads
<1>3. last \in Nat /\ gstReader.read < last
  BY <1>1, <1>2
<1>4. [gstReader EXCEPT !.read = last, !.at = "parses"] \in GstReaders
  BY <1>1, <1>3 DEF GstReaders, GstSteps
<1>5. /\ gstReader'.at = "parses" /\ gstReader'.read = last
      /\ gstReader'.parsed = gstReader.parsed
  BY <1>1, <1>2 DEF GstReaders
<1>6. gstReader.at = "reads" /\ UNCHANGED <<gstServer, gstBad, gstTaken, gstThread, gstStatus,
                                          gstDone, gstInbox>>
  BY DEF GstReads, GstReaderFrame, gstStart
<1>7. gstStatus = "none" /\ ~gstDone
  BY <1>6 DEF GstInv, GstEnding
<1>8. ASSUME gstBad = 0 PROVE GstInOrder' /\ GstLegFar'
  BY <1>3, <1>5, <1>6, <1>8 DEF GstInv, GstInOrder, GstLegFar
<1> QED
  BY <1>1, <1>2, <1>4, <1>5, <1>6, <1>7, <1>8, GstLegStep

\* A message is parsed, whether it is queued or dropped.
LEMMA GstParsedFacts ==
    ASSUME GstInv, NEW more \in BOOLEAN, GstParsed(more)
    PROVE  /\ gstReader' \in GstReaders /\ gstReader'.read = gstReader.read
           /\ gstReader'.parsed = gstReader.parsed + 1
           /\ gstReader'.at = IF more /\ gstReader.parsed + 1 < gstReader.read
                              THEN "parses" ELSE "reads"
<1> DEFINE p == IF more /\ gstReader.parsed + 1 < gstReader.read THEN "parses" ELSE "reads"
<1>1. gstReader \in GstReaders
  BY DEF GstInv, GstShapes
<1>2. gstReader' = [gstReader EXCEPT !.parsed = gstReader.parsed + 1, !.at = p]
  BY DEF GstParsed
<1>3. p \in GstSteps /\ gstReader.parsed + 1 \in Nat
  BY <1>1 DEF GstSteps, GstReaders
<1> HIDE DEF p
<1>4. [gstReader EXCEPT !.parsed = gstReader.parsed + 1, !.at = p] \in GstReaders
  BY <1>1, <1>3 DEF GstReaders
<1>5. gstReader'.read = gstReader.read /\ gstReader'.parsed = gstReader.parsed + 1
      /\ gstReader'.at = p
  BY <1>1, <1>2 DEF GstReaders
<1> QED
  BY <1>2, <1>4, <1>5 DEF p

LEMMA GstParsesKept ==
    ASSUME GstInv, GstParses
    PROVE  GstInv'
<1>1. /\ gstReader \in GstReaders /\ gstServer \in GstServers /\ gstInbox \in Seq(Nat)
      /\ gstTaken \in Seq(Nat) /\ gstReader.read \in Nat /\ gstReader.parsed \in Nat
  BY DEF GstInv, GstShapes, GstReaders
<1>2. /\ gstReader.at = "parses" /\ GstParsed(TRUE)
      /\ gstInbox' = Append(gstInbox, gstReader.parsed + 1)
      /\ UNCHANGED <<gstServer, gstBad, gstTaken, gstThread, gstStatus, gstDone>>
  BY DEF GstParses, GstReaderFrame, gstStart
<1>3. /\ gstReader' \in GstReaders /\ gstReader'.read = gstReader.read
      /\ gstReader'.parsed = gstReader.parsed + 1
      /\ gstReader'.at = IF gstReader.parsed + 1 < gstReader.read THEN "parses" ELSE "reads"
  BY <1>2, GstParsedFacts
<1>4. gstStatus = "none" /\ ~gstDone
  BY <1>2 DEF GstInv, GstEnding
<1>5. /\ gstInbox' \in Seq(Nat) /\ Len(gstInbox) \in Nat /\ Len(gstInbox') = Len(gstInbox) + 1
      /\ \A j \in 1..Len(gstInbox) : gstInbox'[j] = gstInbox[j]
      /\ gstInbox'[Len(gstInbox) + 1] = gstReader.parsed + 1
      /\ Len(gstTaken) \in Nat
  <2>1. gstReader.parsed + 1 \in Nat
    BY <1>1
  <2> QED
    BY <1>1, <1>2, <2>1, AppendProperties
<1>6. ASSUME gstBad = 0 PROVE GstInOrder' /\ GstLegFar'
  <2>0. GstInOrder /\ GstLegFar
    BY <1>6 DEF GstInv
  <2>1. ASSUME NEW j \in 1..Len(gstInbox') PROVE gstInbox'[j] = Len(gstTaken') + j
    <3>1. CASE j \in 1..Len(gstInbox)
      BY <1>2, <1>5, <2>0, <3>1 DEF GstInOrder
    <3>2. CASE j = Len(gstInbox) + 1
      BY <1>2, <1>5, <2>0, <3>2 DEF GstInOrder
    <3> QED
      BY <1>5, <3>1, <3>2
  <2>2. Len(gstTaken') + Len(gstInbox') = gstReader'.parsed
    BY <1>2, <1>3, <1>5, <2>0 DEF GstInOrder
  <2>3. \A i \in 1..Len(gstTaken') : gstTaken'[i] = i
    BY <1>2, <2>0 DEF GstInOrder
  <2>4. GstLegFar'
    BY <1>1, <1>2, <1>3, <2>0 DEF GstLegFar
  <2> QED
    BY <2>1, <2>2, <2>3, <2>4 DEF GstInOrder
<1> QED
  BY <1>1, <1>2, <1>3, <1>4, <1>5, <1>6, GstLegStep

LEMMA GstParsesBadKept ==
    ASSUME GstInv, GstParsesBad
    PROVE  GstInv'
<1>1. /\ gstReader.at = "parses" /\ gstReader.parsed + 1 = gstBad
      /\ UNCHANGED <<gstServer, gstBad, gstTaken, gstThread, gstDone, gstInbox>>
  BY DEF GstParsesBad, GstReaderFrame, gstStart
<1>2. gstReader \in GstReaders /\ gstServer \in GstServers /\ gstInbox \in Seq(Nat)
  BY DEF GstInv, GstShapes
<1>3. gstBad # 0
  BY <1>1, <1>2 DEF GstReaders
<1>4. gstStatus = "none" /\ ~gstDone
  BY <1>1 DEF GstInv, GstEnding
<1>5. CASE GstParsed(FALSE) /\ UNCHANGED gstStatus
  BY <1>1, <1>2, <1>3, <1>4, <1>5, GstParsedFacts, GstLegStep
<1>6. CASE GstStatusIs("exhausted")
  <2>1. gstReader' = [gstReader EXCEPT !.at = "status"] /\ gstStatus' = "exhausted"
    BY <1>6 DEF GstStatusIs
  <2>2. "status" \in GstSteps
    BY DEF GstSteps
  <2> QED
    BY <1>1, <1>2, <1>4, <2>1, <2>2, GstLegMoves
<1> QED
  BY <1>5, <1>6 DEF GstParsesBad

LEMMA GstReaderKept ==
    ASSUME GstInv, GstReaderRuns
    PROVE  GstInv'
<1>1. gstServer \in GstServers /\ "reads" \in GstSteps /\ "status" \in GstSteps /\ "over" \in GstSteps
  BY DEF GstInv, GstShapes, GstSteps
<1>2. CASE GstAnswered
  <2>1. PICK p \in {"reads", "status"} :
            /\ gstReader' = [gstReader EXCEPT !.at = p] /\ gstReader.at = "waits"
            /\ p = "reads" => UNCHANGED gstStatus
            /\ p = "status" => gstStatus' = "unavailable"
    BY <1>2 DEF GstAnswered, GstStatusIs
  <2>2. gstStatus = "none" /\ ~gstDone
    BY <2>1 DEF GstInv, GstEnding
  <2>3. UNCHANGED <<gstServer, gstBad, gstTaken, gstThread, gstDone, gstInbox>>
    BY <1>2 DEF GstAnswered, GstReaderFrame, gstStart
  <2> QED
    BY <1>1, <2>1, <2>2, <2>3, GstLegMoves
<1>3. CASE GstTrailers
  <2>1. /\ gstReader' = [gstReader EXCEPT !.at = "status"] /\ gstReader.at = "reads"
        /\ gstStatus' \in {"told", "unknown"}
        /\ gstStatus' = "told" => gstServer.at = "ended" /\ gstReader.read = gstServer.sent
    BY <1>3 DEF GstTrailers, GstStatusIs
  <2>2. gstStatus = "none" /\ ~gstDone
    BY <2>1 DEF GstInv, GstEnding
  <2>3. UNCHANGED <<gstServer, gstBad, gstTaken, gstThread, gstDone, gstInbox>>
    BY <1>3 DEF GstTrailers, GstReaderFrame, gstStart
  <2> QED
    BY <1>1, <2>1, <2>2, <2>3, GstLegMoves
<1>4. CASE GstFinishes
  <2>1. /\ gstReader' = [gstReader EXCEPT !.at = "over"] /\ gstReader.at = "status"
        /\ gstDone' = TRUE
        /\ UNCHANGED <<gstServer, gstBad, gstTaken, gstThread, gstStatus, gstInbox>>
    BY <1>4 DEF GstFinishes, GstReaderFrame, gstStart
  <2>2. gstStatus # "none"
    BY <2>1 DEF GstInv, GstEnding
  <2> QED
    BY <1>1, <2>1, <2>2, GstLegMoves
<1> QED
  BY <1>2, <1>3, <1>4, GstReadsKept, GstParsesKept, GstParsesBadKept DEF GstReaderRuns

\* The opening, the writing leg and the server.
LEMMA GstOthersKept ==
    ASSUME GstInv, GstBegins, GstStarts \/ GstWriterRuns \/ GstServerActs
    PROVE  GstInv'
<1>1. gstServer \in GstServers /\ gstReader \in GstReaders /\ gstInbox \in Seq(Nat)
  BY DEF GstInv, GstShapes
<1>2. CASE GstWriterRuns \/ GstServerActs
  <2>1. /\ gstServer' \in GstServers
        /\ gstServer.at = "ended" => gstServer'.at = "ended" /\ gstServer'.sent = gstServer.sent
    <3>1. CASE GstWrites
      BY <1>1, <3>1 DEF GstWrites
    <3>2. CASE GstHalfCloses
      BY <1>1, <3>2 DEF GstHalfCloses, GstServers
    <3>3. CASE GstServerActs
      BY <1>1, <3>3 DEF GstServerActs, GstServers
    <3>4. CASE GstWriterEnds
      BY <1>1, <3>4 DEF GstWriterEnds
    <3> QED
      BY <1>2, <3>1, <3>2, <3>3, <3>4 DEF GstWriterRuns
  <2>2. UNCHANGED <<gstBad, gstReader, gstStatus, gstDone, gstInbox, gstTaken, gstThread>>
    BY <1>2 DEF GstWriterRuns, GstWrites, GstHalfCloses, GstWriterEnds, GstWriterFrame,
       GstServerActs, gstStart, gstReading, gstQueue
  <2>3. gstBad = 0 => GstInOrder' /\ GstLegFar'
    BY <2>2 DEF GstInv, GstInOrder, GstLegFar
  <2> QED
    BY <1>1, <2>1, <2>2, <2>3, GstLegStep DEF GstInv, GstEnding
<1>3. CASE GstStarts
  <2>1. UNCHANGED <<gstServer, gstBad, gstStatus, gstDone, gstInbox, gstTaken, gstThread>>
    BY <1>3 DEF GstStarts, gstQueue
  <2>2. gstReader.at = "none"
    BY <1>3 DEF GstBegins, GstStarts
  <2>3. gstStatus = "none" /\ ~gstDone
    BY <2>2 DEF GstInv, GstEnding
  <2>4. CASE UNCHANGED gstReader
    <3>1. gstBad = 0 => GstInOrder' /\ GstLegFar'
      BY <2>1, <2>4 DEF GstInv, GstInOrder, GstLegFar
    <3> QED
      BY <1>1, <2>1, <2>2, <2>3, <2>4, <3>1, GstLegStep
  <2>5. CASE gstReader' = [gstReader EXCEPT !.at = "waits"]
    <3>1. "waits" \in GstSteps
      BY DEF GstSteps
    <3> QED
      BY <1>1, <2>1, <2>2, <2>3, <2>5, <3>1, GstLegMoves
  <2> QED
    BY <1>3, <2>4, <2>5 DEF GstStarts
<1> QED
  BY <1>2, <1>3

LEMMA GstBeginsKept ==
    ASSUME GstInv, GstBegins, [GstNext]_gstVars
    PROVE  GstBegins'
<1>1. gstReader \in GstReaders
  BY DEF GstInv, GstShapes
<1>2. CASE GstReaderRuns
  <2>1. gstReader.at # "none" /\ UNCHANGED <<gstHandle, gstTask>>
    BY <1>2 DEF GstReaderRuns, GstAnswered, GstReads, GstParses, GstParsesBad, GstTrailers,
       GstFinishes, GstReaderFrame, gstStart
  <2> QED
    BY <2>1 DEF GstBegins
<1>3. CASE GstStarts
  BY <1>3 DEF GstStarts, GstBegins
<1>4. CASE GstWriterRuns \/ GstServerActs \/ UNCHANGED gstVars
  BY <1>4 DEF GstWriterRuns, GstWrites, GstHalfCloses, GstWriterEnds, GstWriterFrame,
     GstServerActs, gstStart, gstReading, gstVars, GstBegins
<1>5. ASSUME NEW t \in StreamUsers,
             \/ GstOpen(t) \/ GstSend(t) \/ GstCloseSend(t) \/ GstRecv(t) \/ GstFree(t)
             \/ GstRuns(t)
      PROVE  GstBegins'
  <2>1. UNCHANGED gstReader
    BY <1>5 DEF GstOpen, GstSend, GstCloseSend, GstRecv, GstFree, GstRuns, GstOpened, GstPuts,
       GstRecvLooks, GstRecvWoken, GstProgramFrame, gstReading
  <2>2. CASE GstOpen(t)
    BY <2>1, <2>2 DEF GstOpen, GstBegins
  <2>3. CASE GstOpened(t)
    <3>1. gstHandle' # "none" /\ UNCHANGED gstTask
      BY <2>3 DEF GstOpened
    <3> QED
      BY <2>1, <3>1 DEF GstBegins
  <2>4. CASE GstSend(t) \/ GstCloseSend(t) \/ GstRecv(t) \/ GstFree(t) \/ GstPuts(t)
             \/ GstRecvLooks(t) \/ GstRecvWoken(t)
    <3>1. UNCHANGED gstTask /\ (gstHandle' = gstHandle \/ gstHandle' \in {"freed", "dropped"})
      BY <2>4 DEF GstSend, GstCloseSend, GstRecv, GstFree, GstPuts, GstRecvLooks, GstRecvWoken,
         GstProgramFrame
    <3> QED
      BY <2>1, <3>1 DEF GstBegins
  <2> QED
    BY <1>5, <2>2, <2>3, <2>4 DEF GstRuns
<1> QED
  BY <1>2, <1>3, <1>4, <1>5 DEF GstNext

\* The program's calls.
LEMMA GstCallsKept ==
    ASSUME GstInv, NEW t \in Threads,
           \/ GstOpen(t) \/ GstSend(t) \/ GstCloseSend(t) \/ GstRecv(t) \/ GstFree(t)
           \/ GstRuns(t)
    PROVE  GstInv'
<1>1. CASE GstRecvLooks(t) \/ GstRecvWoken(t)
  <2>1. UNCHANGED <<gstServer, gstReader, gstBad, gstStatus, gstDone>>
    BY <1>1 DEF GstRecvLooks, GstRecvWoken, GstProgramFrame, gstReading
  <2>2. \/ GstTakes(t) \/ GstToldEnd(t)
        \/ (GstGo(t, "recv wait") \/ GstGo(t, "idle")) /\ UNCHANGED gstQueue
    BY <1>1 DEF GstRecvLooks, GstRecvWoken, GstReturns
  <2> QED
    BY <2>1, <2>2, GstTakesKept, GstToldEndKept, GstThreadStep DEF gstQueue
<1>2. CASE \/ GstOpen(t) \/ GstSend(t) \/ GstCloseSend(t) \/ GstRecv(t) \/ GstFree(t)
           \/ GstOpened(t) \/ GstPuts(t)
  <2>1. UNCHANGED <<gstServer, gstReader, gstBad, gstInbox, gstTaken, gstStatus, gstDone>>
    BY <1>2 DEF GstOpen, GstSend, GstCloseSend, GstRecv, GstFree, GstOpened, GstPuts,
       GstProgramFrame, gstReading, gstQueue
  <2>2. PICK p \in {"idle", "open", "send", "close send", "recv"} : GstGo(t, p)
    BY <1>2 DEF GstOpen, GstSend, GstCloseSend, GstRecv, GstFree, GstOpened, GstPuts, GstReturns
  <2> QED
    BY <2>1, <2>2, GstThreadStep
<1> QED
  BY <1>1, <1>2 DEF GstRuns

LEMMA GstInvNext ==
    ASSUME GstInv, GstBegins, [GstNext]_gstVars
    PROVE  GstInv'
<1>1. StreamUsers \subseteq Threads
  BY GrpcStreamsAssumption
<1>2. CASE UNCHANGED gstVars
  BY <1>2 DEF gstVars, GstInv, GstShapes, GstInOrder, GstLegFar, GstEnding
<1> QED
  BY <1>1, <1>2, GstCallsKept, GstReaderKept, GstOthersKept DEF GstNext

\* A program is told the end of a stream when it has every message the server
\* sent, in their order, and the stream its status, whoever receives, sends or
\* frees and in what pieces they come (grpc_client_ffi.rs:1213).
THEOREM StreamsAreReadWhole == GstInit /\ [][GstNext]_gstVars => []StreamReadWhole
<1>1. GstInit => GstInv /\ GstBegins
  BY GstInvInit DEF GstInit, GstBegins
<1>2. GstInv /\ GstBegins /\ [GstNext]_gstVars => (GstInv /\ GstBegins)'
  BY GstInvNext, GstBeginsKept
<1>3. ASSUME GstInv PROVE StreamReadWhole
  <2>1. \A i \in DOMAIN gstTaken : gstBad = 0 => gstTaken[i] = i
    BY <1>3 DEF GstInv, GstShapes, GstInOrder
  <2>2. ASSUME NEW t \in Threads, gstThread[t].told = "end"
        PROVE  /\ gstStatus # "none"
               /\ gstStatus = "told" /\ gstBad = 0 => Len(gstTaken) = gstServer.sent
    <3>1. gstDone /\ gstInbox = <<>> /\ gstReader.at = "over"
      BY <1>3, <2>2 DEF GstInv, GstEnding
    <3>2. Len(gstTaken) \in Nat /\ Len(gstInbox) = 0
      BY <1>3, <3>1, EmptySeq, LenProperties DEF GstInv, GstShapes
    <3> QED
      BY <1>3, <3>1, <3>2 DEF GstInv, GstEnding, GstInOrder
  <2> QED
    BY <2>1, <2>2 DEF StreamReadWhole
<1> QED
  BY <1>1, <1>2, <1>3, PTL

-----------------------------------------------------------------------------
(* An MCP server over HTTP: nobody gets another's response.                  *)
HttpCallers ==
    [at : {"idle", "lock", "attempt", "write", "read", "delete"}, post : Nat,
     attempt : {0, 1}, got : Nat]

HttpShapes ==
    /\ httpStream \in Nat /\ httpStreams \in Nat /\ httpPosts \in Nat
    /\ httpStream <= httpStreams /\ httpStreams <= MaxStreams
    /\ httpWire \in [1..MaxStreams -> Seq(Nat)]
    /\ httpThread \in [Threads -> HttpCallers]

HttpBusy(t) == httpThread[t].at \in {"attempt", "write", "read"}

\* Who is at a request holds the mutex.
HttpHeld == \A t \in Threads : HttpBusy(t) => httpLock = t

\* On the connection in use there is the request whose response is read, and
\* no other; none was written to one that was not opened yet.
HttpWireClear ==
    /\ \A t \in Threads :
          /\ HttpAt(t, "write") => httpStream # 0
          /\ HttpAt(t, "read") =>
                httpStream # 0 /\ httpWire[httpStream] = <<httpThread[t].post>>
    /\ httpStream # 0 /\ (\A t \in Threads : ~HttpAt(t, "read")) => httpWire[httpStream] = <<>>
    /\ \A c \in 1..MaxStreams : c > httpStreams => httpWire[c] = <<>>

HttpInv == HttpShapes /\ HttpHeld /\ HttpWireClear /\ OwnResponses

LEMMA HttpInvInit == HttpInit => HttpInv
<1> SUFFICES ASSUME HttpInit PROVE HttpInv
  OBVIOUS
<1>1. [at |-> "idle", post |-> 0, attempt |-> 0, got |-> 0] \in HttpCallers
  BY DEF HttpCallers
<1>2. HttpShapes
  BY <1>1, HttpAssumption DEF HttpInit, HttpShapes
<1> QED
  BY <1>2 DEF HttpInit, HttpInv, HttpHeld, HttpBusy, HttpWireClear, OwnResponses, HttpAt

\* One thread moves to r: what it needs for the invariant to hold.
LEMMA HttpStep ==
    ASSUME HttpInv, NEW t \in Threads, NEW r \in HttpCallers,
           httpThread' = [httpThread EXCEPT ![t] = r],
           httpStream' \in Nat, httpStreams' \in Nat, httpPosts' \in Nat,
           httpStream' <= httpStreams', httpStreams' <= MaxStreams,
           httpWire' \in [1..MaxStreams -> Seq(Nat)],
           r.got \in {0, r.post},
           r.at \in {"attempt", "write", "read"} => httpLock' = t,
           \A u \in Threads \ {t} : HttpBusy(u) => httpLock' = u,
           (\E u \in Threads \ {t} : HttpBusy(u)) => UNCHANGED <<httpStream, httpWire>>,
           r.at = "write" => httpStream' # 0,
           r.at = "read" => httpStream' # 0 /\ httpWire'[httpStream'] = <<r.post>>,
           httpStream' # 0 /\ r.at # "read" /\ (\A u \in Threads \ {t} : ~HttpAt(u, "read"))
              => httpWire'[httpStream'] = <<>>,
           \A c \in 1..MaxStreams : c > httpStreams' => httpWire'[c] = <<>>
    PROVE  HttpInv'
<1>1. /\ httpThread' \in [Threads -> HttpCallers] /\ httpThread'[t] = r
      /\ \A u \in Threads \ {t} : httpThread'[u] = httpThread[u]
  <2>1. httpThread \in [Threads -> HttpCallers]
    BY DEF HttpInv, HttpShapes
  <2> QED
    BY <2>1
<1>2. HttpHeld'
  BY <1>1 DEF HttpHeld, HttpBusy
<1>3. OwnResponses'
  BY <1>1 DEF HttpInv, OwnResponses
<1>4. ASSUME NEW u \in Threads
      PROVE  /\ HttpAt(u, "write")' => httpStream' # 0
             /\ HttpAt(u, "read")' =>
                   httpStream' # 0 /\ httpWire'[httpStream'] = <<httpThread'[u].post>>
  <2>1. CASE u = t
    BY <1>1, <2>1 DEF HttpAt
  <2>2. CASE u # t
    <3>1. httpThread'[u] = httpThread[u]
      BY <1>1, <2>2
    <3>2. CASE HttpBusy(u)
      <4>1. UNCHANGED <<httpStream, httpWire>>
        BY <2>2, <3>2
      <4> QED
        BY <3>1, <4>1 DEF HttpInv, HttpWireClear, HttpAt
    <3>3. CASE ~HttpBusy(u)
      BY <3>1, <3>3 DEF HttpBusy, HttpAt
    <3> QED
      BY <3>2, <3>3
  <2> QED
    BY <2>1, <2>2
<1>5. httpStream' # 0 /\ (\A u \in Threads : ~HttpAt(u, "read")') => httpWire'[httpStream'] = <<>>
  BY <1>1 DEF HttpAt
<1> QED
  BY <1>1, <1>2, <1>3, <1>4, <1>5 DEF HttpInv, HttpShapes, HttpWireClear

\* What the steps of a request begin from.
LEMMA HttpNow ==
    ASSUME HttpInv, NEW t \in Threads
    PROVE  /\ httpStream \in Nat /\ httpStreams \in Nat /\ httpPosts \in Nat
           /\ httpStream <= httpStreams /\ httpStreams <= MaxStreams
           /\ httpWire \in [1..MaxStreams -> Seq(Nat)]
           /\ \A c \in 1..MaxStreams : c > httpStreams => httpWire[c] = <<>>
           /\ httpStream # 0 => httpStream \in 1..MaxStreams
           /\ httpThread[t] \in HttpCallers /\ httpThread[t].got \in {0, httpThread[t].post}
           /\ httpThread[t].post \in Nat
           /\ HttpBusy(t) => httpLock = t /\ \A u \in Threads \ {t} : ~HttpBusy(u)
           /\ \A u \in Threads : HttpAt(u, "read") => HttpBusy(u)
           /\ \A u \in Threads : HttpBusy(u) => httpLock = u
<1>1. MaxStreams \in Nat
  BY HttpAssumption
<1>2. /\ httpStream \in Nat /\ httpStreams \in Nat /\ httpPosts \in Nat
      /\ httpStream <= httpStreams /\ httpStreams <= MaxStreams
      /\ httpWire \in [1..MaxStreams -> Seq(Nat)] /\ httpThread[t] \in HttpCallers
  BY DEF HttpInv, HttpShapes
<1>3. httpStream # 0 => httpStream \in 1..MaxStreams
  BY <1>1, <1>2
<1>4. httpThread[t].post \in Nat
  BY <1>2 DEF HttpCallers
<1> QED
  BY <1>2, <1>3, <1>4 DEF HttpInv, HttpWireClear, HttpHeld, HttpBusy, HttpAt, OwnResponses

\* An edit of what a thread is at.
LEMMA HttpEdits ==
    ASSUME NEW r \in HttpCallers
    PROVE  /\ \A p \in {"idle", "attempt", "write", "read", "delete"} :
                 LET s == [r EXCEPT !.at = p]
                 IN  s \in HttpCallers /\ s.at = p /\ s.post = r.post /\ s.got = r.got
           /\ LET s == [r EXCEPT !.at = "attempt", !.attempt = 1]
              IN  s \in HttpCallers /\ s.at = "attempt" /\ s.post = r.post /\ s.got = r.got
           /\ LET s == [r EXCEPT !.at = "idle", !.got = r.post]
              IN  s \in HttpCallers /\ s.at = "idle" /\ s.post = r.post /\ s.got = r.post
<1>1. ASSUME NEW p \in {"idle", "attempt", "write", "read", "delete"}
      PROVE  LET s == [r EXCEPT !.at = p]
             IN  s \in HttpCallers /\ s.at = p /\ s.post = r.post /\ s.got = r.got
  BY <1>1 DEF HttpCallers
<1>2. LET s == [r EXCEPT !.at = "attempt", !.attempt = 1]
      IN  s \in HttpCallers /\ s.at = "attempt" /\ s.post = r.post /\ s.got = r.got
  BY DEF HttpCallers
<1>3. LET s == [r EXCEPT !.at = "idle", !.got = r.post]
      IN  s \in HttpCallers /\ s.at = "idle" /\ s.post = r.post /\ s.got = r.post
  BY DEF HttpCallers
<1> QED
  BY <1>1, <1>2, <1>3

\* The next attempt keeps the mutex, the end gives it back; neither reads.
LEMMA HttpNextAttempt ==
    ASSUME HttpInv, NEW t \in Threads, HttpBusy(t), NextAttempt(t)
    PROVE  \E r \in HttpCallers :
              /\ httpThread' = [httpThread EXCEPT ![t] = r]
              /\ r.at \in {"attempt", "idle"} /\ r.got \in {0, r.post}
              /\ r.at = "attempt" => httpLock' = t
<1>1. /\ httpThread[t] \in HttpCallers /\ httpThread[t].got \in {0, httpThread[t].post}
      /\ httpLock = t
  BY HttpNow
<1>2. CASE httpThread[t].attempt = 0
  <2>1. httpThread' = [httpThread EXCEPT ![t] = [httpThread[t] EXCEPT !.at = "attempt", !.attempt = 1]]
        /\ UNCHANGED httpLock
    BY <1>2 DEF NextAttempt
  <2> QED
    BY <1>1, <2>1, HttpEdits
<1>3. CASE httpThread[t].attempt # 0
  <2>1. httpThread' = [httpThread EXCEPT ![t] = [httpThread[t] EXCEPT !.at = "idle"]]
    BY <1>3 DEF NextAttempt, HttpGo
  <2> QED
    BY <1>1, <2>1, HttpEdits
<1> QED
  BY <1>2, <1>3

\* A failure: the connection is given up, or none was opened.
LEMMA HttpFails ==
    ASSUME HttpInv, NEW t \in Threads, HttpBusy(t), NextAttempt(t), httpStream' = 0,
           UNCHANGED <<httpStreams, httpWire, httpPosts>>
    PROVE  HttpInv'
<1>1. PICK r \in HttpCallers :
          /\ httpThread' = [httpThread EXCEPT ![t] = r]
          /\ r.at \in {"attempt", "idle"} /\ r.got \in {0, r.post}
          /\ r.at = "attempt" => httpLock' = t
  BY HttpNextAttempt
<1>2. \A u \in Threads \ {t} : ~HttpBusy(u)
  BY HttpNow
<1>3. /\ httpStream' \in Nat /\ httpStreams' \in Nat /\ httpPosts' \in Nat
      /\ httpStream' <= httpStreams' /\ httpStreams' <= MaxStreams
      /\ httpWire' \in [1..MaxStreams -> Seq(Nat)]
      /\ \A c \in 1..MaxStreams : c > httpStreams' => httpWire'[c] = <<>>
  BY HttpNow
<1> QED
  BY <1>1, <1>2, <1>3, HttpStep

LEMMA HttpWriteKept ==
    ASSUME HttpInv, NEW t \in Threads, HttpWrite(t)
    PROVE  HttpInv'
<1>1. HttpBusy(t) /\ httpStream \in 1..MaxStreams /\ UNCHANGED <<httpStreams, httpPosts>>
  BY HttpNow DEF HttpWrite, HttpAt, HttpBusy, HttpInv, HttpWireClear
<1>2. /\ httpLock = t /\ (\A u \in Threads \ {t} : ~HttpBusy(u)) /\ httpThread[t] \in HttpCallers
      /\ \A u \in Threads : ~HttpAt(u, "read")
  BY <1>1, HttpNow DEF HttpWrite, HttpAt, HttpBusy
<1>3. CASE /\ httpWire' = [httpWire EXCEPT ![httpStream] = Append(@, httpThread[t].post)]
           /\ HttpGo(t, "read") /\ UNCHANGED <<httpLock, httpStream>>
  <2> DEFINE r == [httpThread[t] EXCEPT !.at = "read"]
  <2>1. httpThread' = [httpThread EXCEPT ![t] = r]
    BY <1>3 DEF HttpGo
  <2>2. r \in HttpCallers /\ r.at = "read" /\ r.post = httpThread[t].post
        /\ r.got = httpThread[t].got
    BY <1>2, HttpEdits
  <2> HIDE DEF r
  <2>3. httpWire[httpStream] = <<>>
    BY <1>1, <1>2 DEF HttpInv, HttpWireClear
  <2>4. httpThread[t].post \in Nat
    BY HttpNow
  <2>5. /\ Append(<<>>, httpThread[t].post) = <<httpThread[t].post>>
        /\ <<httpThread[t].post>> \in Seq(Nat)
    BY <2>4
  <2>6. /\ httpWire'[httpStream] = <<r.post>> /\ httpWire' \in [1..MaxStreams -> Seq(Nat)]
        /\ \A c \in 1..MaxStreams : c # httpStream => httpWire'[c] = httpWire[c]
    <3>1. httpWire \in [1..MaxStreams -> Seq(Nat)]
      BY HttpNow
    <3>2. httpWire' = [httpWire EXCEPT ![httpStream] = <<httpThread[t].post>>]
      BY <1>3, <2>3, <2>5
    <3> QED
      BY <1>1, <2>2, <2>5, <3>1, <3>2
  <2>7. ASSUME NEW c \in 1..MaxStreams, c > httpStreams' PROVE httpWire'[c] = <<>>
    <3>1. c # httpStream /\ c > httpStreams
      BY <1>1, <2>7, HttpNow
    <3> QED
      BY <2>6, <3>1, HttpNow
  <2>8. httpStream # 0
    BY <1>1
  <2> QED
    BY <1>1, <1>2, <1>3, <2>1, <2>2, <2>6, <2>7, <2>8, HttpNow, HttpStep
<1>4. CASE NextAttempt(t) /\ httpStream' = 0 /\ UNCHANGED httpWire
  BY <1>1, <1>4, HttpFails
<1> QED
  BY <1>3, <1>4 DEF HttpWrite

LEMMA HttpReadKept ==
    ASSUME HttpInv, NEW t \in Threads, HttpRead(t)
    PROVE  HttpInv'
<1>1. HttpBusy(t) /\ HttpAt(t, "read") /\ UNCHANGED <<httpStream, httpStreams, httpPosts>>
  BY DEF HttpRead, HttpAt, HttpBusy
<1>2. httpStream \in 1..MaxStreams /\ httpWire[httpStream] = <<httpThread[t].post>>
  BY <1>1, HttpNow DEF HttpInv, HttpWireClear
<1>3. (\A u \in Threads \ {t} : ~HttpBusy(u)) /\ httpThread[t] \in HttpCallers
      /\ httpThread[t].post \in Nat
  BY <1>1, HttpNow
<1> DEFINE r == [httpThread[t] EXCEPT !.at = "idle", !.got = httpThread[t].post]
<1>4. Head(<<httpThread[t].post>>) = httpThread[t].post /\ Tail(<<httpThread[t].post>>) = <<>>
  BY <1>3
<1>5. httpThread' = [httpThread EXCEPT ![t] = r]
  BY <1>2, <1>4 DEF HttpRead
<1>6. r \in HttpCallers /\ r.at = "idle" /\ r.post = httpThread[t].post /\ r.got = r.post
  BY <1>3 DEF HttpCallers
<1> HIDE DEF r
<1>7. /\ httpWire'[httpStream] = <<>> /\ httpWire' \in [1..MaxStreams -> Seq(Nat)]
      /\ \A c \in 1..MaxStreams : c # httpStream => httpWire'[c] = httpWire[c]
  <2>1. httpWire \in [1..MaxStreams -> Seq(Nat)] /\ <<>> \in Seq(Nat)
    BY HttpNow
  <2>2. httpWire' = [httpWire EXCEPT ![httpStream] = <<>>]
    BY <1>2, <1>4 DEF HttpRead
  <2> QED
    BY <1>2, <2>1, <2>2
<1>8. \A c \in 1..MaxStreams : c > httpStreams' => httpWire'[c] = <<>>
  BY <1>1, <1>7, HttpNow
<1> QED
  BY <1>1, <1>3, <1>5, <1>6, <1>7, <1>8, HttpNow, HttpStep

LEMMA HttpConnectKept ==
    ASSUME HttpInv, NEW t \in Threads, HttpConnect(t)
    PROVE  HttpInv'
<1>1. HttpBusy(t) /\ httpStream = 0 /\ UNCHANGED <<httpWire, httpPosts>>
  BY DEF HttpConnect, HttpAt, HttpBusy
<1>2. /\ httpLock = t /\ (\A u \in Threads \ {t} : ~HttpBusy(u)) /\ httpThread[t] \in HttpCallers
      /\ \A u \in Threads : ~HttpAt(u, "read")
  BY <1>1, HttpNow DEF HttpConnect, HttpAt, HttpBusy
<1>3. CASE /\ httpStreams < MaxStreams
           /\ httpStreams' = httpStreams + 1 /\ httpStream' = httpStreams + 1
           /\ HttpGo(t, "write") /\ UNCHANGED httpLock
  <2> DEFINE r == [httpThread[t] EXCEPT !.at = "write"]
  <2>1. httpThread' = [httpThread EXCEPT ![t] = r]
    BY <1>3 DEF HttpGo
  <2>2. r \in HttpCallers /\ r.at = "write" /\ r.post = httpThread[t].post
        /\ r.got = httpThread[t].got
    BY <1>2, HttpEdits
  <2> HIDE DEF r
  <2>3. /\ httpStreams' \in Nat /\ httpStream' \in Nat /\ httpStream' <= httpStreams'
        /\ httpStreams' <= MaxStreams /\ httpStream' # 0 /\ httpStream' \in 1..MaxStreams
        /\ httpStream' > httpStreams
    BY <1>3, HttpNow, HttpAssumption
  <2>4. httpWire'[httpStream'] = <<>>
    BY <1>1, <2>3, HttpNow
  <2>5. \A c \in 1..MaxStreams : c > httpStreams' => httpWire'[c] = <<>>
    BY <1>1, <1>3, HttpNow
  <2> QED
    BY <1>1, <1>2, <1>3, <2>1, <2>2, <2>3, <2>4, <2>5, HttpNow, HttpStep
<1>4. CASE NextAttempt(t) /\ UNCHANGED <<httpStream, httpStreams>>
  BY <1>1, <1>4, HttpFails
<1> QED
  BY <1>3, <1>4 DEF HttpConnect

\* The other steps leave the wire alone, and the mutex to who has it.
LEMMA HttpOtherKept ==
    ASSUME HttpInv, NEW t \in Threads,
           HttpPost(t) \/ HttpLock(t) \/ HttpReuse(t) \/ HttpClose(t) \/ HttpDelete(t)
    PROVE  HttpInv'
<1>1. ~HttpAt(t, "read") /\ UNCHANGED <<httpStreams, httpWire>> /\ httpPosts' \in Nat
  BY HttpNow DEF HttpPost, HttpLock, HttpReuse, HttpClose, HttpDelete, HttpAt
<1>2. PICK r \in HttpCallers :
          /\ httpThread' = [httpThread EXCEPT ![t] = r] /\ r.got \in {0, r.post}
          /\ r.at # "read" /\ (r.at = "write" => httpStream' # 0)
          /\ r.at \in {"attempt", "write"} => httpLock' = t
  <2>1. CASE HttpPost(t)
    <3>1. [at |-> "lock", post |-> httpPosts + 1, attempt |-> 0, got |-> 0] \in HttpCallers
      BY HttpNow DEF HttpCallers
    <3> QED
      BY <2>1, <3>1 DEF HttpPost
  <2>2. CASE HttpLock(t)
    BY <2>2, HttpNow, HttpEdits DEF HttpLock, HttpGo
  <2>3. CASE HttpReuse(t)
    BY <2>3, HttpNow, HttpEdits DEF HttpReuse, HttpGo, HttpAt, HttpBusy
  <2>4. CASE HttpClose(t)
    BY <2>4, HttpNow, HttpEdits DEF HttpClose, HttpGo
  <2>5. CASE HttpDelete(t)
    BY <2>5, HttpNow, HttpEdits DEF HttpDelete, HttpGo
  <2> QED
    BY <2>1, <2>2, <2>3, <2>4, <2>5
<1>3. /\ httpStream' \in {0, httpStream}
      /\ \A u \in Threads \ {t} : HttpBusy(u) => httpLock' = u /\ UNCHANGED httpStream
  <2>1. CASE HttpLock(t) \/ HttpDelete(t)
    <3>1. httpLock = None
      BY <2>1 DEF HttpLock, HttpDelete
    <3>2. \A u \in Threads : ~HttpBusy(u)
      BY <3>1, HttpNow, ThreadsAssumption
    <3> QED
      BY <2>1, <3>2 DEF HttpLock, HttpDelete
  <2>2. CASE HttpPost(t) \/ HttpReuse(t) \/ HttpClose(t)
    BY <2>2, HttpNow DEF HttpPost, HttpReuse, HttpClose
  <2> QED
    BY <2>1, <2>2
<1>4. httpStream' # 0 /\ (\A u \in Threads \ {t} : ~HttpAt(u, "read")) => httpWire'[httpStream'] = <<>>
  BY <1>1, <1>3 DEF HttpInv, HttpWireClear
<1>5. httpStream' \in Nat /\ httpStream' <= httpStreams' /\ httpStreams' \in Nat
  BY <1>1, <1>3, HttpNow
<1> QED
  BY <1>1, <1>2, <1>3, <1>4, <1>5, HttpNow, HttpStep

\* Nobody is given the response to another's request, nor the late one to a
\* request that was given up, whoever shares the connection and however often
\* it breaks (mcp_client_ffi.rs:374).
THEOREM ResponsesAreOnesOwn == HttpInit /\ [][HttpNext]_httpVars => []OwnResponses
<1>1. ASSUME HttpInv, [HttpNext]_httpVars PROVE HttpInv'
  <2>1. CASE UNCHANGED httpVars
    BY <1>1, <2>1 DEF httpVars, HttpInv, HttpShapes, HttpHeld, HttpBusy, HttpWireClear, HttpAt,
       OwnResponses
  <2>2. ASSUME NEW t \in Threads, HttpReadFails(t) PROVE HttpInv'
    BY <1>1, <2>2, HttpFails DEF HttpReadFails, HttpBusy, HttpAt
  <2> QED
    BY <1>1, <2>1, <2>2, HttpWriteKept, HttpReadKept, HttpConnectKept, HttpOtherKept DEF HttpNext
<1>2. HttpInv => OwnResponses
  BY DEF HttpInv
<1> QED
  BY <1>1, <1>2, HttpInvInit, PTL


-----------------------------------------------------------------------------
(* An MCP server's standard output, for every set of threads and every number *)
(* of requests and notifications.                                             *)

MsvPlaces == {"idle", "install", "read", "uninstall", "initialize", "list", "call", "tool",
              "fallback", "reply", "reject", "notify", "reply text", "reply end",
              "note text", "note end", "push"}

Replying == {"reply", "reject", "reply text"}

Ending == {"reply end", "note end"}

Writing == {"reply text", "note text"} \cup Ending

\* What a thread is doing, and for whom.
MsvPlaced(m) ==
    /\ m.for = "stdio" => m.at # "idle"
    /\ m.at \in Replying \cup {"install", "read", "uninstall", "reply end"} => m.for = "stdio"
    /\ m.at = "idle" => m.for = "program"
    /\ m.at \in {"initialize", "list", "call", "tool", "fallback"} => m.for # "program"

\* One thread at a time reads standard input, and while it answers there is a
\* standard output.
StdioServed ==
    /\ msvThread \in [Threads -> [at : MsvPlaces, for : {"program", "stdio", "post"},
                                  id : Nat, note : Nat]]
    /\ \A t \in Threads :
          /\ MsvPlaced(msvThread[t])
          /\ msvThread[t].for = "stdio" /\ msvThread[t].at # "install" => msvWriter
          /\ \A u \in Threads :
                msvThread[t].for = "stdio" /\ msvThread[u].for = "stdio" => t = u

\* A thread has the lock of standard output exactly while it writes a line.
WritersLock ==
    /\ msvLock # None => msvLock \in Threads
    /\ \A t \in Threads : msvThread[t].at \in Writing <=> msvLock = t

\* Until the client is gone, a text without its line end has a thread that is
\* about to write it.
LinesUnderWay ==
    /\ msvOut \in Seq([kind : {"reply", "note", "end"}, n : Nat])
    /\ LinesWhole
    /\ ~msvBroken =>
          (Len(msvOut) % 2 = 1 <=> \E t \in Threads : msvThread[t].at \in Ending)

\* Until the client is gone, what is owed is answered, but for the request that
\* is being answered.
RepliesOwed ==
    /\ msvAsked \in Nat /\ msvOwed \in Seq(Nat)
    /\ \E n \in 0..Len(msvOwed) : FirstAnswered(n)
    /\ ~msvBroken =>
          /\ \A t \in Threads : msvThread[t].at \in Replying =>
                /\ Len(msvOwed) > 0 /\ msvOwed[Len(msvOwed)] = msvThread[t].id
                /\ \A n \in Nat : n + 1 = Len(msvOwed) => FirstAnswered(n)
          /\ (\A t \in Threads : msvThread[t].at \notin Replying) =>
                \A n \in Nat : n = Len(msvOwed) => FirstAnswered(n)

StdioInv == StdioServed /\ WritersLock /\ LinesUnderWay /\ RepliesOwed

LEMMA StdioInitial == MsvInit => StdioInv
<1> SUFFICES ASSUME MsvInit PROVE StdioInv
  OBVIOUS
<1>1. \A t \in Threads : msvThread[t].at = "idle" /\ msvThread[t].for = "program"
  BY DEF MsvInit, MsvIdle
<1>2. StdioServed
  <2>1. \A t \in Threads : MsvPlaced(msvThread[t]) /\ msvThread[t].for = "program"
    BY <1>1 DEF MsvPlaced, Replying
  <2>2. msvThread \in [Threads -> [at : MsvPlaces, for : {"program", "stdio", "post"},
                                   id : Nat, note : Nat]]
    BY DEF MsvInit, MsvIdle, MsvPlaces
  <2> QED
    BY <2>1, <2>2 DEF StdioServed
<1>3. WritersLock
  BY <1>1, ThreadsAssumption DEF MsvInit, MsvIdle, WritersLock, Writing, Ending
<1>4. LinesUnderWay
  <2>1. msvOut = <<>> /\ Len(msvOut) = 0 /\ 0 % 2 = 0
    BY DEF MsvInit
  <2>2. \A t \in Threads : msvThread[t].at \notin Ending
    BY <1>1 DEF Ending
  <2> QED
    BY <2>1, <2>2 DEF LinesUnderWay, LinesWhole
<1>5. FirstAnswered(0)
  <2>1. [k \in 1..0 |-> 0] \in [1..0 -> DOMAIN msvOut] /\ DOMAIN msvOut = {}
    BY DEF MsvInit
  <2> QED
    BY <2>1 DEF FirstAnswered
<1>6. RepliesOwed
  <2>1. msvAsked = 0 /\ msvOwed = <<>> /\ Len(msvOwed) = 0 /\ msvOwed \in Seq(Nat)
    BY DEF MsvInit
  <2>2. \A t \in Threads : msvThread[t].at \notin Replying
    BY <1>1 DEF Replying
  <2> QED
    BY <1>5, <2>1, <2>2 DEF RepliesOwed
<1> QED
  BY <1>2, <1>3, <1>4, <1>6 DEF StdioInv

-----------------------------------------------------------------------------
(* What the steps of a thread have in common.                                *)

\* A thread is somewhere else, and the others are where they were.
MsvMoves(t, at, for, id) ==
    /\ msvThread' \in [Threads -> [at : MsvPlaces, for : {"program", "stdio", "post"},
                                   id : Nat, note : Nat]]
    /\ msvThread'[t].at = at /\ msvThread'[t].for = for /\ msvThread'[t].id = id
    /\ \A u \in Threads \ {t} : msvThread'[u] = msvThread[u]

LEMMA ServedKeeps ==
    ASSUME StdioServed, NEW t \in Threads, NEW at, NEW for, NEW id, MsvMoves(t, at, for, id),
           MsvPlaced([at |-> at, for |-> for]),
           for = "stdio" => \/ msvThread[t].for = "stdio"
                            \/ \A u \in Threads : msvThread[u].for # "stdio",
           for = "stdio" /\ at # "install" => msvWriter',
           msvWriter' = msvWriter \/ msvThread[t].for = "stdio"
    PROVE  StdioServed'
<1>1. MsvPlaced(msvThread'[t])
  BY DEF MsvMoves, MsvPlaced
<1>2. \A u \in Threads \ {t} : MsvPlaced(msvThread'[u])
  BY DEF MsvMoves, StdioServed
<1>3. ASSUME NEW u \in Threads, NEW v \in Threads,
             msvThread'[u].for = "stdio", msvThread'[v].for = "stdio"
      PROVE  u = v
  BY <1>3 DEF MsvMoves, StdioServed
<1>4. ASSUME NEW u \in Threads, msvThread'[u].for = "stdio", msvThread'[u].at # "install"
      PROVE  msvWriter'
  BY <1>4 DEF MsvMoves, StdioServed
<1> QED
  BY <1>1, <1>2, <1>3, <1>4 DEF StdioServed, MsvMoves

LEMMA LockStays ==
    ASSUME WritersLock, NEW t \in Threads, NEW at, NEW for, NEW id, MsvMoves(t, at, for, id),
           msvThread[t].at \notin Writing, at \notin Writing, UNCHANGED msvLock
    PROVE  WritersLock'
  BY DEF WritersLock, MsvMoves

LEMMA LinesStay ==
    ASSUME LinesUnderWay, NEW t \in Threads, NEW at, NEW for, NEW id, MsvMoves(t, at, for, id),
           msvThread[t].at \notin Ending, at \notin Ending, UNCHANGED <<msvOut, msvBroken>>
    PROVE  LinesUnderWay'
<1>1. (\E u \in Threads : msvThread'[u].at \in Ending)
          <=> \E u \in Threads : msvThread[u].at \in Ending
  BY DEF MsvMoves
<1> QED
  BY <1>1 DEF LinesUnderWay, LinesWhole

LEMMA RepliesStay ==
    ASSUME RepliesOwed, NEW t \in Threads, NEW at, NEW for, NEW id, MsvMoves(t, at, for, id),
           at \in Replying <=> msvThread[t].at \in Replying,
           id = msvThread[t].id \/ at \notin Replying,
           msvAsked' \in Nat, UNCHANGED <<msvOut, msvOwed, msvBroken>>
    PROVE  RepliesOwed'
<1>1. \A n : FirstAnswered(n) <=> FirstAnswered(n)'
  BY DEF FirstAnswered
<1>2. \A u \in Threads :
          /\ msvThread'[u].at \in Replying <=> msvThread[u].at \in Replying
          /\ msvThread'[u].at \in Replying => msvThread'[u].id = msvThread[u].id
  BY DEF MsvMoves
<1>3. \E n \in 0..Len(msvOwed') : FirstAnswered(n)'
  BY <1>1 DEF RepliesOwed
<1>4. ASSUME ~msvBroken', NEW u \in Threads, msvThread'[u].at \in Replying
      PROVE  /\ Len(msvOwed') > 0 /\ msvOwed'[Len(msvOwed')] = msvThread'[u].id
             /\ \A n \in Nat : n + 1 = Len(msvOwed') => FirstAnswered(n)'
  BY <1>1, <1>2, <1>4 DEF RepliesOwed
<1>5. ASSUME ~msvBroken', \A u \in Threads : msvThread'[u].at \notin Replying
      PROVE  \A n \in Nat : n = Len(msvOwed') => FirstAnswered(n)'
  BY <1>1, <1>2, <1>5 DEF RepliesOwed
<1>6. msvOwed' \in Seq(Nat) /\ msvAsked' \in Nat
  BY DEF RepliesOwed
<1> QED
  BY <1>3, <1>4, <1>5, <1>6 DEF RepliesOwed

\* A step that neither writes nor owes an answer.
Aside == MsvPlaces \ (Writing \cup Replying)

LEMMA QuietKeeps ==
    ASSUME StdioInv, NEW t \in Threads, NEW at, NEW for, NEW id, MsvMoves(t, at, for, id),
           MsvPlaced([at |-> at, for |-> for]),
           for = "stdio" => \/ msvThread[t].for = "stdio"
                            \/ \A u \in Threads : msvThread[u].for # "stdio",
           for = "stdio" /\ at # "install" => msvWriter',
           msvWriter' = msvWriter \/ msvThread[t].for = "stdio",
           msvThread[t].at \in Aside, at \in Aside,
           msvAsked' \in Nat, UNCHANGED <<msvLock, msvOut, msvOwed, msvBroken>>
    PROVE  StdioInv'
<1>1. /\ msvThread[t].at \notin Writing /\ at \notin Writing
      /\ msvThread[t].at \notin Ending /\ at \notin Ending
      /\ msvThread[t].at \notin Replying /\ at \notin Replying
  BY DEF Aside, Writing
<1>2. StdioServed'
  BY ServedKeeps DEF StdioInv
<1>3. WritersLock' /\ LinesUnderWay'
  BY <1>1, LockStays, LinesStay DEF StdioInv
<1>4. RepliesOwed'
  BY <1>1, RepliesStay DEF StdioInv
<1> QED
  BY <1>2, <1>3, <1>4 DEF StdioInv

\* The answer to a request is owed: the only thread that reads standard input is
\* about to give it.
LEMMA OwingKeeps ==
    ASSUME StdioInv, NEW t \in Threads, NEW at \in {"reply", "reject"}, NEW id \in Nat,
           MsvMoves(t, at, "stdio", id), msvThread[t].for = "stdio",
           msvThread[t].at \in Aside \ {"install"},
           msvOwed' = Append(msvOwed, id),
           msvAsked' \in Nat, UNCHANGED <<msvWriter, msvLock, msvOut, msvBroken>>
    PROVE  StdioInv'
<1>1. /\ msvThread[t].at \notin Writing /\ at \notin Writing
      /\ msvThread[t].at \notin Ending /\ at \notin Ending
      /\ msvThread[t].at \notin Replying
  BY DEF Aside, Writing, Ending
<1>2. StdioServed'
  <2>1. MsvPlaced([at |-> at, for |-> "stdio"]) /\ msvWriter
    BY DEF MsvPlaced, Replying, StdioInv, StdioServed
  <2> QED
    BY <2>1, ServedKeeps DEF StdioInv
<1>3. WritersLock' /\ LinesUnderWay'
  BY <1>1, LockStays, LinesStay DEF StdioInv
<1>4. \A u \in Threads : msvThread[u].at \notin Replying
  BY <1>1 DEF StdioInv, StdioServed, MsvPlaced
<1>5. /\ msvOwed \in Seq(Nat) /\ msvOwed' \in Seq(Nat) /\ Len(msvOwed') = Len(msvOwed) + 1
      /\ msvOwed'[Len(msvOwed')] = id /\ Len(msvOwed) \in Nat
      /\ \A i \in 1..Len(msvOwed) : msvOwed'[i] = msvOwed[i]
  BY DEF StdioInv, RepliesOwed
<1>6. \A n \in 0..Len(msvOwed) : FirstAnswered(n) => FirstAnswered(n)'
  <2>1. \A n \in 0..Len(msvOwed) : \A i \in 1..n : i \in 1..Len(msvOwed)
    BY <1>5
  <2>2. ASSUME NEW n \in 0..Len(msvOwed), FirstAnswered(n)
        PROVE  FirstAnswered(n)'
    <3>1. PICK at2 \in [1..n -> DOMAIN msvOut] :
              /\ \A i, j \in 1..n : i < j => at2[i] < at2[j]
              /\ \A k \in DOMAIN msvOut :
                    msvOut[k].kind = "reply" <=> \E i \in 1..n : at2[i] = k
              /\ \A i \in 1..n : msvOut[at2[i]].n = msvOwed[i]
      BY <2>2 DEF FirstAnswered
    <3>2. \A i \in 1..n : msvOut'[at2[i]].n = msvOwed'[i]
      BY <1>5, <2>1, <3>1
    <3> QED
      BY <3>1, <3>2 DEF FirstAnswered
  <2> QED
    BY <2>2
<1>7. \E n \in 0..Len(msvOwed') : FirstAnswered(n)'
  <2>1. 0..Len(msvOwed) \subseteq 0..Len(msvOwed')
    BY <1>5
  <2> QED
    BY <1>6, <2>1 DEF StdioInv, RepliesOwed
<1>8. ASSUME ~msvBroken', NEW u \in Threads, msvThread'[u].at \in Replying
      PROVE  /\ Len(msvOwed') > 0 /\ msvOwed'[Len(msvOwed')] = msvThread'[u].id
             /\ \A n \in Nat : n + 1 = Len(msvOwed') => FirstAnswered(n)'
  <2>1. u = t /\ msvThread'[u].id = id
    BY <1>4, <1>8 DEF MsvMoves
  <2>2. \A n \in Nat : n = Len(msvOwed) => FirstAnswered(n)
    BY <1>4, <1>8 DEF StdioInv, RepliesOwed
  <2>3. \A n \in Nat : n + 1 = Len(msvOwed') => n = Len(msvOwed) /\ n \in 0..Len(msvOwed)
    BY <1>5
  <2> QED
    BY <1>5, <1>6, <2>1, <2>2, <2>3
<1>9. msvThread'[t].at \in Replying
  BY DEF MsvMoves, Replying
<1>10. RepliesOwed'
  BY <1>5, <1>7, <1>8, <1>9 DEF RepliesOwed
<1> QED
  BY <1>2, <1>3, <1>10 DEF StdioInv

-----------------------------------------------------------------------------
(* What is written.                                                          *)

MsvLines == [kind : {"reply", "note", "end"}, n : Nat]

\* A line more is no answer, or the next.
LEMMA OtherLineTells ==
    ASSUME NEW line \in MsvLines, line.kind # "reply", msvOut \in Seq(MsvLines),
           msvOut' = Append(msvOut, line), UNCHANGED msvOwed, NEW n \in Nat, FirstAnswered(n)
    PROVE  FirstAnswered(n)'
<1>1. PICK at \in [1..n -> DOMAIN msvOut] :
          /\ \A i, j \in 1..n : i < j => at[i] < at[j]
          /\ \A k \in DOMAIN msvOut : msvOut[k].kind = "reply" <=> \E i \in 1..n : at[i] = k
          /\ \A i \in 1..n : msvOut[at[i]].n = msvOwed[i]
  BY DEF FirstAnswered
<1>2. /\ Len(msvOut) \in Nat /\ DOMAIN msvOut = 1..Len(msvOut)
      /\ DOMAIN msvOut' = DOMAIN msvOut \cup {Len(msvOut) + 1}
      /\ msvOut'[Len(msvOut) + 1] = line /\ Len(msvOut) + 1 \notin DOMAIN msvOut
      /\ \A k \in DOMAIN msvOut : msvOut'[k] = msvOut[k]
  OBVIOUS
<1>3. at \in [1..n -> DOMAIN msvOut']
  BY <1>2
<1>4. \A i \in 1..n : at[i] \in DOMAIN msvOut
  OBVIOUS
<1>5. \A k \in DOMAIN msvOut' : msvOut'[k].kind = "reply" <=> \E i \in 1..n : at[i] = k
  BY <1>1, <1>2, <1>4
<1>6. \A i \in 1..n : msvOut'[at[i]].n = msvOwed'[i]
  BY <1>1, <1>2, <1>4
<1> QED
  BY <1>1, <1>3, <1>5, <1>6 DEF FirstAnswered

LEMMA ReplyTells ==
    ASSUME NEW line \in MsvLines, line.kind = "reply", msvOut \in Seq(MsvLines),
           msvOut' = Append(msvOut, line), UNCHANGED msvOwed, NEW n \in Nat, FirstAnswered(n),
           line.n = msvOwed[n + 1]
    PROVE  FirstAnswered(n + 1)'
<1>1. PICK at \in [1..n -> DOMAIN msvOut] :
          /\ \A i, j \in 1..n : i < j => at[i] < at[j]
          /\ \A k \in DOMAIN msvOut : msvOut[k].kind = "reply" <=> \E i \in 1..n : at[i] = k
          /\ \A i \in 1..n : msvOut[at[i]].n = msvOwed[i]
  BY DEF FirstAnswered
<1>2. /\ Len(msvOut) \in Nat /\ DOMAIN msvOut = 1..Len(msvOut)
      /\ DOMAIN msvOut' = DOMAIN msvOut \cup {Len(msvOut) + 1}
      /\ msvOut'[Len(msvOut) + 1] = line /\ Len(msvOut) + 1 \notin DOMAIN msvOut
      /\ \A k \in DOMAIN msvOut : msvOut'[k] = msvOut[k] /\ k \in Nat /\ k < Len(msvOut) + 1
  OBVIOUS
<1>3. PICK more \in [1..(n + 1) -> DOMAIN msvOut'] :
          more[n + 1] = Len(msvOut) + 1 /\ \A i \in 1..n : more[i] = at[i]
  <2> DEFINE f == [i \in 1..(n + 1) |-> IF i = n + 1 THEN Len(msvOut) + 1 ELSE at[i]]
  <2>1. f \in [1..(n + 1) -> DOMAIN msvOut']
    BY <1>2
  <2>2. f[n + 1] = Len(msvOut) + 1 /\ \A i \in 1..n : f[i] = at[i]
    OBVIOUS
  <2> HIDE DEF f
  <2> QED
    BY <2>1, <2>2
<1>4. /\ \A i \in 1..(n + 1) : i = n + 1 \/ i \in 1..n
      /\ \A i \in 1..n : i \in 1..(n + 1) /\ i < n + 1 /\ ~(n + 1 < i)
      /\ n + 1 \in 1..(n + 1)
      /\ \A i \in 1..n : at[i] \in DOMAIN msvOut
  OBVIOUS
<1>5. \A i, j \in 1..(n + 1) : i < j => more[i] < more[j]
  <2> SUFFICES ASSUME NEW i \in 1..(n + 1), NEW j \in 1..(n + 1), i < j
               PROVE  more[i] < more[j]
    OBVIOUS
  <2>1. i \in 1..n
    OBVIOUS
  <2>2. CASE j = n + 1
    BY <1>2, <1>3, <1>4, <2>1, <2>2
  <2>3. CASE j \in 1..n
    BY <1>1, <1>3, <2>1, <2>3
  <2> QED
    BY <1>4, <2>2, <2>3
<1>6. \A k \in DOMAIN msvOut' :
          msvOut'[k].kind = "reply" <=> \E i \in 1..(n + 1) : more[i] = k
  <2> SUFFICES ASSUME NEW k \in DOMAIN msvOut'
               PROVE  msvOut'[k].kind = "reply" <=> \E i \in 1..(n + 1) : more[i] = k
    OBVIOUS
  <2>1. CASE k = Len(msvOut) + 1
    BY <1>2, <1>3, <1>4, <2>1
  <2>2. CASE k \in DOMAIN msvOut
    <3>1. msvOut'[k].kind = "reply" <=> \E i \in 1..n : at[i] = k
      BY <1>1, <1>2, <2>2
    <3>2. (\E i \in 1..n : at[i] = k) <=> \E i \in 1..(n + 1) : more[i] = k
      BY <1>2, <1>3, <1>4, <2>2
    <3> QED
      BY <3>1, <3>2
  <2> QED
    BY <1>2, <2>1, <2>2
<1>7. \A i \in 1..(n + 1) : msvOut'[more[i]].n = msvOwed'[i]
  BY <1>1, <1>2, <1>3, <1>4, SMTT(30)
<1> QED
  BY <1>3, <1>5, <1>6, <1>7 DEF FirstAnswered

\* With the lock: what a line is made of, and that nobody else is writing.
LEMMA WriterAlone ==
    ASSUME StdioInv, NEW t \in Threads, msvThread[t].at \in Writing
    PROVE  msvLock = t /\ \A u \in Threads \ {t} : msvThread[u].at \notin Writing
  BY DEF StdioInv, WritersLock

\* A text goes where a line begins.
LEMMA TextBegins ==
    ASSUME StdioInv, NEW t \in Threads, NEW at \in Ending, NEW for, NEW id,
           NEW line \in MsvLines, MsvMoves(t, at, for, id),
           msvThread[t].at \in Writing \ Ending, line.kind # "end", ~msvBroken,
           msvOut' = Append(msvOut, line)
    PROVE  LinesUnderWay'
<1>1. \A u \in Threads : msvThread[u].at \notin Ending
  BY WriterAlone DEF Writing
<1>2. /\ msvOut \in Seq(MsvLines) /\ Len(msvOut) \in Nat /\ Len(msvOut) % 2 # 1
      /\ \A i \in 1..Len(msvOut) :
            IF i % 2 = 0 THEN msvOut[i] = EndOfLine ELSE msvOut[i] # EndOfLine
  BY <1>1 DEF StdioInv, LinesUnderWay, LinesWhole, MsvLines
<1>3. /\ msvOut' \in Seq(MsvLines) /\ Len(msvOut') = Len(msvOut) + 1
      /\ msvOut'[Len(msvOut) + 1] = line /\ line # EndOfLine
      /\ \A i \in 1..Len(msvOut) : msvOut'[i] = msvOut[i]
      /\ \A i \in 1..(Len(msvOut) + 1) : i = Len(msvOut) + 1 \/ i \in 1..Len(msvOut)
      /\ (Len(msvOut) + 1) % 2 = 1
  BY <1>2 DEF EndOfLine, MsvLine
<1>4. LinesWhole'
  BY <1>2, <1>3 DEF LinesWhole
<1>5. \E u \in Threads : msvThread'[u].at \in Ending
  BY DEF MsvMoves
<1> QED
  BY <1>3, <1>4, <1>5 DEF LinesUnderWay, MsvLines

\* A line's end goes after a text.
LEMMA LineEnds ==
    ASSUME StdioInv, NEW t \in Threads, NEW at, NEW for, NEW id,
           MsvMoves(t, at, for, id), at \notin Ending,
           msvThread[t].at \in Ending, ~msvBroken, msvOut' = Append(msvOut, EndOfLine)
    PROVE  LinesUnderWay'
<1>1. \A u \in Threads : msvThread'[u].at \notin Ending
  BY WriterAlone DEF Writing, MsvMoves
<1>2. /\ msvOut \in Seq(MsvLines) /\ Len(msvOut) \in Nat /\ Len(msvOut) % 2 = 1
      /\ \A i \in 1..Len(msvOut) :
            IF i % 2 = 0 THEN msvOut[i] = EndOfLine ELSE msvOut[i] # EndOfLine
  BY DEF StdioInv, LinesUnderWay, LinesWhole, MsvLines
<1>3. /\ msvOut' \in Seq(MsvLines) /\ Len(msvOut') = Len(msvOut) + 1
      /\ msvOut'[Len(msvOut) + 1] = EndOfLine
      /\ \A i \in 1..Len(msvOut) : msvOut'[i] = msvOut[i]
      /\ \A i \in 1..(Len(msvOut) + 1) : i = Len(msvOut) + 1 \/ i \in 1..Len(msvOut)
      /\ (Len(msvOut) + 1) % 2 = 0
  <2>1. EndOfLine \in MsvLines
    BY DEF EndOfLine, MsvLine, MsvLines
  <2>2. /\ msvOut' \in Seq(MsvLines) /\ Len(msvOut') = Len(msvOut) + 1
        /\ msvOut'[Len(msvOut) + 1] = EndOfLine
        /\ \A i \in 1..Len(msvOut) : msvOut'[i] = msvOut[i]
    BY <1>2, <2>1
  <2>3. (Len(msvOut) + 1) % 2 = 0
    BY <1>2
  <2>4. \A i \in 1..(Len(msvOut) + 1) : i = Len(msvOut) + 1 \/ i \in 1..Len(msvOut)
    BY <1>2
  <2> QED
    BY <2>2, <2>3, <2>4
<1>4. LinesWhole'
  BY <1>2, <1>3 DEF LinesWhole
<1> QED
  BY <1>1, <1>3, <1>4 DEF LinesUnderWay, MsvLines

-----------------------------------------------------------------------------
(* The steps with the lock of standard output.                               *)

LEMMA LockChanges ==
    ASSUME StdioInv, NEW t \in Threads, NEW at, NEW for, NEW id, MsvMoves(t, at, for, id),
           msvThread[t].at \in Writing \/ msvLock = None,
           msvLock' = IF at \in Writing THEN t ELSE None
    PROVE  WritersLock'
<1>1. \A u \in Threads \ {t} : msvThread'[u].at \notin Writing
  BY WriterAlone, ThreadsAssumption DEF MsvMoves, StdioInv, WritersLock
<1>2. msvThread'[t].at = at
  BY DEF MsvMoves
<1> QED
  BY <1>1, <1>2, ThreadsAssumption DEF WritersLock

\* Where a thread goes on, when it has one field of its own to change.
LEMMA MsvGone ==
    ASSUME StdioServed, NEW t \in Threads, NEW p \in MsvPlaces, MsvGo(t, p)
    PROVE  MsvMoves(t, p, msvThread[t].for, msvThread[t].id)
  BY DEF StdioServed, MsvGo, MsvMoves

LEMMA TakesWriterStep ==
    ASSUME StdioInv, NEW t \in Threads, MsvTakesWriter(t)
    PROVE  StdioInv'
<1>1. /\ msvThread[t].at \in {"reply", "reject", "notify"} /\ msvLock = None
      /\ UNCHANGED <<msvWriter, msvBroken, msvOut, msvAsked, msvOwed>>
      /\ \/ /\ msvWriter /\ msvLock' = t
            /\ MsvGo(t, IF msvThread[t].at = "notify" THEN "note text" ELSE "reply text")
         \/ /\ ~msvWriter /\ msvLock' = None
            /\ MsvGo(t, IF msvThread[t].at = "notify" THEN "push" ELSE "read")
  BY DEF MsvTakesWriter, MsvAt
<1>2. msvAsked' \in Nat /\ MsvPlaced(msvThread[t]) /\ StdioServed
  BY <1>1 DEF StdioInv, RepliesOwed, StdioServed
<1>3. msvThread[t].at # "notify" => msvThread[t].for = "stdio" /\ msvWriter
  BY <1>1, <1>2 DEF MsvPlaced, Replying, StdioServed
<1>4. CASE msvWriter
  <2>1. PICK p \in {"note text", "reply text"} :
            MsvGo(t, p) /\ (p = "note text" <=> msvThread[t].at = "notify")
    BY <1>1, <1>4
  <2>2. MsvMoves(t, p, msvThread[t].for, msvThread[t].id)
    BY <1>2, <2>1, MsvGone DEF MsvPlaces
  <2>3. MsvPlaced([at |-> p, for |-> msvThread[t].for])
    BY <1>3, <2>1 DEF MsvPlaced, Replying
  <2>4. StdioServed'
    BY <1>1, <1>2, <1>4, <2>2, <2>3, ServedKeeps
  <2>5. WritersLock'
    BY <1>1, <1>4, <2>2, LockChanges DEF Writing
  <2>6. LinesUnderWay'
    BY <1>1, <2>2, LinesStay DEF StdioInv, Ending
  <2>7. p \in Replying <=> msvThread[t].at \in Replying
    BY <1>1, <2>1 DEF Replying
  <2>8. RepliesOwed'
    BY <1>1, <1>2, <2>2, <2>7, RepliesStay DEF StdioInv
  <2> QED
    BY <2>4, <2>5, <2>6, <2>8 DEF StdioInv
<1>5. CASE ~msvWriter
  <2>1. msvThread[t].at = "notify" /\ MsvGo(t, "push") /\ UNCHANGED msvLock
    BY <1>1, <1>3, <1>5
  <2>2. MsvMoves(t, "push", msvThread[t].for, msvThread[t].id)
    BY <1>2, <2>1, MsvGone DEF MsvPlaces
  <2>3. "push" \in Aside /\ msvThread[t].at \in Aside
    BY <2>1 DEF Aside, MsvPlaces, Writing, Ending, Replying
  <2>4. MsvPlaced([at |-> "push", for |-> msvThread[t].for])
    BY DEF MsvPlaced, Replying
  <2>5. msvThread[t].for # "stdio"
    BY <1>5, <2>1 DEF StdioInv, StdioServed
  <2> QED
    BY <1>1, <1>2, <2>1, <2>2, <2>3, <2>4, <2>5, QuietKeeps
<1> QED
  BY <1>4, <1>5

LEMMA TextStep ==
    ASSUME StdioInv, NEW t \in Threads, MsvText(t)
    PROVE  StdioInv'
<1>1. ~msvBroken /\ UNCHANGED <<msvWriter, msvLock, msvBroken, msvAsked, msvOwed>>
  BY DEF MsvText
<1>2. PICK p \in {"reply", "note"}, n \in Nat, at \in Ending :
          /\ p = "reply" => /\ msvThread[t].at = "reply text" /\ at = "reply end"
                            /\ n = msvThread[t].id
          /\ p = "note" => msvThread[t].at = "note text" /\ at = "note end"
          /\ msvOut' = Append(msvOut, MsvLine(p, n)) /\ MsvGo(t, at)
  <2>1. msvThread[t].id \in Nat /\ msvThread[t].note \in Nat
    BY DEF StdioInv, StdioServed
  <2> QED
    BY <2>1 DEF MsvText, MsvAt, Ending
<1>3. /\ MsvLine(p, n) \in MsvLines /\ MsvLine(p, n).kind = p /\ MsvLine(p, n).n = n
  BY DEF MsvLine, MsvLines
<1>4. MsvMoves(t, at, msvThread[t].for, msvThread[t].id)
  BY <1>2, MsvGone DEF StdioInv, MsvPlaces, Ending
<1>5. msvThread[t].at \in Writing \ Ending
  BY <1>2 DEF Writing, Ending
<1>6. StdioServed'
  <2>1. MsvPlaced(msvThread[t])
    BY DEF StdioInv, StdioServed
  <2>2. MsvPlaced([at |-> at, for |-> msvThread[t].for])
    BY <1>2, <2>1 DEF MsvPlaced, Replying, Ending
  <2>3. msvThread[t].for = "stdio" => msvWriter'
    BY <1>1, <1>2 DEF StdioInv, StdioServed
  <2> QED
    BY <1>1, <1>4, <2>2, <2>3, ServedKeeps DEF StdioInv
<1>7. WritersLock'
  BY <1>1, <1>4, <1>5, WriterAlone, LockChanges DEF Writing
<1>8. LinesUnderWay'
  BY <1>1, <1>2, <1>3, <1>4, <1>5, TextBegins
<1>9. /\ msvOut \in Seq(MsvLines) /\ msvOwed \in Seq(Nat) /\ Len(msvOwed) \in Nat
      /\ msvAsked' \in Nat
  BY <1>1 DEF StdioInv, LinesUnderWay, RepliesOwed, MsvLines
<1>10. CASE p = "note"
  <2>1. \A k \in Nat : FirstAnswered(k) => FirstAnswered(k)'
    BY <1>1, <1>2, <1>3, <1>9, <1>10, OtherLineTells
  <2>2. \A u \in Threads :
            /\ msvThread'[u].at \in Replying <=> msvThread[u].at \in Replying
            /\ msvThread'[u].at \in Replying => msvThread'[u].id = msvThread[u].id
    BY <1>2, <1>4, <1>10 DEF MsvMoves, Replying
  <2>3. \E k \in 0..Len(msvOwed') : FirstAnswered(k)'
    BY <1>1, <1>9, <2>1 DEF StdioInv, RepliesOwed
  <2>4. ASSUME NEW u \in Threads, msvThread'[u].at \in Replying
        PROVE  /\ Len(msvOwed') > 0 /\ msvOwed'[Len(msvOwed')] = msvThread'[u].id
               /\ \A k \in Nat : k + 1 = Len(msvOwed') => FirstAnswered(k)'
    BY <1>1, <2>1, <2>2, <2>4 DEF StdioInv, RepliesOwed
  <2>5. ASSUME \A u \in Threads : msvThread'[u].at \notin Replying
        PROVE  \A k \in Nat : k = Len(msvOwed') => FirstAnswered(k)'
    BY <1>1, <2>1, <2>2, <2>5 DEF StdioInv, RepliesOwed
  <2>6. RepliesOwed'
    BY <1>1, <1>9, <2>3, <2>4, <2>5 DEF RepliesOwed
  <2> QED
    BY <1>6, <1>7, <1>8, <2>6 DEF StdioInv
<1>11. CASE p = "reply"
  <2>1. msvThread[t].at \in Replying /\ msvThread[t].at = "reply text" /\ at = "reply end"
    BY <1>2, <1>11 DEF Replying
  <2>2. /\ Len(msvOwed) > 0 /\ msvOwed[Len(msvOwed)] = n
        /\ \A k \in Nat : k + 1 = Len(msvOwed) => FirstAnswered(k)
    BY <1>1, <1>2, <1>11, <2>1 DEF StdioInv, RepliesOwed
  <2>3. PICK k \in Nat : k + 1 = Len(msvOwed)
    <3>1. Len(msvOwed) - 1 \in Nat /\ (Len(msvOwed) - 1) + 1 = Len(msvOwed)
      BY <1>9, <2>2
    <3> QED
      BY <3>1
  <2>4. FirstAnswered(k) /\ n = msvOwed[k + 1]
    BY <2>2, <2>3
  <2>5. FirstAnswered(k + 1)'
    BY <1>1, <1>2, <1>3, <1>9, <1>11, <2>4, ReplyTells
  <2>6. \A u \in Threads : msvThread'[u].at \notin Replying
    <3>1. \A u \in Threads \ {t} : msvThread[u].at \notin Replying
      BY <2>1 DEF StdioInv, StdioServed, MsvPlaced
    <3> QED
      BY <1>4, <2>1, <3>1 DEF MsvMoves, Replying
  <2>7. k + 1 \in 0..Len(msvOwed') /\ Len(msvOwed') = k + 1
    BY <1>1, <2>3
  <2>8. \A m \in Nat : m = Len(msvOwed') => FirstAnswered(m)'
    BY <2>5, <2>7
  <2>9. RepliesOwed'
    BY <1>1, <1>9, <2>5, <2>6, <2>7, <2>8 DEF RepliesOwed
  <2> QED
    BY <1>6, <1>7, <1>8, <2>9 DEF StdioInv
<1> QED
  BY <1>10, <1>11

LEMMA LineEndStep ==
    ASSUME StdioInv, NEW t \in Threads, MsvLineEnd(t)
    PROVE  StdioInv'
<1>1. /\ msvThread[t].at \in Ending /\ ~msvBroken /\ msvOut' = Append(msvOut, EndOfLine)
      /\ msvLock' = None /\ UNCHANGED <<msvWriter, msvBroken, msvAsked, msvOwed>>
  BY DEF MsvLineEnd, MsvAt, Ending
<1>2. PICK p \in {"push", "read"} :
          MsvGo(t, p) /\ (p = "read" => msvThread[t].at = "reply end")
  BY DEF MsvLineEnd, MsvAt
<1>3. MsvMoves(t, p, msvThread[t].for, msvThread[t].id)
  BY <1>2, MsvGone DEF StdioInv, MsvPlaces
<1>4. StdioServed'
  <2>1. MsvPlaced(msvThread[t])
    BY DEF StdioInv, StdioServed
  <2>2. MsvPlaced([at |-> p, for |-> msvThread[t].for])
    BY <1>2, <2>1 DEF MsvPlaced, Replying
  <2>3. msvThread[t].for = "stdio" => msvWriter'
    BY <1>1 DEF StdioInv, StdioServed, Ending
  <2> QED
    BY <1>1, <1>3, <2>2, <2>3, ServedKeeps DEF StdioInv
<1>5. WritersLock'
  <2>1. p \notin Writing /\ msvThread[t].at \in Writing
    BY <1>1 DEF Writing, Ending
  <2> QED
    BY <1>1, <1>3, <2>1, LockChanges
<1>6. LinesUnderWay'
  <2>1. p \notin Ending
    BY DEF Ending
  <2> QED
    BY <1>1, <1>3, <2>1, LineEnds
<1>7. /\ msvOut \in Seq(MsvLines) /\ msvOwed \in Seq(Nat) /\ Len(msvOwed) \in Nat
      /\ msvAsked' \in Nat
  BY <1>1 DEF StdioInv, LinesUnderWay, RepliesOwed, MsvLines
<1>8. EndOfLine \in MsvLines /\ EndOfLine.kind # "reply"
  BY DEF EndOfLine, MsvLine, MsvLines
<1>9. \A k \in Nat : FirstAnswered(k) => FirstAnswered(k)'
  BY <1>1, <1>7, <1>8, OtherLineTells
<1>10. \A u \in Threads :
          /\ msvThread'[u].at \in Replying <=> msvThread[u].at \in Replying
          /\ msvThread'[u].at \in Replying => msvThread'[u].id = msvThread[u].id
  BY <1>1, <1>3 DEF MsvMoves, Replying, Ending
<1>11. \E k \in 0..Len(msvOwed') : FirstAnswered(k)'
  BY <1>1, <1>7, <1>9 DEF StdioInv, RepliesOwed
<1>12. ASSUME NEW u \in Threads, msvThread'[u].at \in Replying
       PROVE  /\ Len(msvOwed') > 0 /\ msvOwed'[Len(msvOwed')] = msvThread'[u].id
              /\ \A k \in Nat : k + 1 = Len(msvOwed') => FirstAnswered(k)'
  BY <1>1, <1>9, <1>10, <1>12 DEF StdioInv, RepliesOwed
<1>13. ASSUME \A u \in Threads : msvThread'[u].at \notin Replying
       PROVE  \A k \in Nat : k = Len(msvOwed') => FirstAnswered(k)'
  BY <1>1, <1>9, <1>10, <1>13 DEF StdioInv, RepliesOwed
<1>14. RepliesOwed'
  BY <1>1, <1>7, <1>11, <1>12, <1>13 DEF RepliesOwed
<1> QED
  BY <1>4, <1>5, <1>6, <1>14 DEF StdioInv

\* Once the client is gone, nothing is promised of an answer under way.
LEMMA BrokenKeeps ==
    ASSUME StdioInv, msvBroken', StdioServed', WritersLock',
           UNCHANGED <<msvOut, msvAsked, msvOwed>>
    PROVE  StdioInv'
<1>1. LinesUnderWay'
  BY DEF StdioInv, LinesUnderWay, LinesWhole
<1>2. RepliesOwed'
  <2>1. \A n : FirstAnswered(n) <=> FirstAnswered(n)'
    BY DEF FirstAnswered
  <2> QED
    BY <2>1 DEF StdioInv, RepliesOwed
<1> QED
  BY <1>1, <1>2 DEF StdioInv

LEMMA WriteFailsStep ==
    ASSUME StdioInv, NEW t \in Threads, MsvWriteFails(t)
    PROVE  StdioInv'
<1>1. /\ msvThread[t].at \in Writing /\ msvBroken /\ msvLock' = None
      /\ UNCHANGED <<msvWriter, msvBroken, msvOut, msvAsked, msvOwed>>
  BY DEF MsvWriteFails, Writing, Ending
<1>2. PICK p \in {"push", "uninstall"} :
          MsvGo(t, p) /\ (p = "uninstall" => msvThread[t].at \in {"reply text", "reply end"})
  BY DEF MsvWriteFails
<1>3. MsvMoves(t, p, msvThread[t].for, msvThread[t].id)
  BY <1>2, MsvGone DEF StdioInv, MsvPlaces
<1>4. StdioServed'
  <2>1. MsvPlaced(msvThread[t])
    BY DEF StdioInv, StdioServed
  <2>2. MsvPlaced([at |-> p, for |-> msvThread[t].for])
    BY <1>2, <2>1 DEF MsvPlaced, Replying
  <2>3. msvThread[t].for = "stdio" => msvWriter'
    BY <1>1 DEF StdioInv, StdioServed, Writing, Ending
  <2> QED
    BY <1>1, <1>3, <2>2, <2>3, ServedKeeps DEF StdioInv
<1>5. WritersLock'
  <2>1. p \notin Writing
    BY DEF Writing, Ending
  <2> QED
    BY <1>1, <1>3, <2>1, LockChanges
<1> QED
  BY <1>1, <1>4, <1>5, BrokenKeeps

LEMMA BreaksStep ==
    ASSUME StdioInv, MsvBreaks
    PROVE  StdioInv'
<1>1. /\ msvBroken' /\ UNCHANGED <<msvWriter, msvLock, msvOut, msvAsked, msvOwed, msvThread>>
  BY DEF MsvBreaks
<1>2. StdioServed' /\ WritersLock'
  BY <1>1 DEF StdioInv, StdioServed, WritersLock
<1> QED
  BY <1>1, <1>2, BrokenKeeps

-----------------------------------------------------------------------------
(* The other steps: of a thread between two requests, or with one.           *)

\* A thread that answers a request of standard input owes it.
LEMMA AnswersKeep ==
    ASSUME StdioInv, NEW t \in Threads, MsvAnswers(t),
           msvThread[t].at \in {"initialize", "list", "call", "tool", "fallback"},
           UNCHANGED <<msvWriter, msvLock, msvOut, msvBroken, msvAsked>>
    PROVE  StdioInv'
<1>1. /\ msvThread[t].for \in {"stdio", "post"} /\ msvThread[t].id \in Nat
      /\ msvAsked' \in Nat /\ StdioServed
  BY DEF StdioInv, StdioServed, MsvPlaced, RepliesOwed
<1>2. msvThread[t].at \in Aside \ {"install"}
  BY DEF Aside, MsvPlaces, Writing, Ending, Replying
<1>3. CASE msvThread[t].for = "stdio"
  <2>1. /\ msvThread' = [msvThread EXCEPT ![t] = [msvThread[t] EXCEPT !.at = "reply"]]
        /\ msvOwed' = Append(msvOwed, msvThread[t].id)
    BY <1>3 DEF MsvAnswers
  <2>2. MsvMoves(t, "reply", "stdio", msvThread[t].id)
    BY <1>1, <1>3, <2>1 DEF MsvMoves, StdioServed, MsvPlaces
  <2> QED
    BY <1>1, <1>2, <1>3, <2>1, <2>2, OwingKeeps
<1>4. CASE msvThread[t].for = "post"
  <2>1. msvThread' = [msvThread EXCEPT ![t] = MsvIdle] /\ msvOwed' = msvOwed
    BY <1>4 DEF MsvAnswers
  <2>2. MsvMoves(t, "idle", "program", 0)
    BY <1>1, <2>1 DEF MsvMoves, StdioServed, MsvPlaces, MsvIdle
  <2>3. MsvPlaced([at |-> "idle", for |-> "program"]) /\ "idle" \in Aside
    BY DEF MsvPlaced, Replying, Aside, MsvPlaces, Writing, Ending
  <2> QED
    BY <1>1, <1>2, <2>1, <2>2, <2>3, QuietKeeps
<1> QED
  BY <1>1, <1>3, <1>4

LEMMA RequestStep ==
    ASSUME StdioInv, NEW t \in Threads, MsvDescribes(t) \/ MsvLooks(t) \/ MsvToolReturns(t)
    PROVE  StdioInv'
<1>1. /\ msvThread[t].at \in {"initialize", "list", "call", "tool", "fallback"}
      /\ UNCHANGED <<msvWriter, msvLock, msvOut, msvBroken, msvAsked>>
  BY DEF MsvDescribes, MsvLooks, MsvToolReturns, MsvAt, msvStdout
<1>2. /\ msvThread[t].for \in {"stdio", "post"} /\ msvThread[t].id \in Nat
      /\ msvAsked' \in Nat /\ StdioServed /\ msvThread[t].at \in Aside \ {"install"}
      /\ msvThread[t].for = "stdio" => msvWriter
  BY <1>1 DEF StdioInv, StdioServed, MsvPlaced, RepliesOwed, Aside, MsvPlaces, Writing, Ending,
              Replying
<1>3. CASE MsvAnswers(t)
  BY <1>1, <1>3, AnswersKeep
<1>4. CASE ~MsvAnswers(t)
  <2>1. msvOwed' = msvOwed
    BY <1>4 DEF MsvDescribes, MsvLooks, MsvToolReturns
  <2>2. \/ \E p \in {"tool", "fallback"} : MsvGo(t, p)
        \/ msvThread' = [msvThread EXCEPT ![t] =
               IF msvThread[t].for = "stdio" THEN [msvThread[t] EXCEPT !.at = "read"] ELSE MsvIdle]
    BY <1>4 DEF MsvDescribes, MsvLooks, MsvToolReturns
  <2>3. ASSUME NEW p \in {"tool", "fallback"}, MsvGo(t, p) PROVE StdioInv'
    <3>1. MsvMoves(t, p, msvThread[t].for, msvThread[t].id)
      BY <1>2, <2>3, MsvGone DEF MsvPlaces
    <3>2. MsvPlaced([at |-> p, for |-> msvThread[t].for]) /\ p \in Aside
      BY <1>2 DEF MsvPlaced, Replying, Aside, MsvPlaces, Writing, Ending
    <3> QED
      BY <1>1, <1>2, <2>1, <3>1, <3>2, QuietKeeps
  <2>4. ASSUME msvThread' = [msvThread EXCEPT ![t] =
                  IF msvThread[t].for = "stdio" THEN [msvThread[t] EXCEPT !.at = "read"]
                  ELSE MsvIdle]
        PROVE  StdioInv'
    <3>1. CASE msvThread[t].for = "stdio"
      <4>3. msvThread' = [msvThread EXCEPT ![t] = [msvThread[t] EXCEPT !.at = "read"]]
        BY <2>4, <3>1
      <4>1. MsvMoves(t, "read", "stdio", msvThread[t].id)
        BY <1>2, <4>3, <3>1 DEF MsvMoves, StdioServed, MsvPlaces
      <4>2. MsvPlaced([at |-> "read", for |-> "stdio"]) /\ "read" \in Aside
        BY DEF MsvPlaced, Replying, Aside, MsvPlaces, Writing, Ending
      <4> QED
        BY <1>1, <1>2, <2>1, <3>1, <4>1, <4>2, QuietKeeps
    <3>2. CASE msvThread[t].for = "post"
      <4>1. MsvMoves(t, "idle", "program", 0)
        BY <1>2, <2>4, <3>2 DEF MsvMoves, StdioServed, MsvPlaces, MsvIdle
      <4>2. MsvPlaced([at |-> "idle", for |-> "program"]) /\ "idle" \in Aside
        BY DEF MsvPlaced, Replying, Aside, MsvPlaces, Writing, Ending
      <4> QED
        BY <1>1, <1>2, <2>1, <4>1, <4>2, QuietKeeps
    <3> QED
      BY <1>2, <3>1, <3>2
  <2> QED
    BY <2>2, <2>3, <2>4
<1> QED
  BY <1>3, <1>4

LEMMA ServeStep ==
    ASSUME StdioInv, NEW t \in Threads,
           MsvServes(t) \/ MsvInstalls(t) \/ MsvUninstalls(t) \/ MsvPosts(t)
    PROVE  StdioInv'
<1>1. /\ UNCHANGED <<msvLock, msvOut, msvBroken, msvAsked, msvOwed>>
      /\ msvAsked' \in Nat /\ StdioServed
  BY DEF MsvServes, MsvInstalls, MsvUninstalls, MsvPosts, msvStdout, msvPipe, StdioInv,
         RepliesOwed
<1>2. PICK at \in {"install", "read", "idle", "initialize", "list", "call"},
           for \in {"program", "stdio", "post"}, id \in Nat : MsvMoves(t, at, for, id)
             /\ \/ MsvServes(t) /\ at = "install" /\ for = "stdio"
                \/ MsvInstalls(t) /\ at = "read" /\ for = msvThread[t].for
                \/ MsvUninstalls(t) /\ at = "idle" /\ for = "program"
                \/ MsvPosts(t) /\ at \in {"initialize", "list", "call"} /\ for = "post"
  <2>1. msvThread[t].id \in Nat
    BY DEF StdioInv, StdioServed
  <2>2. CASE MsvServes(t)
    <3>1. MsvMoves(t, "install", "stdio", msvThread[t].id)
      BY <1>1, <2>2 DEF MsvServes, MsvMoves, StdioServed, MsvPlaces
    <3> QED
      BY <2>1, <2>2, <3>1
  <2>3. CASE MsvInstalls(t)
    <3>1. MsvMoves(t, "read", msvThread[t].for, msvThread[t].id)
      BY <1>1, <2>3, MsvGone DEF MsvInstalls, MsvPlaces
    <3>2. msvThread[t].for \in {"program", "stdio", "post"}
      BY <1>1 DEF StdioServed
    <3> QED
      BY <2>1, <2>3, <3>1, <3>2
  <2>4. CASE MsvUninstalls(t)
    <3>1. MsvMoves(t, "idle", "program", 0)
      BY <1>1, <2>4 DEF MsvUninstalls, MsvMoves, StdioServed, MsvPlaces, MsvIdle
    <3> QED
      BY <2>4, <3>1
  <2>5. CASE MsvPosts(t)
    <3>1. PICK p \in {"initialize", "list", "call"} :
              msvThread' = [msvThread EXCEPT ![t] =
                               [msvThread[t] EXCEPT !.at = p, !.for = "post"]]
      BY <2>5 DEF MsvPosts
    <3>2. MsvMoves(t, p, "post", msvThread[t].id)
      BY <1>1, <3>1 DEF MsvMoves, StdioServed, MsvPlaces
    <3> QED
      BY <2>1, <2>5, <3>2
  <2> QED
    BY <2>2, <2>3, <2>4, <2>5
<1>3. /\ msvThread[t].at \in Aside /\ at \in Aside
  BY <1>2 DEF MsvServes, MsvInstalls, MsvUninstalls, MsvPosts, MsvAt, Aside, MsvPlaces, Writing,
              Ending, Replying
<1>4. MsvPlaced(msvThread[t])
  BY <1>1 DEF StdioServed
<1>5. MsvPlaced([at |-> at, for |-> for])
  BY <1>2, <1>4 DEF MsvInstalls, MsvAt, MsvPlaced, Replying
<1>6. for = "stdio" => \/ msvThread[t].for = "stdio"
                       \/ \A u \in Threads : msvThread[u].for # "stdio"
  BY <1>2 DEF MsvServes
<1>7. for = "stdio" /\ at # "install" => msvWriter'
  BY <1>2 DEF MsvInstalls
<1>8. msvWriter' = msvWriter \/ msvThread[t].for = "stdio"
  BY <1>2, <1>4 DEF MsvServes, MsvInstalls, MsvUninstalls, MsvPosts, MsvAt, msvPipe, MsvPlaced,
              Replying
<1> QED
  BY <1>1, <1>2, <1>3, <1>5, <1>6, <1>7, <1>8, QuietKeeps

LEMMA ReadStep ==
    ASSUME StdioInv, NEW t \in Threads, MsvReads(t)
    PROVE  StdioInv'
<1>1. /\ msvThread[t].at = "read" /\ UNCHANGED <<msvWriter, msvLock, msvOut, msvBroken>>
      /\ msvAsked \in Nat /\ StdioServed
  BY DEF MsvReads, MsvAt, msvStdout, StdioInv, RepliesOwed
<1>2. /\ msvThread[t].for = "stdio" /\ msvWriter /\ msvThread[t].id \in Nat
      /\ msvThread[t].at \in Aside \ {"install"}
  BY <1>1 DEF StdioServed, MsvPlaced, Aside, MsvPlaces, Writing, Ending, Replying
<1>3. ASSUME NEW p \in {"initialize", "list", "call", "reject", "read"},
             msvAsked' = msvAsked + 1,
             msvThread' = [msvThread EXCEPT ![t] =
                              [msvThread[t] EXCEPT !.at = p, !.id = msvAsked + 1]],
             msvOwed' = IF p = "reject" THEN Append(msvOwed, msvAsked + 1) ELSE msvOwed
      PROVE  StdioInv'
  <2>4. PICK q \in Nat : q = msvAsked + 1
    BY <1>1
  <2>5. msvThread' = [msvThread EXCEPT ![t] = [msvThread[t] EXCEPT !.at = p, !.id = q]]
    BY <1>3, <2>4
  <2>6. MsvMoves(t, p, "stdio", q)
    BY <1>1, <1>2, <2>5 DEF MsvMoves, StdioServed, MsvPlaces
  <2>1. MsvMoves(t, p, "stdio", msvAsked + 1) /\ msvAsked' \in Nat /\ msvAsked + 1 \in Nat
    BY <1>3, <2>4, <2>6
  <2>2. CASE p = "reject"
    BY <1>1, <1>2, <1>3, <2>1, <2>2, OwingKeeps
  <2>3. CASE p # "reject"
    <3>1. MsvPlaced([at |-> p, for |-> "stdio"]) /\ p \in Aside
      BY <2>3 DEF MsvPlaced, Aside, MsvPlaces, Writing, Ending, Replying
    <3> QED
      BY <1>1, <1>2, <1>3, <2>1, <2>3, <3>1, QuietKeeps
  <2> QED
    BY <2>2, <2>3
<1>4. ASSUME MsvGo(t, "uninstall"), UNCHANGED <<msvAsked, msvOwed>>
      PROVE  StdioInv'
  <2>1. MsvMoves(t, "uninstall", "stdio", msvThread[t].id)
    BY <1>1, <1>2, <1>4, MsvGone DEF MsvPlaces
  <2>2. MsvPlaced([at |-> "uninstall", for |-> "stdio"]) /\ "uninstall" \in Aside
    BY DEF MsvPlaced, Aside, MsvPlaces, Writing, Ending, Replying
  <2> QED
    BY <1>1, <1>2, <1>4, <2>1, <2>2, QuietKeeps
<1> QED
  BY <1>3, <1>4 DEF MsvReads

LEMMA NotifyingStep ==
    ASSUME StdioInv, NEW t \in Threads, MsvNotifies(t) \/ MsvPushes(t), msvNotes \in Nat
    PROVE  StdioInv'
<1>1. /\ UNCHANGED <<msvWriter, msvLock, msvOut, msvBroken, msvAsked, msvOwed>>
      /\ msvAsked' \in Nat /\ StdioServed
  BY DEF MsvNotifies, MsvPushes, msvStdout, msvPipe, StdioInv, RepliesOwed
<1>2. /\ msvThread[t].at \in {"idle", "tool", "push"}
      /\ msvThread[t].at \in Aside \ {"install"} /\ MsvPlaced(msvThread[t])
      /\ msvThread[t].for = "stdio" => msvWriter
  BY <1>1 DEF MsvNotifies, MsvPushes, MsvAt, StdioServed, Aside, MsvPlaces, Writing, Ending,
              Replying
<1>3. CASE MsvNotifies(t)
  <2>4. PICK q \in Nat : q = msvNotes + 1
    OBVIOUS
  <2>1. msvThread' = [msvThread EXCEPT ![t] =
                         [msvThread[t] EXCEPT !.at = "notify", !.note = q]]
    BY <1>3, <2>4 DEF MsvNotifies
  <2>2. MsvMoves(t, "notify", msvThread[t].for, msvThread[t].id)
    BY <1>1, <2>1 DEF MsvMoves, StdioServed, MsvPlaces
  <2>3. MsvPlaced([at |-> "notify", for |-> msvThread[t].for]) /\ "notify" \in Aside
    BY DEF MsvPlaced, Aside, MsvPlaces, Writing, Ending, Replying
  <2> QED
    BY <1>1, <1>2, <2>2, <2>3, QuietKeeps
<1>4. CASE MsvPushes(t) /\ msvThread[t].for = "program"
  <2>1. msvThread' = [msvThread EXCEPT ![t] = MsvIdle]
    BY <1>4 DEF MsvPushes, AfterPush
  <2>2. MsvMoves(t, "idle", "program", 0)
    BY <1>1, <2>1 DEF MsvMoves, StdioServed, MsvPlaces, MsvIdle
  <2>3. MsvPlaced([at |-> "idle", for |-> "program"]) /\ "idle" \in Aside
    BY DEF MsvPlaced, Aside, MsvPlaces, Writing, Ending, Replying
  <2> QED
    BY <1>1, <1>2, <2>2, <2>3, QuietKeeps
<1>5. CASE MsvPushes(t) /\ msvThread[t].for # "program"
  <2>1. msvThread' = [msvThread EXCEPT ![t] =
                         [msvThread[t] EXCEPT !.at = "tool", !.note = 0]]
    BY <1>5 DEF MsvPushes, AfterPush
  <2>2. MsvMoves(t, "tool", msvThread[t].for, msvThread[t].id)
    BY <1>1, <2>1 DEF MsvMoves, StdioServed, MsvPlaces
  <2>3. MsvPlaced([at |-> "tool", for |-> msvThread[t].for]) /\ "tool" \in Aside
    BY <1>5 DEF MsvPlaced, Aside, MsvPlaces, Writing, Ending, Replying
  <2> QED
    BY <1>1, <1>2, <2>2, <2>3, QuietKeeps
<1> QED
  BY <1>3, <1>4, <1>5

-----------------------------------------------------------------------------
(* The connections that are kept open, of clients that name any session.     *)

ListenerPlaces == {"unborn", "open", "wait", "leave", "over"}

EventTypes ==
    /\ msvNotes \in Nat /\ msvPushed \in Seq(Nat)
    /\ msvChannels \in [Listeners -> 0..MaxListeners]
    /\ msvListener \in [Listeners ->
          [at : ListenerPlaces, session : 0..MaxListeners, queue : Seq(Nat), seen : Seq(Nat),
           joined : Nat, gone : BOOLEAN]]

\* The registry has a connection under its own session, while there is someone
\* to receive from it.
Sender(s) ==
    msvChannels[s] # 0 =>
        /\ msvListener[msvChannels[s]].session = s
        /\ msvListener[msvChannels[s]].at \in {"wait", "leave"}

OwnChannel(l) ==
    /\ msvListener[l].at # "unborn" => msvListener[l].session \in Listeners
    /\ msvListener[l].at = "wait" /\ OnlyOne(l) => l \in Registered
    /\ msvListener[l].at \in {"unborn", "open"} =>
          msvListener[l].queue = <<>> /\ msvListener[l].seen = <<>> /\ msvListener[l].joined = 0

\* What a connection has shown its client and still holds is what was pushed
\* since it was registered.
Given(l) ==
    LET me == msvListener[l]
    IN  /\ me.joined + Len(me.seen) <= Len(msvPushed)
        /\ \A i \in DOMAIN me.seen : me.seen[i] = msvPushed[me.joined + i]
        /\ me.at = "wait" =>
              /\ me.joined + Len(me.seen) + Len(me.queue) <= Len(msvPushed)
              /\ l \in Registered =>
                    me.joined + Len(me.seen) + Len(me.queue) = Len(msvPushed)
              /\ \A i \in DOMAIN me.queue :
                    me.queue[i] = msvPushed[me.joined + Len(me.seen) + i]

EventInv == EventTypes /\ \A l \in Listeners : Sender(l) /\ OwnChannel(l) /\ Given(l)

LEMMA ListenerNames == /\ Listeners \subseteq 1..MaxListeners /\ 0 \notin Listeners
                       /\ Listeners \subseteq 0..MaxListeners /\ 0 \in 0..MaxListeners
  BY McpServerAssumption DEF Listeners

LEMMA EventInitial == MsvInit => EventInv
<1> SUFFICES ASSUME MsvInit PROVE EventInv
  OBVIOUS
<1>1. EventTypes
  BY ListenerNames DEF MsvInit, EventTypes, Unconnected, ListenerPlaces
<1>2. ASSUME NEW l \in Listeners PROVE Sender(l) /\ OwnChannel(l) /\ Given(l)
  BY ListenerNames DEF MsvInit, Sender, OwnChannel, Given, Unconnected
<1> QED
  BY <1>1, <1>2 DEF EventInv

\* Where a session's sender goes.
LEMMA RegisteredOwn ==
    ASSUME EventInv, NEW l \in Listeners
    PROVE  /\ l \in Registered => /\ msvListener[l].at \in {"wait", "leave"} /\ HasReceiver(l)
                                  /\ msvListener[l].session \in Listeners
                                  /\ msvChannels[msvListener[l].session] = l
           /\ msvChannels[l] # 0 => HasReceiver(msvChannels[l])
<1>1. \A s \in Listeners : Sender(s)
  BY DEF EventInv
<1>2. l # 0
  BY ListenerNames
<1> QED
  BY <1>1, <1>2 DEF Registered, HasReceiver, Sender

\* One connection changes, and nothing is pushed: no other is registered, and
\* the only one of its session remains so.
LEMMA OneListens ==
    ASSUME EventInv, NEW l \in Listeners,
           UNCHANGED <<msvNotes, msvPushed>>,
           EventTypes', \A s \in Listeners : Sender(s)', OwnChannel(l)', Given(l)',
           \A k \in Listeners \ {l} :
              /\ msvListener'[k] = msvListener[k]
              /\ k \in Registered' => k \in Registered
              /\ msvListener[k].at = "wait" /\ OnlyOne(k)' => k \in Registered'
    PROVE  EventInv'
<1>1. ASSUME NEW k \in Listeners \ {l} PROVE OwnChannel(k)' /\ Given(k)'
  <2>1. Given(k) /\ OwnChannel(k)
    BY DEF EventInv
  <2>2. Given(k)'
    BY <2>1 DEF Given
  <2> QED
    BY <2>1, <2>2 DEF OwnChannel
<1> QED
  BY <1>1 DEF EventInv

\* Its position changes, but it is neither registered nor taken off.
LEMMA OneMoves ==
    ASSUME EventInv, NEW l \in Listeners,
           UNCHANGED <<msvNotes, msvPushed, msvChannels>>,
           EventTypes', OwnChannel(l)', Given(l)',
           \A k \in Listeners \ {l} : msvListener'[k] = msvListener[k],
           msvListener'[l].session = msvListener[l].session \/ msvListener[l].at = "unborn",
           msvListener[l].at # "over",
           msvListener[l].at \in {"wait", "leave"} => msvListener'[l].at \in {"wait", "leave"}
    PROVE  EventInv'
<1>1. Registered' = Registered
  BY DEF Registered
<1>2. ASSUME NEW s \in Listeners PROVE Sender(s)'
  <2>1. Sender(s) /\ msvChannels[s] \in 0..MaxListeners
    BY DEF EventInv, EventTypes
  <2>2. CASE msvChannels[s] = 0
    BY <2>2 DEF Sender
  <2>3. CASE msvChannels[s] = l
    <3>1. msvListener[l].session = s /\ msvListener[l].at \in {"wait", "leave"}
      BY <2>1, <2>3, ListenerNames DEF Sender
    <3>2. msvListener[l].at # "unborn"
      BY <3>1
    <3>3. msvListener'[l].session = s /\ msvListener'[l].at \in {"wait", "leave"}
      BY <3>1, <3>2
    <3> QED
      BY <2>3, <3>3 DEF Sender
  <2>4. CASE msvChannels[s] # 0 /\ msvChannels[s] # l
    <3>1. msvChannels[s] \in Listeners \ {l}
      BY <2>1, <2>4 DEF Listeners
    <3>2. msvListener'[msvChannels[s]] = msvListener[msvChannels[s]]
      BY <3>1
    <3> QED
      BY <2>1, <2>4, <3>2 DEF Sender
  <2> QED
    BY <2>2, <2>3, <2>4
<1>3. ASSUME NEW k \in Listeners \ {l}, msvListener[k].at = "wait", OnlyOne(k)'
      PROVE  k \in Registered'
  <2>1. ASSUME NEW j \in Listeners \ {k}
        PROVE  msvListener[j].at \in {"unborn", "open"} \/ msvListener[j].session # msvListener[k].session
    <3>1. /\ msvListener'[k] = msvListener[k]
          /\ \/ msvListener'[j].at \in {"unborn", "open"}
             \/ msvListener'[j].session # msvListener[k].session
      BY <1>3, <2>1 DEF OnlyOne
    <3>2. CASE j # l
      BY <2>1, <3>1, <3>2
    <3>3. CASE j = l
      <4>1. msvListener[l].at \in ListenerPlaces
        BY DEF EventInv, EventTypes
      <4>2. msvListener[l].at \in {"unborn", "open"} \/ msvListener[l].at \in {"wait", "leave"}
        BY <4>1 DEF ListenerPlaces
      <4>3. CASE msvListener[l].at \in {"wait", "leave"}
        <5>1. msvListener'[l].session = msvListener[l].session
          BY <4>3
        <5>2. msvListener'[l].at \in {"wait", "leave"}
          BY <4>3
        <5> QED
          BY <3>1, <3>3, <5>1, <5>2
      <4> QED
        BY <3>3, <4>2, <4>3
    <3> QED
      BY <3>2, <3>3
  <2>2. OnlyOne(k)
    BY <2>1 DEF OnlyOne
  <2> QED
    BY <1>1, <1>3, <2>2 DEF EventInv, OwnChannel
<1> QED
  BY <1>1, <1>2, <1>3, OneListens

LEMMA ConnectsStep ==
    ASSUME EventInv, NEW l \in Listeners, MsvConnects(l)
    PROVE  EventInv'
<1>1. PICK s \in 1..l :
         /\ msvListener[l].at = "unborn" /\ UNCHANGED <<msvNotes, msvPushed, msvChannels>>
         /\ msvListener' = [msvListener EXCEPT ![l] =
                               [msvListener[l] EXCEPT !.at = "open", !.session = s]]
  BY DEF MsvConnects
<1>2. s \in Listeners /\ s \in 0..MaxListeners
  BY McpServerAssumption DEF Listeners
<1>3. EventTypes'
  BY <1>1, <1>2 DEF EventInv, EventTypes, ListenerPlaces
<1>4. /\ msvListener'[l].at = "open" /\ msvListener'[l].session = s
      /\ msvListener'[l].queue = msvListener[l].queue
      /\ msvListener'[l].seen = msvListener[l].seen
      /\ msvListener'[l].joined = msvListener[l].joined
      /\ \A k \in Listeners \ {l} : msvListener'[k] = msvListener[k]
  BY <1>1 DEF EventInv, EventTypes
<1>5. OwnChannel(l)'
  BY <1>1, <1>2, <1>4 DEF EventInv, OwnChannel
<1>6. Given(l)'
  BY <1>1, <1>4 DEF EventInv, Given
<1> QED
  BY <1>1, <1>3, <1>4, <1>5, <1>6, OneMoves

LEMMA ListensStep ==
    ASSUME EventInv, NEW l \in Listeners, MsvListens(l)
    PROVE  EventInv'
<1>1. /\ msvListener[l].at = "open" /\ UNCHANGED <<msvNotes, msvPushed>>
      /\ msvListener[l].session \in Listeners /\ Len(msvPushed) \in Nat
  <2>1. msvListener[l].at = "open" /\ UNCHANGED <<msvNotes, msvPushed>>
    BY DEF MsvListens
  <2> QED
    BY <2>1 DEF EventInv, OwnChannel, EventTypes
<1>2. PICK n \in Nat, s \in Listeners : n = Len(msvPushed) /\ s = msvListener[l].session
  BY <1>1
<1>3. /\ msvChannels' = [msvChannels EXCEPT ![s] = l]
      /\ msvListener' = [msvListener EXCEPT ![l] =
                            [msvListener[l] EXCEPT !.at = "wait", !.joined = n]]
  BY <1>2 DEF MsvListens
<1>4. EventTypes'
  <2>1. msvListener' \in [Listeners ->
            [at : ListenerPlaces, session : 0..MaxListeners, queue : Seq(Nat), seen : Seq(Nat),
             joined : Nat, gone : BOOLEAN]]
    BY <1>3 DEF EventInv, EventTypes, ListenerPlaces
  <2>2. msvChannels' \in [Listeners -> 0..MaxListeners]
    BY <1>3, ListenerNames DEF EventInv, EventTypes
  <2> QED
    BY <1>1, <2>1, <2>2 DEF EventInv, EventTypes
<1>5. /\ msvListener'[l].at = "wait" /\ msvListener'[l].session = s
      /\ msvListener'[l].queue = <<>> /\ msvListener'[l].seen = <<>>
      /\ msvListener'[l].joined = n /\ msvChannels'[s] = l
      /\ \A k \in Listeners \ {l} : msvListener'[k] = msvListener[k]
      /\ \A r \in Listeners \ {s} : msvChannels'[r] = msvChannels[r]
  BY <1>1, <1>2, <1>3 DEF EventInv, EventTypes, OwnChannel
<1>6. l \in Registered' /\ \A k \in Listeners \ {l} : k \in Registered' => k \in Registered
  BY <1>5 DEF Registered
<1>7. OwnChannel(l)'
  BY <1>5, <1>6 DEF OwnChannel
<1>8. Given(l)'
  <2>1. /\ Len(msvListener'[l].seen) = 0 /\ Len(msvListener'[l].queue) = 0
        /\ DOMAIN msvListener'[l].seen = {} /\ DOMAIN msvListener'[l].queue = {}
    BY <1>5
  <2>2. n + 0 + 0 = n /\ n + 0 = n /\ n <= n /\ msvPushed' = msvPushed
    BY <1>1
  <2> QED
    BY <1>2, <1>5, <2>1, <2>2 DEF Given
<1>9. ASSUME NEW r \in Listeners PROVE Sender(r)'
  <2>1. CASE r = s
    BY <1>5, <2>1 DEF Sender
  <2>2. CASE r # s
    <3>1. Sender(r) /\ msvChannels[r] \in 0..MaxListeners /\ msvChannels'[r] = msvChannels[r]
      BY <1>5, <2>2 DEF EventInv, EventTypes
    <3>2. msvChannels[r] # 0 => msvChannels[r] \in Listeners /\ msvChannels[r] # l
      BY <1>1, <3>1 DEF Listeners, Sender
    <3> QED
      BY <1>5, <3>1, <3>2 DEF Sender
  <2> QED
    BY <2>1, <2>2
<1>10. ASSUME NEW k \in Listeners \ {l}, msvListener[k].at = "wait", OnlyOne(k)'
       PROVE  k \in Registered'
  <2>1. OnlyOne(k)
    BY <1>1, <1>5, <1>10 DEF OnlyOne
  <2>2. k \in Registered /\ msvListener[k].session # s
    BY <1>5, <1>10, <2>1 DEF EventInv, OwnChannel, OnlyOne
  <2>3. msvListener[k].session \in Listeners /\ msvChannels[msvListener[k].session] = k
    BY <2>2, RegisteredOwn
  <2> QED
    BY <1>5, <2>2, <2>3 DEF Registered
<1> QED
  BY <1>1, <1>4, <1>5, <1>6, <1>7, <1>8, <1>9, <1>10, OneListens

LEMMA LeavesStep ==
    ASSUME EventInv, NEW l \in Listeners, MsvLeaves(l)
    PROVE  EventInv'
<1>1. msvListener[l].at = "leave" /\ UNCHANGED <<msvNotes, msvPushed>>
  BY DEF MsvLeaves
<1>2. PICK s \in Listeners : s = msvListener[l].session
  BY <1>1 DEF EventInv, OwnChannel
<1>3. /\ msvChannels' = [msvChannels EXCEPT ![s] = 0]
      /\ msvListener' = [msvListener EXCEPT ![l] =
                            [msvListener[l] EXCEPT !.at = "over", !.queue = <<>>]]
  BY <1>2 DEF MsvLeaves
<1>4. EventTypes'
  <2>1. <<>> \in Seq(Nat)
    OBVIOUS
  <2>2. msvListener' \in [Listeners ->
            [at : ListenerPlaces, session : 0..MaxListeners, queue : Seq(Nat), seen : Seq(Nat),
             joined : Nat, gone : BOOLEAN]]
    BY <1>3, <2>1 DEF EventInv, EventTypes, ListenerPlaces
  <2>3. msvChannels' \in [Listeners -> 0..MaxListeners]
    BY <1>3, ListenerNames DEF EventInv, EventTypes
  <2> QED
    BY <1>1, <2>2, <2>3 DEF EventInv, EventTypes
<1>5. /\ msvListener'[l].at = "over" /\ msvListener'[l].session = s
      /\ msvListener'[l].seen = msvListener[l].seen
      /\ msvListener'[l].joined = msvListener[l].joined /\ msvChannels'[s] = 0
      /\ \A k \in Listeners \ {l} : msvListener'[k] = msvListener[k]
      /\ \A r \in Listeners \ {s} : msvChannels'[r] = msvChannels[r]
  BY <1>2, <1>3 DEF EventInv, EventTypes
<1>6. OwnChannel(l)' /\ Given(l)'
  BY <1>1, <1>5 DEF EventInv, OwnChannel, Given
<1>7. \A k \in Listeners : k \in Registered' => k \in Registered
  BY <1>5, ListenerNames DEF Registered
<1>8. ASSUME NEW r \in Listeners PROVE Sender(r)'
  <2>1. CASE r = s
    BY <1>5, <2>1 DEF Sender
  <2>2. CASE r # s
    <3>1. Sender(r) /\ msvChannels[r] \in 0..MaxListeners /\ msvChannels'[r] = msvChannels[r]
      BY <1>5, <2>2 DEF EventInv, EventTypes
    <3>2. msvChannels[r] # 0 => msvChannels[r] \in Listeners /\ msvChannels[r] # l
      BY <1>2, <2>2, <3>1 DEF Listeners, Sender
    <3> QED
      BY <1>5, <3>1, <3>2 DEF Sender
  <2> QED
    BY <2>1, <2>2
<1>9. ASSUME NEW k \in Listeners \ {l}, msvListener[k].at = "wait", OnlyOne(k)'
      PROVE  k \in Registered'
  <2>1. OnlyOne(k)
    BY <1>2, <1>5, <1>9 DEF OnlyOne
  <2>2. k \in Registered /\ msvListener[k].session # s
    BY <1>5, <1>9, <2>1 DEF EventInv, OwnChannel, OnlyOne
  <2>3. msvListener[k].session \in Listeners /\ msvChannels[msvListener[k].session] = k
    BY <2>2, RegisteredOwn
  <2> QED
    BY <1>5, <2>2, <2>3 DEF Registered
<1> QED
  BY <1>1, <1>4, <1>5, <1>6, <1>7, <1>8, <1>9, OneListens

\* It is not registered, or its client goes.
LEMMA GoesStep ==
    ASSUME EventInv, NEW l \in Listeners, MsvRefused(l) \/ MsvClientGoes(l)
    PROVE  EventInv'
<1>1. UNCHANGED <<msvNotes, msvPushed, msvChannels>>
  BY DEF MsvRefused, MsvClientGoes
<1>2. Registered' = Registered
  BY <1>1 DEF Registered
<1>3. CASE MsvRefused(l)
  <2>1. msvListener[l].at = "open" /\ msvListener' = [msvListener EXCEPT ![l].at = "over"]
    BY <1>3 DEF MsvRefused, ListenerGo
  <2>2. EventTypes'
    BY <1>1, <2>1 DEF EventInv, EventTypes, ListenerPlaces
  <2>3. /\ msvListener'[l].at = "over" /\ msvListener'[l].session = msvListener[l].session
        /\ msvListener'[l].seen = msvListener[l].seen
        /\ msvListener'[l].joined = msvListener[l].joined
        /\ \A k \in Listeners \ {l} : msvListener'[k] = msvListener[k]
    BY <2>1 DEF EventInv, EventTypes
  <2>4. OwnChannel(l)' /\ Given(l)'
    BY <1>1, <2>1, <2>3 DEF EventInv, OwnChannel, Given
  <2> QED
    BY <1>1, <2>1, <2>2, <2>3, <2>4, OneMoves
<1>4. CASE MsvClientGoes(l)
  <2>1. msvListener' = [msvListener EXCEPT ![l].gone = TRUE] /\ msvListener[l].at # "over"
    BY <1>4 DEF MsvClientGoes
  <2>2. EventTypes'
    BY <1>1, <2>1 DEF EventInv, EventTypes
  <2>3. /\ msvListener'[l].at = msvListener[l].at
        /\ msvListener'[l].session = msvListener[l].session
        /\ msvListener'[l].seen = msvListener[l].seen
        /\ msvListener'[l].queue = msvListener[l].queue
        /\ msvListener'[l].joined = msvListener[l].joined
        /\ \A k \in Listeners \ {l} : msvListener'[k] = msvListener[k]
    BY <2>1 DEF EventInv, EventTypes
  <2>4. OnlyOne(l)' => OnlyOne(l)
    BY <2>3 DEF OnlyOne
  <2>5. OwnChannel(l)' /\ Given(l)'
    BY <1>1, <1>2, <2>3, <2>4 DEF EventInv, OwnChannel, Given
  <2> QED
    BY <1>1, <2>1, <2>2, <2>3, <2>5, OneMoves
<1> QED
  BY <1>3, <1>4

LEMMA SendsStep ==
    ASSUME EventInv, NEW l \in Listeners, MsvSends(l)
    PROVE  EventInv'
<1>1. /\ msvListener[l].at = "wait" /\ UNCHANGED <<msvNotes, msvPushed, msvChannels>>
  BY DEF MsvSends
<1>2. /\ msvListener[l].queue \in Seq(Nat) /\ msvListener[l].seen \in Seq(Nat)
      /\ msvListener[l].joined \in Nat
      /\ msvPushed \in Seq(Nat) /\ Len(msvPushed) \in Nat
      /\ Given(l) /\ OwnChannel(l)
  BY DEF EventInv, EventTypes
<1>3. Registered' = Registered
  BY <1>1 DEF Registered
<1>4. ASSUME NEW queue \in Seq(Nat), NEW seen \in Seq(Nat), msvListener[l].queue # <<>>,
             queue = Tail(msvListener[l].queue),
             seen = Append(msvListener[l].seen, Head(msvListener[l].queue)),
             msvListener' = [msvListener EXCEPT ![l] =
                                [msvListener[l] EXCEPT !.queue = queue, !.seen = seen]]
      PROVE  EventInv'
  <2>1. EventTypes'
    BY <1>1, <1>4 DEF EventInv, EventTypes
  <2>2. /\ msvListener'[l].at = "wait" /\ msvListener'[l].session = msvListener[l].session
        /\ msvListener'[l].seen = seen /\ msvListener'[l].queue = queue
        /\ msvListener'[l].joined = msvListener[l].joined
        /\ \A k \in Listeners \ {l} : msvListener'[k] = msvListener[k]
    BY <1>1, <1>2, <1>4 DEF EventInv, EventTypes
  <2>3. OwnChannel(l)'
    BY <1>3, <1>1, <1>2, <2>2 DEF OwnChannel, OnlyOne
  <2> DEFINE q == msvListener[l].queue
             s == msvListener[l].seen
             j == msvListener[l].joined
  <2>4. /\ Len(q) \in Nat /\ Len(q) > 0 /\ Len(queue) = Len(q) - 1
        /\ \A i \in DOMAIN queue : queue[i] = q[i + 1] /\ i + 1 \in DOMAIN q /\ i \in Nat
        /\ Head(q) = q[1] /\ 1 \in DOMAIN q
    <3>1. PICK w \in Seq(Nat) : w = q /\ w # <<>> /\ queue = Tail(w)
      BY <1>2, <1>4
    <3>2. Len(w) \in Nat /\ Len(w) > 0 /\ Len(queue) = Len(w) - 1 /\ Head(w) = w[1]
      BY <3>1
    <3>3. DOMAIN queue = 1..(Len(w) - 1) /\ DOMAIN w = 1..Len(w)
      BY <3>1, <3>2
    <3>4. \A i \in 1..(Len(w) - 1) : queue[i] = w[i + 1]
      BY <3>1
    <3>5. \A i \in 1..(Len(w) - 1) : i + 1 \in 1..Len(w) /\ i \in Nat
      BY <3>2
    <3>6. 1 \in 1..Len(w)
      BY <3>2
    <3> QED
      BY <3>1, <3>2, <3>3, <3>4, <3>5, <3>6
  <2>5. /\ Len(s) \in Nat /\ Len(seen) = Len(s) + 1 /\ seen[Len(s) + 1] = Head(q)
        /\ \A i \in DOMAIN seen : i = Len(s) + 1 \/ (i \in DOMAIN s /\ seen[i] = s[i])
    <3>1. s \in Seq(Nat) /\ Head(q) \in Nat /\ seen = Append(s, Head(q))
      BY <1>2, <1>4
    <3> HIDE DEF s, q
    <3> QED
      BY <3>1
  <2>6. /\ j + Len(s) + Len(q) <= Len(msvPushed)
        /\ l \in Registered => j + Len(s) + Len(q) = Len(msvPushed)
        /\ \A i \in DOMAIN q : q[i] = msvPushed[j + Len(s) + i]
        /\ \A i \in DOMAIN s : s[i] = msvPushed[j + i]
        /\ j \in Nat
    BY <1>1, <1>2 DEF Given
  <2> HIDE DEF q, s, j
  <2>7. /\ j + Len(seen) + Len(queue) <= Len(msvPushed) /\ j + Len(seen) <= Len(msvPushed)
        /\ l \in Registered => j + Len(seen) + Len(queue) = Len(msvPushed)
    <3>1. /\ Len(q) \in Nat /\ Len(s) \in Nat /\ Len(queue) = Len(q) - 1
          /\ Len(seen) = Len(s) + 1 /\ Len(msvPushed) \in Nat
      BY <1>2, <2>4, <2>5
    <3>2. j + (Len(s) + 1) + (Len(q) - 1) = j + Len(s) + Len(q) /\ Len(q) > 0
          /\ j + (Len(s) + 1) <= j + Len(s) + Len(q)
      BY <2>4, <2>6, <3>1
    <3> QED
      BY <2>6, <3>1, <3>2
  <2>8. \A i \in DOMAIN seen : seen[i] = msvPushed[j + i]
    <3>1. seen[Len(s) + 1] = msvPushed[j + Len(s) + 1]
      BY <2>4, <2>5, <2>6
    <3>2. Len(s) \in Nat /\ j \in Nat
      BY <2>5, <2>6
    <3>3. j + Len(s) + 1 = j + (Len(s) + 1)
      BY <3>2
    <3> QED
      BY <2>5, <2>6, <3>1, <3>3
  <2>9. \A i \in DOMAIN queue : queue[i] = msvPushed[j + Len(seen) + i]
    <3> TAKE i \in DOMAIN queue
    <3>1. queue[i] = msvPushed[j + Len(s) + (i + 1)] /\ i \in Nat
      BY <2>4, <2>6
    <3>2. j + Len(s) + (i + 1) = j + Len(seen) + i
      BY <2>5, <2>6, <3>1
    <3> QED
      BY <3>1, <3>2
  <2>10. Given(l)'
    BY <1>3, <1>1, <2>2, <2>7, <2>8, <2>9 DEF Given, j
  <2> QED
    BY <1>1, <2>1, <2>2, <2>3, <2>10, OneMoves
<1>5. ASSUME NEW queue \in Seq(Nat),
             msvListener' = [msvListener EXCEPT ![l] =
                                [msvListener[l] EXCEPT !.at = "leave", !.queue = queue]]
      PROVE  EventInv'
  <2>1. EventTypes'
    BY <1>1, <1>5 DEF EventInv, EventTypes, ListenerPlaces
  <2>2. /\ msvListener'[l].at = "leave" /\ msvListener'[l].session = msvListener[l].session
        /\ msvListener'[l].seen = msvListener[l].seen
        /\ msvListener'[l].joined = msvListener[l].joined
        /\ \A k \in Listeners \ {l} : msvListener'[k] = msvListener[k]
    BY <1>1, <1>2, <1>5 DEF EventInv, EventTypes
  <2>3. OwnChannel(l)' /\ Given(l)'
    BY <1>1, <1>2, <2>2 DEF OwnChannel, Given
  <2> QED
    BY <1>1, <2>1, <2>2, <2>3, OneMoves
<1>6. CASE msvListener[l].queue # <<>> /\ msvListener' = [msvListener EXCEPT ![l] =
              [msvListener[l] EXCEPT !.queue = Tail(msvListener[l].queue),
                  !.seen = Append(msvListener[l].seen, Head(msvListener[l].queue))]]
  <2>1. /\ Tail(msvListener[l].queue) \in Seq(Nat)
        /\ Append(msvListener[l].seen, Head(msvListener[l].queue)) \in Seq(Nat)
    BY <1>2, <1>6
  <2> QED
    BY <1>4, <1>6, <2>1
<1>7. CASE msvListener' = [msvListener EXCEPT ![l] =
              [msvListener[l] EXCEPT !.at = "leave", !.queue = <<>>]]
  <2>1. <<>> \in Seq(Nat)
    OBVIOUS
  <2> QED
    BY <1>5, <1>7, <2>1
<1>8. CASE msvListener' = [msvListener EXCEPT ![l].at = "leave"]
  <2>1. msvListener' = [msvListener EXCEPT ![l] =
            [msvListener[l] EXCEPT !.at = "leave", !.queue = msvListener[l].queue]]
    BY <1>2, <1>8 DEF EventInv, EventTypes
  <2> QED
    BY <1>2, <1>5, <2>1
<1> QED
  BY <1>6, <1>7, <1>8 DEF MsvSends, ListenerGo

\* A notification reaches every connection that is registered.
LEMMA PushesStep ==
    ASSUME EventInv, NEW t \in Threads, MsvPushes(t), msvThread[t].note \in Nat
    PROVE  EventInv'
<1> DEFINE note == msvThread[t].note
<1>1. /\ msvPushed' = Append(msvPushed, note) /\ msvNotes' = msvNotes
      /\ \A l \in Listeners :
            msvListener'[l] =
                IF l \in Registered /\ HasReceiver(l)
                THEN [msvListener[l] EXCEPT !.queue = Append(msvListener[l].queue, note)]
                ELSE msvListener[l]
      /\ DOMAIN msvListener' = Listeners
      /\ msvListener' = [l \in Listeners |-> msvListener'[l]]
  BY DEF MsvPushes
<1>2. msvChannels' = msvChannels
  <2>1. \A l \in Listeners :
            ~(msvChannels[l] # 0 /\ ~HasReceiver(msvChannels[l]))
    BY RegisteredOwn
  <2> QED
    BY <2>1 DEF MsvPushes, EventInv, EventTypes
<1>3. msvPushed \in Seq(Nat) /\ Len(msvPushed) \in Nat /\ note \in Nat
  BY DEF EventInv, EventTypes
<1> HIDE DEF note
<1>4. /\ msvPushed' \in Seq(Nat) /\ Len(msvPushed') = Len(msvPushed) + 1
      /\ msvPushed'[Len(msvPushed) + 1] = note
      /\ \A i \in 1..Len(msvPushed) : msvPushed'[i] = msvPushed[i]
  BY <1>1, <1>3
<1>5. ASSUME NEW l \in Listeners
      PROVE  /\ msvListener'[l] \in
                    [at : ListenerPlaces, session : 0..MaxListeners, queue : Seq(Nat),
                     seen : Seq(Nat), joined : Nat, gone : BOOLEAN]
             /\ msvListener'[l].at = msvListener[l].at
             /\ msvListener'[l].session = msvListener[l].session
             /\ (msvListener[l].at \in {"unborn", "open"} => msvListener'[l] = msvListener[l])
             /\ Given(l)'
  <2> DEFINE me == msvListener[l]
  <2>1. /\ me \in [at : ListenerPlaces, session : 0..MaxListeners, queue : Seq(Nat),
                    seen : Seq(Nat), joined : Nat, gone : BOOLEAN]
        /\ me.queue \in Seq(Nat) /\ me.seen \in Seq(Nat) /\ me.joined \in Nat
        /\ Given(l)
    BY DEF EventInv, EventTypes
  <2>2. \A i \in DOMAIN me.seen : me.seen[i] = msvPushed'[me.joined + i]
    <3>1. ASSUME NEW i \in DOMAIN me.seen
          PROVE  me.seen[i] = msvPushed'[me.joined + i]
      <4>1. me.joined + Len(me.seen) <= Len(msvPushed) /\ me.seen[i] = msvPushed[me.joined + i]
        BY <2>1 DEF Given
      <4>2. i \in 1..Len(me.seen) /\ Len(me.seen) \in Nat /\ me.joined \in Nat
        BY <2>1
      <4>3. me.joined + i \in 1..Len(msvPushed)
        <5>1. PICK j \in Nat, n \in Nat, l1 \in Nat :
                  j = me.joined /\ n = Len(me.seen) /\ l1 = Len(msvPushed)
          BY <1>3, <4>2
        <5>2. j + n <= l1 /\ i \in 1..n
          BY <4>1, <4>2, <5>1
        <5>3. j + i \in 1..l1
          BY <5>2
        <5> QED
          BY <5>1, <5>3
      <4> QED
        BY <1>4, <4>1, <4>3
    <3> QED
      BY <3>1
  <2>3. me.joined + Len(me.seen) <= Len(msvPushed')
    <3>1. me.joined + Len(me.seen) <= Len(msvPushed) /\ Len(me.seen) \in Nat
      BY <2>1 DEF Given
    <3> QED
      BY <1>3, <1>4, <2>1, <3>1
  <2>4. CASE l \notin Registered
    <3>1. msvListener'[l] = me /\ l \notin Registered'
      BY <1>1, <1>2, <2>4 DEF Registered
    <3>2. ASSUME me.at = "wait"
          PROVE  /\ me.joined + Len(me.seen) + Len(me.queue) <= Len(msvPushed')
                 /\ \A i \in DOMAIN me.queue :
                       me.queue[i] = msvPushed'[me.joined + Len(me.seen) + i]
      <4>1. \A i \in DOMAIN me.queue : me.queue[i] = msvPushed[me.joined + Len(me.seen) + i]
        BY <2>1, <3>2 DEF Given
      <4>10. (me.joined + Len(me.seen)) + Len(me.queue) <= Len(msvPushed)
        BY <2>1, <3>2 DEF Given
      <4>2. PICK j \in Nat, n \in Nat, p \in Nat :
                j = me.joined + Len(me.seen) /\ n = Len(me.queue) /\ p = Len(msvPushed)
        <5>1. Len(me.seen) \in Nat /\ Len(me.queue) \in Nat
          BY <2>1
        <5>2. me.joined + Len(me.seen) \in Nat
          BY <2>1, <5>1
        <5> QED
          BY <1>3, <5>1, <5>2
      <4>9. j + n <= p
        BY <4>2, <4>10
      <4>3. \A i \in 1..n : j + i \in 1..p
        BY <4>9
      <4>4. DOMAIN me.queue = 1..n /\ j + n <= p + 1
        BY <2>1, <4>2, <4>9
      <4>5. ASSUME NEW i \in DOMAIN me.queue
            PROVE  me.queue[i] = msvPushed'[me.joined + Len(me.seen) + i]
        <5>1. j + i \in 1..p
          BY <4>3, <4>4
        <5>2. me.queue[i] = msvPushed[j + i]
          BY <4>1, <4>2
        <5> QED
          BY <1>4, <4>2, <5>1, <5>2
      <4>6. Len(msvPushed') = p + 1
        BY <1>4, <4>2
      <4>7. j + n <= Len(msvPushed')
        BY <4>4, <4>6
      <4>8. me.joined + Len(me.seen) + Len(me.queue) = j + n
        BY <4>2
      <4> QED
        BY <4>5, <4>7, <4>8
    <3> QED
      BY <2>1, <2>2, <2>3, <3>1, <3>2 DEF Given
  <2>5. CASE l \in Registered
    <3>8. Append(me.queue, note) \in Seq(Nat)
      BY <1>3, <2>1
    <3>1. PICK queue \in Seq(Nat) : queue = Append(me.queue, note)
      BY <3>8
    <3>2. msvListener'[l] = [me EXCEPT !.queue = queue]
      BY <1>1, <2>5, <3>1, RegisteredOwn
    <3>3. /\ msvListener'[l] \in [at : ListenerPlaces, session : 0..MaxListeners,
                                  queue : Seq(Nat), seen : Seq(Nat), joined : Nat,
                                  gone : BOOLEAN]
          /\ msvListener'[l].at = me.at /\ msvListener'[l].session = me.session
          /\ msvListener'[l].seen = me.seen /\ msvListener'[l].joined = me.joined
          /\ msvListener'[l].queue = queue
      BY <2>1, <3>2
    <3>4. me.at \notin {"unborn", "open"}
      BY <2>5, RegisteredOwn DEF HasReceiver
    <3>6. ASSUME me.at = "wait"
          PROVE  /\ me.joined + Len(me.seen) + Len(queue) = Len(msvPushed')
                 /\ \A i \in DOMAIN queue : queue[i] = msvPushed'[me.joined + Len(me.seen) + i]
      <4> DEFINE q == me.queue
                 j == me.joined + Len(me.seen)
      <4>1. /\ q \in Seq(Nat) /\ Len(q) \in Nat /\ j \in Nat /\ j + Len(q) = Len(msvPushed)
            /\ \A i \in DOMAIN q : q[i] = msvPushed[j + i]
        BY <2>1, <2>5, <3>6 DEF Given
      <4> HIDE DEF q, j
      <4>2. /\ Len(queue) = Len(q) + 1 /\ queue[Len(q) + 1] = note
            /\ \A i \in DOMAIN queue : i = Len(q) + 1 \/ (i \in DOMAIN q /\ queue[i] = q[i])
            /\ DOMAIN q = 1..Len(q)
        <5>1. queue = Append(q, note) /\ note \in Nat
          BY <1>3, <3>1 DEF q
        <5>2. DOMAIN q = 1..Len(q) /\ DOMAIN queue = 1..(Len(q) + 1)
          BY <4>1, <5>1
        <5>3. /\ Len(queue) = Len(q) + 1 /\ queue[Len(q) + 1] = note
              /\ \A i \in 1..Len(q) : queue[i] = q[i]
          BY <4>1, <5>1
        <5>4. \A i \in 1..(Len(q) + 1) : i = Len(q) + 1 \/ i \in 1..Len(q)
          BY <4>1
        <5> QED
          BY <5>2, <5>3, <5>4
      <4>3. \A i \in DOMAIN q : j + i \in 1..Len(msvPushed)
        BY <4>1, <4>2, SMTT(30)
      <4>7. Len(q) \in Nat /\ j \in Nat /\ j + Len(q) = Len(msvPushed)
        BY <4>1
      <4>4. j + (Len(q) + 1) = Len(msvPushed) + 1
        BY <4>7
      <4>5. \A i \in DOMAIN queue : queue[i] = msvPushed'[j + i]
        BY <1>4, <4>1, <4>2, <4>3, <4>4
      <4>6. j + Len(queue) = Len(msvPushed')
        BY <1>4, <4>2, <4>4
      <4> QED
        BY <4>5, <4>6 DEF j
    <3>9. /\ Len(me.queue) \in Nat /\ Len(queue) \in Nat /\ Len(msvPushed') \in Nat
          /\ me.joined + Len(me.seen) \in Nat
      BY <1>4, <2>1, <3>1
    <3>7. Given(l)'
      BY <2>2, <2>3, <3>3, <3>6, <3>9 DEF Given
    <3> QED
      BY <3>3, <3>4, <3>7
  <2> QED
    BY <2>4, <2>5
<1>6. EventTypes'
  BY <1>1, <1>2, <1>4, <1>5 DEF EventInv, EventTypes
<1>7. ASSUME NEW l \in Listeners PROVE Sender(l)' /\ OwnChannel(l)'
  <2>1. /\ Sender(l) /\ OwnChannel(l) /\ msvChannels[l] \in 0..MaxListeners
        /\ Registered' = Registered
    BY <1>2 DEF EventInv, EventTypes, Registered
  <2>2. msvChannels[l] # 0 => msvChannels[l] \in Listeners
    BY <2>1 DEF Listeners
  <2>3. OnlyOne(l)' => OnlyOne(l)
    BY <1>5 DEF OnlyOne
  <2>4. Sender(l)'
    BY <1>2, <1>5, <2>1, <2>2 DEF Sender
  <2>5. OwnChannel(l)'
    BY <1>5, <2>1, <2>3 DEF OwnChannel
  <2> QED
    BY <2>4, <2>5
<1> QED
  BY <1>5, <1>6, <1>7 DEF EventInv

\* The steps that have to do with neither.
LEMMA EventsStay ==
    ASSUME EventInv, UNCHANGED <<msvPushed, msvChannels, msvListener>>, msvNotes' \in Nat
    PROVE  EventInv'
<1>1. \A l \in Listeners : OnlyOne(l)' => OnlyOne(l)
  BY DEF OnlyOne
<1> QED
  BY <1>1 DEF EventInv, EventTypes, Sender, OwnChannel, Given, Registered

LEMMA StdioStays ==
    ASSUME StdioInv,
           UNCHANGED <<msvWriter, msvLock, msvBroken, msvOut, msvAsked, msvOwed, msvThread>>
    PROVE  StdioInv'
<1>1. \A n : FirstAnswered(n) <=> FirstAnswered(n)'
  BY DEF FirstAnswered
<1>2. RepliesOwed'
  BY <1>1 DEF StdioInv, RepliesOwed
<1> QED
  BY <1>2 DEF StdioInv, StdioServed, WritersLock, LinesUnderWay, LinesWhole

NotesCounted == msvNotes \in Nat

LEMMA StdioInvariant ==
    MsvInit /\ [][MsvNext]_msvVars => [](StdioInv /\ NotesCounted)
<1>1. ASSUME StdioInv, NotesCounted, [MsvNext]_msvVars
      PROVE  StdioInv' /\ NotesCounted'
  <2>1. CASE UNCHANGED msvVars
    <3>1. UNCHANGED <<msvWriter, msvLock, msvBroken, msvOut, msvAsked, msvOwed, msvThread,
                      msvNotes>>
      BY <2>1 DEF msvVars
    <3> QED
      BY <1>1, <3>1, StdioStays DEF NotesCounted
  <2>2. ASSUME NEW t \in Threads,
               MsvCreate(t) \/ MsvRegister(t) \/ MsvSetCallback(t) \/ MsvDestroy(t)
        PROVE  StdioInv' /\ NotesCounted'
    <3>1. UNCHANGED <<msvWriter, msvLock, msvBroken, msvOut, msvAsked, msvOwed, msvThread,
                      msvNotes>>
      BY <2>2 DEF MsvCreate, MsvRegister, MsvSetCallback, MsvDestroy, msvPipe, msvStdout,
                  msvEvents
    <3> QED
      BY <1>1, <3>1, StdioStays DEF NotesCounted
  <2>3. ASSUME NEW t \in Threads,
               \/ MsvServes(t) \/ MsvInstalls(t) \/ MsvReads(t) \/ MsvUninstalls(t)
               \/ MsvPosts(t) \/ MsvDescribes(t) \/ MsvLooks(t) \/ MsvToolReturns(t)
               \/ MsvTakesWriter(t) \/ MsvText(t) \/ MsvLineEnd(t) \/ MsvWriteFails(t)
        PROVE  StdioInv' /\ NotesCounted'
    <3>1. UNCHANGED msvEvents
      BY <2>3 DEF MsvServes, MsvInstalls, MsvReads, MsvUninstalls, MsvPosts, MsvDescribes,
                  MsvLooks, MsvToolReturns, MsvTakesWriter, MsvText, MsvLineEnd, MsvWriteFails
    <3>2. NotesCounted'
      BY <1>1, <3>1 DEF msvEvents, NotesCounted
    <3>3. StdioInv'
      BY <1>1, <2>3, ServeStep, ReadStep, RequestStep, TakesWriterStep, TextStep, LineEndStep,
         WriteFailsStep
    <3> QED
      BY <3>2, <3>3
  <2>4. ASSUME NEW t \in Threads, MsvNotifies(t) \/ MsvPushes(t)
        PROVE  StdioInv' /\ NotesCounted'
    <3>1. StdioInv'
      BY <1>1, <2>4, NotifyingStep DEF NotesCounted
    <3>2. msvNotes' = msvNotes \/ msvNotes' = msvNotes + 1
      BY <2>4 DEF MsvNotifies, MsvPushes
    <3> QED
      BY <1>1, <3>1, <3>2 DEF NotesCounted
  <2>5. CASE MsvBreaks
    <3>1. UNCHANGED msvEvents
      BY <2>5 DEF MsvBreaks
    <3> QED
      BY <1>1, <2>5, <3>1, BreaksStep DEF msvEvents, NotesCounted
  <2>6. ASSUME NEW l \in Listeners,
               \/ MsvConnects(l) \/ MsvListens(l) \/ MsvRefused(l) \/ MsvSends(l)
               \/ MsvLeaves(l) \/ MsvClientGoes(l)
        PROVE  StdioInv' /\ NotesCounted'
    <3>1. UNCHANGED <<msvWriter, msvLock, msvBroken, msvOut, msvAsked, msvOwed, msvThread,
                      msvNotes>>
      BY <2>6 DEF MsvConnects, MsvListens, MsvRefused, MsvSends, MsvLeaves, MsvClientGoes,
                  msvPipe, msvStdout
    <3> QED
      BY <1>1, <3>1, StdioStays DEF NotesCounted
  <2> QED
    BY <1>1, <2>1, <2>2, <2>3, <2>4, <2>5, <2>6 DEF MsvNext
<1>2. MsvInit => StdioInv /\ NotesCounted
  BY StdioInitial DEF MsvInit, NotesCounted
<1> QED
  BY <1>1, <1>2, PTL

LEMMA EventInvariant == MsvInit /\ [][MsvNext]_msvVars => []EventInv
<1>1. ASSUME StdioInv, NotesCounted', EventInv, [MsvNext]_msvVars
      PROVE  EventInv'
  <2>1. ASSUME NEW t \in Threads, MsvPushes(t) PROVE EventInv'
    <3>1. msvThread[t].note \in Nat
      BY <1>1 DEF StdioInv, StdioServed
    <3> QED
      BY <1>1, <2>1, <3>1, PushesStep
  <2>2. ASSUME NEW l \in Listeners,
               \/ MsvConnects(l) \/ MsvListens(l) \/ MsvRefused(l) \/ MsvSends(l)
               \/ MsvLeaves(l) \/ MsvClientGoes(l)
        PROVE  EventInv'
    BY <1>1, <2>2, ConnectsStep, ListensStep, LeavesStep, GoesStep, SendsStep
  <2>3. ASSUME UNCHANGED <<msvPushed, msvChannels, msvListener>>
        PROVE  EventInv'
    BY <1>1, <2>3, EventsStay DEF NotesCounted
  <2>4. CASE UNCHANGED msvVars
    BY <2>3, <2>4 DEF msvVars
  <2>5. ASSUME NEW t \in Threads,
               \/ MsvCreate(t) \/ MsvRegister(t) \/ MsvSetCallback(t) \/ MsvDestroy(t)
               \/ MsvServes(t) \/ MsvInstalls(t) \/ MsvReads(t) \/ MsvUninstalls(t)
               \/ MsvPosts(t) \/ MsvDescribes(t) \/ MsvLooks(t) \/ MsvToolReturns(t)
               \/ MsvTakesWriter(t) \/ MsvText(t) \/ MsvLineEnd(t) \/ MsvWriteFails(t)
               \/ MsvNotifies(t)
        PROVE  EventInv'
    <3>1. UNCHANGED <<msvPushed, msvChannels, msvListener>>
      BY <2>5 DEF MsvCreate, MsvRegister, MsvSetCallback, MsvDestroy, MsvServes, MsvInstalls,
                  MsvReads, MsvUninstalls, MsvPosts, MsvDescribes, MsvLooks, MsvToolReturns,
                  MsvTakesWriter, MsvText, MsvLineEnd, MsvWriteFails, MsvNotifies, msvEvents
    <3> QED
      BY <2>3, <3>1
  <2>6. CASE MsvBreaks
    BY <2>3, <2>6 DEF MsvBreaks, msvEvents
  <2> QED
    BY <1>1, <2>1, <2>2, <2>4, <2>5, <2>6 DEF MsvNext
<1> QED
  BY <1>1, StdioInvariant, EventInitial, PTL

\* "Keeps stdout from being written by two at once" (mcp_ffi.rs:30), and each
\* request that has an answer is answered once, in the order in which they came,
\* before the next is read (mcp_ffi.rs, handle_request).
THEOREM LinesStayWhole == MsvInit /\ [][MsvNext]_msvVars => []LinesWhole
<1>1. StdioInv => LinesWhole
  BY DEF StdioInv, LinesUnderWay
<1> QED
  BY <1>1, StdioInvariant, PTL

THEOREM RequestsAreAnsweredOnce == MsvInit /\ [][MsvNext]_msvVars => []AnsweredOnce
<1>1. ASSUME StdioInv PROVE AnsweredOnce
  <2>1. msvOwed \in Seq(Nat) /\ Len(msvOwed) \in Nat
    BY <1>1 DEF StdioInv, RepliesOwed
  <2>2. CASE ~msvBroken /\ \E t \in Threads : MsvAt(t, "read")
    <3>1. PICK t \in Threads : msvThread[t].at = "read"
      BY <2>2 DEF MsvAt
    <3>2. \A u \in Threads : msvThread[u].at \in Replying => u = t
      BY <1>1, <3>1 DEF StdioInv, StdioServed, MsvPlaced
    <3>3. \A u \in Threads : msvThread[u].at \notin Replying
      BY <3>1, <3>2 DEF Replying
    <3>4. PICK n \in Nat : n = Len(msvOwed)
      BY <2>1
    <3>5. FirstAnswered(n)
      BY <1>1, <2>2, <3>3, <3>4 DEF StdioInv, RepliesOwed
    <3>6. n \in 0..Len(msvOwed)
      BY <3>4
    <3> QED
      BY <3>4, <3>5, <3>6 DEF AnsweredOnce
  <2>3. CASE ~(~msvBroken /\ \E t \in Threads : MsvAt(t, "read"))
    <3>1. PICK n \in 0..Len(msvOwed) : FirstAnswered(n)
      BY <1>1 DEF StdioInv, RepliesOwed
    <3> QED
      BY <2>3, <3>1 DEF AnsweredOnce
  <2> QED
    BY <2>2, <2>3
<1> QED
  BY <1>1, StdioInvariant, PTL

\* Every connection that is kept open is given each notification of its time
\* once, and in the one order in which they were pushed (mcp_ffi.rs, push_sse),
\* until another connection with the session it names takes its place, or goes
\* (mcp_ffi.rs:1214).
THEOREM EventsReachAll == MsvInit /\ [][MsvNext]_msvVars => []EventsReach
<1>1. ASSUME EventInv PROVE EventsReach
  <2> SUFFICES ASSUME NEW l \in Listeners
               PROVE  LET me == msvListener[l]
                          due == SubSeq(msvPushed, me.joined + 1, Len(msvPushed))
                      IN  /\ IsPrefix(me.seen, due)
                          /\ (me.at = "wait" /\ l \in Registered => me.seen \o me.queue = due)
    BY <1>1 DEF EventsReach, EventInv, OwnChannel
  <2> DEFINE me == msvListener[l]
             due == SubSeq(msvPushed, me.joined + 1, Len(msvPushed))
  <2>1. /\ me.queue \in Seq(Nat) /\ me.seen \in Seq(Nat) /\ me.joined \in Nat
        /\ msvPushed \in Seq(Nat) /\ Len(msvPushed) \in Nat /\ Given(l)
    BY <1>1 DEF EventInv, EventTypes
  <2>2. PICK s \in Seq(Nat), q \in Seq(Nat), j \in Nat :
            me.seen = s /\ me.queue = q /\ me.joined = j
    BY <2>1
  <2>3. /\ j + Len(s) <= Len(msvPushed) /\ \A i \in DOMAIN s : s[i] = msvPushed[j + i]
        /\ me.at = "wait" /\ l \in Registered =>
                             /\ j + Len(s) + Len(q) = Len(msvPushed)
                             /\ \A i \in DOMAIN q : q[i] = msvPushed[j + Len(s) + i]
    BY <2>1, <2>2 DEF Given
  <2>4. PICK d : d = due
    OBVIOUS
  <2>5. d = SubSeq(msvPushed, j + 1, Len(msvPushed))
    BY <2>2, <2>4
  <2>6. /\ d \in Seq(Nat) /\ Len(d) = Len(msvPushed) - j
        /\ \A i \in 1..Len(d) : d[i] = msvPushed[j + i]
    <3>1. \A i \in (j + 1)..Len(msvPushed) : msvPushed[i] \in Nat
      BY <2>1
    <3>2. Len(s) \in Nat /\ j <= Len(msvPushed)
      BY <2>1, <2>3
    <3>3. /\ d \in Seq(Nat)
          /\ Len(d) = IF j + 1 <= Len(msvPushed) THEN Len(msvPushed) - (j + 1) + 1 ELSE 0
          /\ \A i \in 1..(Len(msvPushed) - (j + 1) + 1) : d[i] = msvPushed[(j + 1) + i - 1]
      BY <2>1, <2>5, <3>1, SubSeqProperties
    <3>4. Len(d) = Len(msvPushed) - j
      <4>1. PICK n \in Nat : n = Len(msvPushed)
        BY <2>1
      <4>2. j <= n /\ Len(d) = IF j + 1 <= n THEN n - (j + 1) + 1 ELSE 0
        BY <3>2, <3>3, <4>1
      <4>3. Len(d) = n - j
        BY <4>2
      <4> QED
        BY <4>1, <4>3
    <3>5. \A i \in 1..Len(d) : (j + 1) + i - 1 = j + i
                                /\ i \in 1..(Len(msvPushed) - (j + 1) + 1)
      BY <2>1, <3>2, <3>4
    <3> QED
      BY <3>3, <3>4, <3>5
  <2>7. Len(s) <= Len(d) /\ Len(s) \in Nat /\ Len(d) \in Nat /\ Len(q) \in Nat
    BY <2>1, <2>3, <2>6
  <2>8. IsPrefix(s, d)
    <3>1. \A i \in 1..Len(s) : i \in DOMAIN s /\ i \in 1..Len(d) /\ s[i] = d[i]
      <4>1. DOMAIN s = 1..Len(s) /\ \A i \in 1..Len(s) : i \in 1..Len(d)
        BY <2>7
      <4> QED
        BY <2>3, <2>6, <4>1
    <3>2. SubSeq(s, 1, Len(s)) = [i \in 1..Len(s) |-> s[i]]
      BY <2>7
    <3>3. SubSeq(d, 1, Len(s)) = [i \in 1..Len(s) |-> d[i]]
      BY <2>7
    <3> QED
      BY <2>7, <3>1, <3>2, <3>3 DEF IsPrefix
  <2>9. ASSUME me.at = "wait", l \in Registered PROVE s \o q = d
    <3>1. Len(s) + Len(q) = Len(d)
      BY <2>1, <2>3, <2>6, <2>7, <2>9
    <3>2. \A i \in 1..Len(d) : i \in DOMAIN s \/ (i - Len(s) \in DOMAIN q /\ i \notin DOMAIN s)
      BY <2>7, <3>1
    <3>3. \A i \in 1..Len(d) : (s \o q)[i] = d[i]
      <4> TAKE i \in 1..Len(d)
      <4>1. CASE i \in DOMAIN s
        <5>1. (s \o q)[i] = s[i]
          BY <4>1
        <5> QED
          BY <2>3, <2>6, <4>1, <5>1
      <4>2. CASE i \notin DOMAIN s
        <5>1. i - Len(s) \in DOMAIN q /\ (s \o q)[i] = q[i - Len(s)]
          BY <2>7, <3>1, <3>2, <4>2
        <5>2. j + Len(s) + (i - Len(s)) = j + i
          BY <2>7
        <5> QED
          BY <2>3, <2>6, <2>9, <5>1, <5>2
      <4> QED
        BY <4>1, <4>2
    <3>4. s \o q \in Seq(Nat) /\ Len(s \o q) = Len(d)
      BY <3>1
    <3> QED
      BY <2>6, <3>3, <3>4, SeqEqual
  <2> QED
    BY <2>2, <2>4, <2>8, <2>9
<1> QED
  BY <1>1, EventInvariant, PTL
=============================================================================
