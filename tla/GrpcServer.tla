----------------------------- MODULE GrpcServer ------------------------------
(* src/src/io/grpc_ffi.rs: the calls of one server.  A stream that arrives   *)
(* is queued for the program at once; its reading leg moves the client's     *)
(* messages to a queue, its writing leg moves the program's answers to the   *)
(* client and watches the deadline and the client's reset.                   *)
(*                                                                           *)
(* A step is a region under one mutex, an access to a flag or a step of a    *)
(* leg.  The mutex of PENDING_CALLS is a variable: a send waits with it.     *)
(* Methods of the reflection service are answered in place and are left out. *)
EXTENDS Callers, Integers, Sequences

CONSTANTS
    GrpcUsers,      \* the program's threads that use the server
    GrpcQueueLimit, \* QUEUE_LIMIT in the code
    OutboundDepth,  \* OUTBOUND_DEPTH
    MaxCalls,       \* bound: streams that arrive
    MaxReceived,    \* bound: messages of one client
    MaxSends        \* bound: answers the program sends on one call

ASSUME GrpcServerAssumption ==
    /\ GrpcUsers \subseteq Threads
    /\ GrpcQueueLimit \in Nat \ {0} /\ OutboundDepth \in Nat \ {0}
    /\ MaxCalls \in Nat /\ MaxReceived \in Nat /\ MaxSends \in Nat

GrpCalls == 1..MaxCalls

VARIABLES
    grpServing,     \* the server is in the registry
    grpMade,        \* streams that arrived
    grpQueue,       \* calls nobody has accepted
    grpPending,     \* the calls of PENDING_CALLS
    grpTable,       \* holder of its mutex
    grpDue,         \* calls with an entry in DEADLINES
    grpClient,      \* of each call, the client: "open", "half" closed, "bad":
                    \*   its last message is refused, or "reset"
    grpSent,        \* messages the client has sent
    grpIn,          \* the reading leg: position, messages queued and taken,
                    \*   and the flags
    grpLeg,         \* the writing leg: position
    grpOutbox,      \* answers on their way to the writing leg
    grpTold,        \* the status the client was told
    grpRefused,     \* a stream was refused: the queue was full
    grpHanded,      \* calls that were accepted
    grpSends,       \* answers the program has sent on each call
    grpThread       \* of each thread: position, call, and what it was told

grpVars == <<grpServing, grpMade, grpQueue, grpPending, grpTable, grpDue, grpClient,
             grpSent, grpIn, grpLeg, grpOutbox, grpTold, grpRefused, grpHanded,
             grpSends, grpThread>>
grpQueued == <<grpServing, grpMade, grpQueue, grpRefused, grpHanded>>
grpPeer == <<grpClient, grpSent>>
grpWrites == <<grpDue, grpLeg, grpTold>>

NoInbound == [at |-> "none", queued |-> 0, taken |-> 0,
              aborted |-> FALSE, bad |-> FALSE, ended |-> FALSE]

GrpIdle == [at |-> "idle", on |-> 0, told |-> "nothing"]

GrpInit ==
    /\ grpServing = TRUE /\ grpMade = 0 /\ grpQueue = <<>>
    /\ grpPending = {} /\ grpTable = None /\ grpDue = {}
    /\ grpClient = [c \in GrpCalls |-> "open"] /\ grpSent = [c \in GrpCalls |-> 0]
    /\ grpIn = [c \in GrpCalls |-> NoInbound]
    /\ grpLeg = [c \in GrpCalls |-> "none"] /\ grpOutbox = [c \in GrpCalls |-> <<>>]
    /\ grpTold = [c \in GrpCalls |-> "nothing"] /\ grpRefused = FALSE
    /\ grpHanded = {} /\ grpSends = [c \in GrpCalls |-> 0]
    /\ grpThread = [t \in Threads |-> GrpIdle]

GrpAt(t, p) == grpThread[t].at = p

GrpGo(t, p) == grpThread' = [grpThread EXCEPT ![t].at = p, ![t].told = "nothing"]

\* Of what a thread was told only the end of a call is kept.
GrpReturns(t) == grpThread' = [grpThread EXCEPT ![t] = GrpIdle]

GrpTells(t, what) ==
    grpThread' = [grpThread EXCEPT ![t].at = "idle", ![t].told = what]

-----------------------------------------------------------------------------
(* serve_stream.                                                             *)

\* A stream is queued when its head has come, or refused; stop or not, an old
\* connection brings new ones.
GrpArrives ==
    /\ grpMade < MaxCalls /\ Len(grpQueue) < GrpcQueueLimit /\ grpTable = None
    /\ grpMade' = grpMade + 1
    /\ grpPending' = grpPending \cup {grpMade'} /\ grpQueue' = Append(grpQueue, grpMade')
    /\ grpIn' = [grpIn EXCEPT ![grpMade'].at = "reads"]
    /\ grpLeg' = [grpLeg EXCEPT ![grpMade'] = "dispatched"]
    /\ UNCHANGED <<grpServing, grpTable, grpDue, grpPeer, grpOutbox, grpTold, grpRefused,
                   grpHanded, grpSends, grpThread>>

GrpRefuses ==
    /\ Len(grpQueue) >= GrpcQueueLimit
    /\ grpRefused' = TRUE
    /\ UNCHANGED <<grpServing, grpMade, grpQueue, grpPending, grpTable, grpPeer, grpIn,
                   grpWrites, grpOutbox, grpHanded, grpSends, grpThread>>

\* The client, external: messages, the end of its side, or its reset.
GrpClientActs(c) ==
    /\ grpLeg[c] \notin {"none", "over"}
    /\ \/ /\ grpClient[c] = "open" /\ grpSent[c] < MaxReceived
          /\ grpSent' = [grpSent EXCEPT ![c] = @ + 1] /\ UNCHANGED grpClient
       \/ /\ grpClient[c] = "open"
          /\ \E e \in {"half", "bad"} : grpClient' = [grpClient EXCEPT ![c] = e]
          /\ UNCHANGED grpSent
       \/ /\ grpClient[c] # "reset"
          /\ grpClient' = [grpClient EXCEPT ![c] = "reset"] /\ UNCHANGED grpSent
    /\ UNCHANGED <<grpQueued, grpPending, grpTable, grpIn, grpWrites, grpOutbox,
                   grpSends, grpThread>>

GrpReaderFrame ==
    UNCHANGED <<grpQueued, grpPending, grpTable, grpPeer, grpWrites, grpOutbox,
                grpSends, grpThread>>

GrpReads(c) ==
    /\ grpIn[c].at = "reads" /\ grpIn[c].queued < grpSent[c]
    /\ grpIn' = [grpIn EXCEPT ![c].queued = @ + 1]
    /\ GrpReaderFrame

\* Why there will be no more: the connection's error comes before what was
\* not read; a message that is too long or packed in an unknown way is noted.
GrpReadFails(c) ==
    /\ grpIn[c].at = "reads"
    /\ \/ grpClient[c] = "half" /\ grpIn[c].queued = grpSent[c]
          /\ grpIn' = [grpIn EXCEPT ![c].at = "ends"]
       \/ grpClient[c] = "bad" /\ grpIn[c].queued = grpSent[c]
          /\ grpIn' = [grpIn EXCEPT ![c].at = "ends", ![c].bad = TRUE]
       \/ grpClient[c] = "reset"
          /\ grpIn' = [grpIn EXCEPT ![c].at = "ends", ![c].aborted = TRUE]
    /\ GrpReaderFrame

GrpReadEnds(c) ==
    /\ grpIn[c].at = "ends"
    /\ grpIn' = [grpIn EXCEPT ![c].at = "over", ![c].ended = TRUE]
    /\ GrpReaderFrame

GrpSetsDeadline(c) ==
    /\ grpLeg[c] = "dispatched"
    /\ grpDue' = grpDue \cup {c}
    /\ grpLeg' = [grpLeg EXCEPT ![c] = "writes"]
    /\ UNCHANGED <<grpQueued, grpPending, grpTable, grpPeer, grpIn, grpOutbox, grpTold,
                   grpSends, grpThread>>

GrpLegFrame ==
    UNCHANGED <<grpQueued, grpTable, grpPeer, grpSends, grpThread>>

\* The leg is over, and with it the receiving end of its channel.
GrpOver(c, what) ==
    /\ grpLeg' = [grpLeg EXCEPT ![c] = "over"]
    /\ grpOutbox' = [grpOutbox EXCEPT ![c] = <<>>]
    /\ grpTold' = [grpTold EXCEPT ![c] = what]

\* An answer is written; to a client that has gone it may fail, and then the
\* call stays in both tables.
GrpWrites(c) ==
    /\ grpLeg[c] = "writes" /\ grpOutbox[c] # <<>> /\ Head(grpOutbox[c]) = "data"
    /\ \/ /\ grpOutbox' = [grpOutbox EXCEPT ![c] = Tail(@)]
          /\ UNCHANGED <<grpLeg, grpTold>>
       \/ grpClient[c] = "reset" /\ GrpOver(c, "nothing")
    /\ UNCHANGED <<grpPending, grpDue, grpIn>> /\ GrpLegFrame

\* An answer that is too long is not written: it ends the call.
GrpTooLong(c) ==
    /\ grpLeg[c] = "writes" /\ grpOutbox[c] # <<>> /\ Head(grpOutbox[c]) = "data"
    /\ grpDue' = grpDue \ {c}
    /\ grpLeg' = [grpLeg EXCEPT ![c] = "exhausted"]
    /\ grpOutbox' = [grpOutbox EXCEPT ![c] = Tail(@)]
    /\ UNCHANGED <<grpPending, grpIn, grpTold>> /\ GrpLegFrame

\* finish: a refused message decides the status, whatever the program says.
GrpWritesStatus(c) ==
    /\ grpLeg[c] = "writes" /\ grpOutbox[c] # <<>> /\ Head(grpOutbox[c]) = "finish"
    /\ grpDue' = grpDue \ {c}
    /\ GrpOver(c, IF grpIn[c].bad THEN "refused" ELSE "status")
    /\ UNCHANGED <<grpPending, grpIn>> /\ GrpLegFrame

\* Wrong variant: the clock counts once the client has sent everything.
GrpExpiresAfterHalf(c) ==
    /\ grpLeg[c] = "writes" /\ grpIn[c].ended
    /\ grpDue' = grpDue \ {c}
    /\ grpLeg' = [grpLeg EXCEPT ![c] = "expired"]
    /\ UNCHANGED <<grpPending, grpIn, grpOutbox, grpTold>> /\ GrpLegFrame

\* The deadline passes, also while answers wait.
GrpExpires(c) ==
    /\ grpLeg[c] = "writes"
    /\ grpDue' = grpDue \ {c}
    /\ grpLeg' = [grpLeg EXCEPT ![c] = "expired"]
    /\ UNCHANGED <<grpPending, grpIn, grpOutbox, grpTold>> /\ GrpLegFrame

GrpSeesReset(c) ==
    /\ grpLeg[c] = "writes" /\ grpClient[c] = "reset"
    /\ grpIn' = [grpIn EXCEPT ![c].aborted = TRUE]
    /\ grpDue' = grpDue \ {c}
    /\ grpLeg' = [grpLeg EXCEPT ![c] = "given up"]
    /\ UNCHANGED <<grpPending, grpOutbox, grpTold>> /\ GrpLegFrame

\* Each way the leg takes the call out of the table itself, and then tells.
GrpUnregisters(c) ==
    /\ grpLeg[c] \in {"expired", "given up", "exhausted"} /\ grpTable = None
    /\ grpPending' = grpPending \ {c}
    /\ GrpOver(c, CASE grpLeg[c] = "expired" -> "deadline"
                    [] grpLeg[c] = "exhausted" -> "exhausted"
                    [] OTHER -> "nothing")
    /\ UNCHANGED <<grpDue, grpIn>> /\ GrpLegFrame

-----------------------------------------------------------------------------
(* The program.                                                              *)
GrpThreadFrame == UNCHANGED <<grpPeer, grpWrites>>

\* accept has found the server: it may outlast a stop.
GrpAccept(t) ==
    /\ GrpAt(t, "idle") /\ grpServing
    /\ GrpGo(t, "accept")
    /\ UNCHANGED <<grpQueued, grpPending, grpTable, grpIn, grpOutbox, grpSends>>
    /\ GrpThreadFrame

\* A queued call, one that is over maybe; or none when the time is up.
GrpAccepts(t) ==
    /\ GrpAt(t, "accept")
    /\ GrpGo(t, "idle")
    /\ IF grpQueue = <<>> THEN UNCHANGED <<grpQueue, grpHanded>>
       ELSE grpQueue' = Tail(grpQueue) /\ grpHanded' = grpHanded \cup {Head(grpQueue)}
    /\ UNCHANGED <<grpServing, grpMade, grpRefused, grpPending, grpTable, grpIn, grpOutbox,
                   grpSends>>
    /\ GrpThreadFrame

\* A call on a call begins with a look into the table.
GrpLooksUp(t, c, found) ==
    /\ GrpAt(t, "idle") /\ grpTable = None
    /\ grpThread' = [grpThread EXCEPT ![t] =
          IF c \in grpPending THEN [GrpIdle EXCEPT !.at = found, !.on = c] ELSE GrpIdle]
    /\ UNCHANGED <<grpQueued, grpIn, grpOutbox>> /\ GrpThreadFrame

GrpRecv(t, c) ==
    /\ GrpLooksUp(t, c, "recv")
    /\ UNCHANGED <<grpPending, grpTable, grpSends>>

GrpTakes(t) ==
    LET c == grpThread[t].on
    IN  /\ grpIn[c].taken < grpIn[c].queued
        /\ grpIn' = [grpIn EXCEPT ![c].taken = @ + 1]
        /\ GrpReturns(t)

\* recv with the queue's mutex: a message, the end, or one wait.
GrpRecvLooks(t) ==
    LET c == grpThread[t].on
    IN  /\ GrpAt(t, "recv")
        /\ \/ GrpTakes(t)
           \/ /\ grpIn[c].taken = grpIn[c].queued /\ UNCHANGED grpIn
              /\ IF grpIn[c].ended THEN GrpTells(t, "end") ELSE GrpGo(t, "recv wait")
        /\ UNCHANGED <<grpQueued, grpPending, grpTable, grpOutbox, grpSends>>
        /\ GrpThreadFrame

\* A notification or the end of the time, and the second look is the last.
GrpRecvWoken(t) ==
    LET c == grpThread[t].on
    IN  /\ GrpAt(t, "recv wait")
        /\ \/ GrpTakes(t)
           \/ /\ grpIn[c].taken = grpIn[c].queued /\ UNCHANGED grpIn
              /\ IF grpIn[c].ended THEN GrpTells(t, "end") ELSE GrpReturns(t)
        /\ UNCHANGED <<grpQueued, grpPending, grpTable, grpOutbox, grpSends>>
        /\ GrpThreadFrame

\* send keeps the table while it waits for room.
GrpSend(t, c) ==
    /\ GrpLooksUp(t, c, "send") /\ grpSends[c] < MaxSends
    /\ grpTable' = IF c \in grpPending THEN t ELSE None
    /\ UNCHANGED <<grpPending, grpSends>>

\* An answer enters the channel when there is room, or its other end is gone.
GrpPut(t, item) ==
    LET c == grpThread[t].on
    IN  \/ /\ grpLeg[c] # "over" /\ Len(grpOutbox[c]) < OutboundDepth
           /\ grpOutbox' = [grpOutbox EXCEPT ![c] = Append(@, item)]
           /\ GrpReturns(t)
        \/ grpLeg[c] = "over" /\ GrpReturns(t) /\ UNCHANGED grpOutbox

GrpSends(t) ==
    /\ GrpAt(t, "send") /\ GrpPut(t, "data")
    /\ grpTable' = None
    /\ grpSends' = [grpSends EXCEPT ![grpThread[t].on] = @ + 1]
    /\ UNCHANGED <<grpQueued, grpPending, grpIn>> /\ GrpThreadFrame

\* finish takes the call out of the table and then waits for room without it.
GrpFinish(t, c) ==
    /\ GrpLooksUp(t, c, "finish")
    /\ grpPending' = grpPending \ {c}
    /\ UNCHANGED <<grpTable, grpSends>>

GrpFinishes(t) ==
    /\ GrpAt(t, "finish") /\ GrpPut(t, "finish")
    /\ UNCHANGED <<grpQueued, grpPending, grpTable, grpIn, grpSends>> /\ GrpThreadFrame

GrpStop(t) ==
    /\ GrpAt(t, "idle") /\ grpServing
    /\ grpServing' = FALSE
    /\ GrpGo(t, "stop")
    /\ UNCHANGED <<grpMade, grpQueue, grpRefused, grpHanded, grpPending, grpTable,
                   grpIn, grpOutbox, grpSends>>
    /\ GrpThreadFrame

\* stop polls the table until it is empty or the time is up; a call whose status
\* waits in the outbox is no longer there.
GrpStops(t) ==
    /\ GrpAt(t, "stop") /\ grpTable = None
    /\ GrpReturns(t)
    /\ UNCHANGED <<grpQueued, grpPending, grpTable, grpIn, grpOutbox, grpSends>>
    /\ GrpThreadFrame

-----------------------------------------------------------------------------
GrpLegRuns(c) ==
    \/ GrpSetsDeadline(c) \/ GrpWrites(c) \/ GrpTooLong(c) \/ GrpWritesStatus(c)
    \/ GrpExpires(c) \/ GrpSeesReset(c) \/ GrpUnregisters(c)

GrpReaderRuns(c) == GrpReads(c) \/ GrpReadFails(c) \/ GrpReadEnds(c)

GrpRuns(t) ==
    \/ GrpAccepts(t) \/ GrpRecvLooks(t) \/ GrpRecvWoken(t) \/ GrpSends(t)
    \/ GrpFinishes(t) \/ GrpStops(t)

GrpNext ==
    \/ \E t \in GrpcUsers :
          \/ GrpAccept(t) \/ GrpStop(t) \/ GrpRuns(t)
          \/ \E c \in grpHanded : GrpRecv(t, c) \/ GrpSend(t, c) \/ GrpFinish(t, c)
    \/ \E c \in GrpCalls : GrpLegRuns(c) \/ GrpReaderRuns(c) \/ GrpClientActs(c)
    \/ GrpArrives \/ GrpRefuses

-----------------------------------------------------------------------------
GrpTypes ==
    /\ grpServing \in BOOLEAN /\ grpRefused \in BOOLEAN /\ grpMade \in 0..MaxCalls
    /\ grpQueue \in Seq(GrpCalls) /\ Len(grpQueue) <= GrpcQueueLimit
    /\ grpPending \cup grpDue \cup grpHanded \subseteq GrpCalls
    /\ grpTable \in Threads \cup {None}
    /\ grpClient \in [GrpCalls -> {"open", "half", "bad", "reset"}]
    /\ grpLeg \in [GrpCalls -> {"none", "dispatched", "writes", "expired", "given up",
                                "exhausted", "over"}]
    /\ grpOutbox \in [GrpCalls -> Seq({"data", "finish"})]
    /\ grpTold \in [GrpCalls -> {"nothing", "status", "refused", "deadline", "exhausted"}]
    /\ \A t \in Threads :
          grpThread[t].at \in {"idle", "accept", "recv", "recv wait", "send",
                               "finish", "stop"}

\* "0 = this time nothing, -1 = the client has half closed" (grpc_ffi.rs:930): of
\* a call that is open a program is told the end only after it was given every message before it.
ReceivedBeforeEnd ==
    \A t \in Threads : grpThread[t].told = "end" =>
        LET in == grpIn[grpThread[t].on] IN in.ended /\ in.taken = in.queued

\* "When the time is up the runtime itself says so" (grpc_ffi.rs:642): every call
\* that was dispatched comes to an end, whatever the program does with it.
CallsTold ==
    \A c \in GrpCalls : grpLeg[c] = "dispatched" ~> grpLeg[c] = "over"
=============================================================================
