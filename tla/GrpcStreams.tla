----------------------------- MODULE GrpcStreams -----------------------------
(* src/src/io/grpc_client_ffi.rs: a stream of a gRPC client.  A task writes   *)
(* what the program sends and queues what the server sends; the program       *)
(* sends, half-closes, receives and frees as it likes.                        *)
(*                                                                            *)
(* A step is a region under the inbox's mutex, an access to the status or the *)
(* flag, or one item of a leg.  Picking a connection is in GrpcCalls; here a  *)
(* request has one.  The server (external) sends messages, numbered, and ends *)
(* the stream or breaks it; the client cannot read the message gstBad.        *)
EXTENDS Callers, Integers, Sequences

CONSTANTS
    StreamUsers,        \* the program's threads that use the stream
    StreamDepth,        \* OUTBOUND_DEPTH
    MaxStreamSends,     \* bound: messages of the program
    MaxStreamed         \* bound: messages of the server

ASSUME GrpcStreamsAssumption ==
    /\ StreamUsers \subseteq Threads /\ StreamDepth \in Nat \ {0}
    /\ MaxStreamSends \in Nat /\ MaxStreamed \in Nat

VARIABLES
    gstHandle,      \* "none", "opening", "open", or "never": it was not given
                    \*   out; "freed", or "dropped": freed, with no half-close
    gstTask,        \* "none", "starts", "runs" or "failed"
    gstOut,         \* the outbox
    gstSends,       \* messages put there
    gstWriter,      \* the writing leg: "none", "writes" or "over"
    gstServer,      \* what the server sent, whether it ended or broke the
                    \*   stream, and whether it knows that no more comes
    gstBad,
    gstReader,      \* the reading leg: position, messages read and parsed
    gstInbox, gstTaken,
    gstStatus, gstDone,
    gstThread       \* of each thread: position, and what it was told

gstVars == <<gstHandle, gstTask, gstOut, gstSends, gstWriter, gstServer, gstBad,
             gstReader, gstInbox, gstTaken, gstStatus, gstDone, gstThread>>
gstStart == <<gstHandle, gstTask, gstBad>>
gstWriting == <<gstOut, gstSends, gstWriter>>
gstReading == <<gstReader, gstStatus, gstDone>>
gstQueue == <<gstInbox, gstTaken>>

GstIdle == [at |-> "idle", told |-> "nothing"]

GstInit ==
    /\ gstHandle = "none" /\ gstTask = "none"
    /\ gstOut = <<>> /\ gstSends = 0 /\ gstWriter = "none"
    /\ gstServer = [at |-> "open", sent |-> 0, half |-> FALSE]
    /\ gstBad \in 0..MaxStreamed
    /\ gstReader = [at |-> "none", read |-> 0, parsed |-> 0]
    /\ gstInbox = <<>> /\ gstTaken = <<>> /\ gstStatus = "none" /\ gstDone = FALSE
    /\ gstThread = [t \in Threads |-> GstIdle]

GstAt(t, p) == gstThread[t].at = p
GstGo(t, p) == gstThread' = [gstThread EXCEPT ![t] = [at |-> p, told |-> "nothing"]]
GstReturns(t) == GstGo(t, "idle")

-----------------------------------------------------------------------------
(* Opening.                                                                  *)
GstOpen(t) ==
    /\ GstAt(t, "idle") /\ gstHandle = "none"
    /\ gstHandle' = "opening" /\ gstTask' = "starts" /\ GstGo(t, "open")
    /\ UNCHANGED <<gstBad, gstWriting, gstServer, gstReading, gstQueue>>

\* The task sends the head of the request, when the connection has room for it.
GstStarts ==
    /\ gstTask = "starts"
    /\ \/ /\ gstTask' = "runs" /\ gstWriter' = "writes"
          /\ gstReader' = [gstReader EXCEPT !.at = "waits"]
       \/ gstTask' = "failed" /\ UNCHANGED <<gstWriter, gstReader>>
    /\ UNCHANGED <<gstHandle, gstBad, gstOut, gstSends, gstServer, gstStatus, gstDone,
                   gstQueue, gstThread>>

\* open waits for that, for ten seconds; the task goes on without a handle.
GstOpened(t) ==
    /\ GstAt(t, "open") /\ GstReturns(t)
    /\ gstHandle' = IF gstTask = "runs" THEN "open" ELSE "never"
    /\ UNCHANGED <<gstTask, gstBad, gstWriting, gstServer, gstReading, gstQueue>>

-----------------------------------------------------------------------------
(* The two legs and the server.                                              *)
GstWriterFrame == UNCHANGED <<gstStart, gstSends, gstReading, gstQueue, gstThread>>

\* A message is written, unless the stream has broken.
GstWrites ==
    /\ gstWriter = "writes" /\ gstOut # <<>> /\ Head(gstOut) = "data"
    /\ \/ gstOut' = Tail(gstOut) /\ UNCHANGED gstWriter
       \/ gstServer.at = "broken" /\ gstOut' = <<>> /\ gstWriter' = "over"
    /\ UNCHANGED gstServer /\ GstWriterFrame

GstHalfCloses ==
    /\ gstWriter = "writes" /\ gstOut # <<>> /\ Head(gstOut) = "close"
    /\ gstOut' = <<>> /\ gstWriter' = "over"
    /\ gstServer' = [gstServer EXCEPT !.half = TRUE]
    /\ GstWriterFrame

\* Nothing more can come: the handle, the reading leg and the calls under way
\* have let go of the outbox.
GstWriterEnds ==
    /\ gstWriter = "writes" /\ gstOut = <<>>
    /\ gstHandle \in {"freed", "dropped", "never"} /\ gstReader.at = "over"
    /\ \A t \in Threads : GstAt(t, "idle")
    /\ gstWriter' = "over"
    /\ UNCHANGED <<gstOut, gstServer>> /\ GstWriterFrame

\* Once it has the request's head the server does as it likes.
GstServerActs ==
    /\ gstTask = "runs" /\ gstServer.at = "open"
    /\ \/ /\ gstServer.sent < MaxStreamed
          /\ gstServer' = [gstServer EXCEPT !.sent = @ + 1]
       \/ \E e \in {"ended", "broken"} : gstServer' = [gstServer EXCEPT !.at = e]
    /\ UNCHANGED <<gstStart, gstWriting, gstReading, gstQueue, gstThread>>

GstReaderFrame ==
    UNCHANGED <<gstStart, gstWriting, gstServer, gstTaken, gstThread>>

\* finish_stream, its first half.
GstStatusIs(s) ==
    gstStatus' = s /\ gstReader' = [gstReader EXCEPT !.at = "status"]

GstAnswered ==
    /\ gstReader.at = "waits"
    /\ \/ /\ gstServer.sent > 0 \/ gstServer.at = "ended"
          /\ gstReader' = [gstReader EXCEPT !.at = "reads"] /\ UNCHANGED gstStatus
       \/ gstServer.at = "broken" /\ GstStatusIs("unavailable")
    /\ UNCHANGED <<gstDone, gstInbox>> /\ GstReaderFrame

\* The next chunk ends with one of the messages that were sent.
GstReads ==
    /\ gstReader.at = "reads"
    /\ \E last \in (gstReader.read + 1)..gstServer.sent :
          gstReader' = [gstReader EXCEPT !.read = last, !.at = "parses"]
    /\ UNCHANGED <<gstStatus, gstDone, gstInbox>> /\ GstReaderFrame

\* What was parsed last decides whether the chunk is looked at further.
GstParsed(more) ==
    gstReader' = [gstReader EXCEPT
        !.parsed = @ + 1,
        !.at = IF more /\ gstReader.parsed + 1 < gstReader.read THEN "parses" ELSE "reads"]

GstParses ==
    /\ gstReader.at = "parses" /\ gstReader.parsed + 1 # gstBad
    /\ GstParsed(TRUE)
    /\ gstInbox' = Append(gstInbox, gstReader.parsed + 1)
    /\ UNCHANGED <<gstStatus, gstDone>> /\ GstReaderFrame

\* A message packed in a way nobody announced is dropped, and the rest of its
\* chunk waits for the next one; one that is too long ends the stream.
GstParsesBad ==
    /\ gstReader.at = "parses" /\ gstReader.parsed + 1 = gstBad
    /\ \/ GstParsed(FALSE) /\ UNCHANGED gstStatus
       \/ GstStatusIs("exhausted")
    /\ UNCHANGED <<gstDone, gstInbox>> /\ GstReaderFrame

\* No more data: the trailers, if there are any, have the status.
GstTrailers ==
    /\ gstReader.at = "reads"
    /\ \/ gstServer.at = "ended" /\ gstReader.read = gstServer.sent
          /\ GstStatusIs("told")
       \/ gstServer.at = "broken" /\ GstStatusIs("unknown")
    /\ UNCHANGED <<gstDone, gstInbox>> /\ GstReaderFrame

GstFinishes ==
    /\ gstReader.at = "status"
    /\ gstDone' = TRUE /\ gstReader' = [gstReader EXCEPT !.at = "over"]
    /\ UNCHANGED <<gstStatus, gstInbox>> /\ GstReaderFrame

-----------------------------------------------------------------------------
(* The program.                                                              *)
GstProgramFrame == UNCHANGED <<gstTask, gstBad, gstServer, gstReading>>

GstSend(t) ==
    /\ GstAt(t, "idle") /\ gstHandle = "open" /\ gstSends < MaxStreamSends
    /\ gstSends' = gstSends + 1 /\ GstGo(t, "send")
    /\ UNCHANGED <<gstHandle, gstOut, gstWriter, gstQueue>> /\ GstProgramFrame

GstCloseSend(t) ==
    /\ GstAt(t, "idle") /\ gstHandle = "open"
    /\ GstGo(t, "close send")
    /\ UNCHANGED <<gstHandle, gstWriting, gstQueue>> /\ GstProgramFrame

\* Either waits for room, or for the writing leg to end.
GstPuts(t) ==
    /\ gstThread[t].at \in {"send", "close send"} /\ GstReturns(t)
    /\ \/ /\ gstWriter # "over" /\ Len(gstOut) < StreamDepth
          /\ gstOut' = Append(gstOut, IF GstAt(t, "send") THEN "data" ELSE "close")
       \/ gstWriter = "over" /\ UNCHANGED gstOut
    /\ UNCHANGED <<gstHandle, gstSends, gstWriter, gstQueue>> /\ GstProgramFrame

GstRecv(t) ==
    /\ GstAt(t, "idle") /\ gstHandle = "open"
    /\ GstGo(t, "recv")
    /\ UNCHANGED <<gstHandle, gstWriting, gstQueue>> /\ GstProgramFrame

GstTakes(t) ==
    /\ gstInbox # <<>>
    /\ gstTaken' = Append(gstTaken, Head(gstInbox)) /\ gstInbox' = Tail(gstInbox)
    /\ GstReturns(t)

\* The end is told when there is nothing left and the flag is up.
GstToldEnd(t) ==
    /\ gstInbox = <<>> /\ gstDone
    /\ gstThread' = [gstThread EXCEPT ![t] = [at |-> "idle", told |-> "end"]]
    /\ UNCHANGED gstQueue

GstRecvLooks(t) ==
    /\ GstAt(t, "recv")
    /\ \/ GstTakes(t)
       \/ GstToldEnd(t)
       \/ gstInbox = <<>> /\ ~gstDone /\ GstGo(t, "recv wait") /\ UNCHANGED gstQueue
    /\ UNCHANGED <<gstHandle, gstWriting>> /\ GstProgramFrame

\* One wait, which ends by a notification or by the time.
GstRecvWoken(t) ==
    /\ GstAt(t, "recv wait")
    /\ \/ GstTakes(t)
       \/ GstToldEnd(t)
       \/ gstInbox = <<>> /\ ~gstDone /\ GstReturns(t) /\ UNCHANGED gstQueue
    /\ UNCHANGED <<gstHandle, gstWriting>> /\ GstProgramFrame

\* The half-close of a freed stream does not wait for room: without, it is lost.
GstFree(t) ==
    /\ GstAt(t, "idle") /\ gstHandle = "open" /\ GstReturns(t)
    /\ \/ /\ gstWriter # "over" /\ Len(gstOut) < StreamDepth
          /\ gstHandle' = "freed" /\ gstOut' = Append(gstOut, "close")
       \/ /\ gstWriter # "over" /\ Len(gstOut) = StreamDepth
          /\ gstHandle' = "dropped" /\ UNCHANGED gstOut
       \/ gstWriter = "over" /\ gstHandle' = "freed" /\ UNCHANGED gstOut
    /\ UNCHANGED <<gstSends, gstWriter, gstQueue>> /\ GstProgramFrame

-----------------------------------------------------------------------------
GstWriterRuns == GstWrites \/ GstHalfCloses \/ GstWriterEnds

GstReaderRuns ==
    \/ GstAnswered \/ GstReads \/ GstParses \/ GstParsesBad \/ GstTrailers \/ GstFinishes

GstRuns(t) == GstOpened(t) \/ GstPuts(t) \/ GstRecvLooks(t) \/ GstRecvWoken(t)

GstNext ==
    \/ \E t \in StreamUsers :
          \/ GstOpen(t) \/ GstSend(t) \/ GstCloseSend(t) \/ GstRecv(t) \/ GstFree(t)
          \/ GstRuns(t)
    \/ GstStarts \/ GstWriterRuns \/ GstReaderRuns \/ GstServerActs

-----------------------------------------------------------------------------
GstTypes ==
    /\ gstHandle \in {"none", "opening", "open", "freed", "dropped", "never"}
    /\ gstTask \in {"none", "starts", "runs", "failed"}
    /\ gstOut \in Seq({"data", "close"}) /\ Len(gstOut) <= StreamDepth
    /\ gstSends \in 0..MaxStreamSends /\ gstWriter \in {"none", "writes", "over"}
    /\ gstServer \in [at : {"open", "ended", "broken"}, sent : 0..MaxStreamed,
                      half : BOOLEAN]
    /\ gstReader \in [at : {"none", "waits", "reads", "parses", "status", "over"},
                      read : 0..MaxStreamed, parsed : 0..MaxStreamed]
    /\ gstInbox \in Seq(1..MaxStreamed) /\ gstTaken \in Seq(1..MaxStreamed)
    /\ gstStatus \in {"none", "unavailable", "exhausted", "told", "unknown"}
    /\ gstDone \in BOOLEAN
    /\ gstThread \in [Threads -> [at : {"idle", "open", "send", "close send", "recv",
                                        "recv wait"}, told : {"nothing", "end"}]]

\* "-1 = the server has ended the stream (ask for its status)"
\* (grpc_client_ffi.rs:1213): then every message was handed out, in order, but
\* for one the client cannot read and what came with it, and there is a status.
StreamReadWhole ==
    /\ \A i \in DOMAIN gstTaken : gstBad = 0 => gstTaken[i] = i
    /\ \A t \in Threads : gstThread[t].told = "end" =>
          /\ gstStatus # "none"
          /\ gstStatus = "told" /\ gstBad = 0 => Len(gstTaken) = gstServer.sent

\* "Half-closes on the way, if nobody has, lest the other side waits for ever"
\* (grpc_client_ffi.rs:1264): the server of a stream that is freed learns that
\* no more comes, or has broken it.  The comment says so of every stream; the
\* code (1273) leaves the half-close away when the outbox is full, and then the
\* writing leg, and with it the stream, ends only after the server's own end.
FreedIsClosed ==
    /\ gstHandle = "freed" ~> gstServer.half \/ gstServer.at = "broken"
    /\ gstHandle = "dropped" /\ gstReader.at = "over" ~> gstWriter = "over"
=============================================================================
