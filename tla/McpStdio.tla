------------------------------ MODULE McpStdio -------------------------------
(* src/src/stdlib/mcp_client_ffi.rs, a connection to an MCP server that is a *)
(* child process: callers write requests to its standard input, one thread  *)
(* reads its standard output and files the answers by their numbers.        *)
(*                                                                          *)
(* A step is a region under a mutex, or one access to a pipe.  The mutex of *)
(* the child is a variable: a write waits for room in the pipe with it.     *)
(* The server is external: it always reads its input, answers in any order  *)
(* and sends requests of its own.  A line of it that is not UTF-8 ends the  *)
(* reading, with the server at work.                                        *)
EXTENDS Callers, Integers, Sequences, FiniteSets

CONSTANTS
    McpPipe,        \* messages that fit into the server's input
    McpNotes,       \* MAX_NOTIFICATIONS in the code
    MaxRequests,    \* bound: requests, the handshake included
    MaxServerSends  \* bound: what else the server writes

ASSUME McpAssumption ==
    /\ McpPipe \in Nat \ {0} /\ McpNotes \in Nat \ {0}
    /\ MaxRequests \in Nat /\ MaxServerSends \in Nat

Requests == 1..MaxRequests

VARIABLES
    mcpOpen,        \* the connection is in the registry
    mcpServer,      \* "none", "runs" or "gone"
    mcpNextId,
    mcpInput,       \* messages in the server's input: numbers, or 0 for others
    mcpAsked,       \* requests the server has read and not answered
    mcpOutput,      \* messages in its output: an answer's number, or "ask",
                    \*   a request of its own, "note", or "bad", a line that is
                    \*   not UTF-8
    mcpSends,
    mcpResponses,   \* numbers of the answers that were filed
    mcpKept,        \* notifications kept
    mcpChild,       \* holder of the child's mutex
    mcpReader,      \* the reading thread's position; "eof" once the flag is raised
    mcpThread       \* of each thread: position, kind of call, number, outcome

mcpVars == <<mcpOpen, mcpServer, mcpNextId, mcpInput, mcpAsked, mcpOutput,
             mcpSends, mcpResponses, mcpKept, mcpChild, mcpReader, mcpThread>>
mcpPeer == <<mcpServer, mcpAsked, mcpOutput, mcpSends>>
mcpFiles == <<mcpResponses, mcpKept, mcpReader>>

\* The thread that reads holds the child's mutex when it replies.
Reader == "reader"

McpIdle == [at |-> "idle", op |-> "request", id |-> 0, told |-> "nothing"]

McpInit ==
    /\ mcpOpen = FALSE /\ mcpServer = "none" /\ mcpNextId = 1
    /\ mcpInput = <<>> /\ mcpAsked = {} /\ mcpOutput = <<>> /\ mcpSends = 0
    /\ mcpResponses = {} /\ mcpKept = 0
    /\ mcpChild = None /\ mcpReader = "none"
    /\ mcpThread = [t \in Threads |-> McpIdle]

McpAt(t, p) == mcpThread[t].at = p

McpGo(t, p) == mcpThread' = [mcpThread EXCEPT ![t].at = p]

McpReturns(t, what) ==
    mcpThread' = [mcpThread EXCEPT ![t].at = "idle", ![t].told = what]

-----------------------------------------------------------------------------
(* connect_stdio, request and close.                                        *)

\* The child and the reading thread start; then the handshake, a request.
McpConnect(t) ==
    /\ McpAt(t, "idle") /\ mcpServer = "none" /\ mcpNextId <= MaxRequests
    /\ mcpServer' = "runs" /\ mcpReader' = "read"
    /\ mcpNextId' = mcpNextId + 1
    /\ mcpThread' = [mcpThread EXCEPT ![t] =
           [at |-> "lock", op |-> "connect", id |-> mcpNextId, told |-> "nothing"]]
    /\ UNCHANGED <<mcpOpen, mcpInput, mcpAsked, mcpOutput, mcpSends, mcpResponses,
                   mcpKept, mcpChild>>

McpRequest(t) ==
    /\ McpAt(t, "idle") /\ mcpOpen /\ mcpNextId <= MaxRequests
    /\ mcpNextId' = mcpNextId + 1
    /\ mcpThread' = [mcpThread EXCEPT ![t] =
           [at |-> "lock", op |-> "request", id |-> mcpNextId, told |-> "nothing"]]
    /\ UNCHANGED <<mcpOpen, mcpInput, mcpPeer, mcpFiles, mcpChild>>

McpLock(t) ==
    /\ McpAt(t, "lock") /\ mcpChild = None
    /\ mcpChild' = t
    /\ McpGo(t, "write")
    /\ UNCHANGED <<mcpOpen, mcpNextId, mcpInput, mcpPeer, mcpFiles>>

HasRoom == Len(mcpInput) < McpPipe

\* The write waits for room; it fails when the server is gone.
McpWrite(t) ==
    /\ McpAt(t, "write")
    /\ \/ /\ mcpServer = "runs" /\ HasRoom
          /\ mcpInput' = Append(mcpInput, mcpThread[t].id)
          /\ McpGo(t, "poll")
       \/ /\ mcpServer = "gone"
          /\ McpReturns(t, "refused") /\ UNCHANGED mcpInput
    /\ mcpChild' = None
    /\ UNCHANGED <<mcpOpen, mcpNextId, mcpPeer, mcpFiles>>

\* stdio_wait_response: the answer is taken out; after a handshake the
\* connection still says that it is ready.
Answered(t) ==
    /\ mcpThread[t].id \in mcpResponses
    /\ mcpResponses' = mcpResponses \ {mcpThread[t].id}
    /\ IF mcpThread[t].op = "connect" THEN McpGo(t, "ready lock")
       ELSE McpReturns(t, "answer")

\* A look; whoever finds nothing sees whether the output has ended.
McpPoll(t) ==
    /\ McpAt(t, "poll")
    /\ \/ Answered(t)
       \/ /\ mcpThread[t].id \notin mcpResponses
          /\ McpGo(t, "ended") /\ UNCHANGED mcpResponses
    /\ UNCHANGED <<mcpOpen, mcpNextId, mcpInput, mcpPeer, mcpKept, mcpReader, mcpChild>>

\* It has not: again, or the time is up.
McpPollAgain(t) ==
    /\ McpAt(t, "ended") /\ mcpReader # "eof"
    /\ McpGo(t, "poll")
    /\ UNCHANGED <<mcpOpen, mcpNextId, mcpInput, mcpPeer, mcpFiles, mcpChild>>

McpTimesOut(t) ==
    /\ McpAt(t, "ended") /\ mcpReader # "eof"
    /\ McpReturns(t, "timeout")
    /\ UNCHANGED <<mcpOpen, mcpNextId, mcpInput, mcpPeer, mcpFiles, mcpChild>>

\* It has: a last look.
McpEnded(t) ==
    /\ McpAt(t, "ended") /\ mcpReader = "eof"
    /\ \/ Answered(t)
       \/ /\ mcpThread[t].id \notin mcpResponses
          /\ McpReturns(t, "end") /\ UNCHANGED mcpResponses
    /\ UNCHANGED <<mcpOpen, mcpNextId, mcpInput, mcpPeer, mcpKept, mcpReader, mcpChild>>

\* notifications/initialized, and the connection has its handle.
McpReady(t) ==
    /\ \/ /\ McpAt(t, "ready lock") /\ mcpChild = None
          /\ mcpChild' = t /\ McpGo(t, "ready") /\ UNCHANGED <<mcpOpen, mcpInput>>
       \/ /\ McpAt(t, "ready") /\ (mcpServer = "gone" \/ HasRoom)
          /\ mcpInput' = IF mcpServer = "gone" THEN mcpInput ELSE Append(mcpInput, 0)
          /\ mcpChild' = None /\ mcpOpen' = TRUE /\ McpReturns(t, "answer")
    /\ UNCHANGED <<mcpNextId, mcpPeer, mcpFiles>>

\* close takes the connection out of the registry, then kills the child.
McpClose(t) ==
    /\ McpAt(t, "idle") /\ mcpOpen
    /\ mcpOpen' = FALSE
    /\ mcpThread' = [mcpThread EXCEPT ![t].at = "kill", ![t].told = "nothing"]
    /\ UNCHANGED <<mcpNextId, mcpInput, mcpPeer, mcpFiles, mcpChild>>

McpKill(t) ==
    /\ McpAt(t, "kill") /\ mcpChild = None
    /\ mcpServer' = "gone"
    /\ McpReturns(t, "nothing")
    /\ UNCHANGED <<mcpOpen, mcpNextId, mcpInput, mcpAsked, mcpOutput, mcpSends,
                   mcpFiles, mcpChild>>

McpDrainNotes(t) ==
    /\ McpAt(t, "idle") /\ mcpOpen /\ mcpChild = None /\ mcpKept > 0
    /\ mcpKept' = 0
    /\ UNCHANGED <<mcpOpen, mcpNextId, mcpInput, mcpPeer, mcpResponses, mcpReader,
                   mcpChild, mcpThread>>

-----------------------------------------------------------------------------
(* The reading thread: route_inbound_stdio, handle_server_request.          *)

NextIsBroken == mcpOutput # <<>> /\ Head(mcpOutput).kind = "bad"

\* Nothing more can be read.
OutputEnds ==
    \/ mcpServer = "gone" /\ mcpOutput = <<>>
    \/ NextIsBroken

McpRoute ==
    /\ mcpReader = "read" /\ mcpOutput # <<>> /\ ~NextIsBroken
    /\ mcpOutput' = Tail(mcpOutput)
    /\ LET m == Head(mcpOutput)
       IN  CASE m.kind = "ask" -> /\ mcpReader' = "reply lock"
                                  /\ UNCHANGED <<mcpResponses, mcpKept>>
             [] m.kind = "note" -> /\ mcpKept' = IF mcpKept < McpNotes
                                                 THEN mcpKept + 1 ELSE mcpKept
                                   /\ UNCHANGED <<mcpResponses, mcpReader>>
             [] m.kind = "answer" -> /\ mcpResponses' = mcpResponses \cup {m.id}
                                     /\ UNCHANGED <<mcpKept, mcpReader>>
    /\ UNCHANGED <<mcpOpen, mcpServer, mcpNextId, mcpInput, mcpAsked, mcpSends,
                   mcpChild, mcpThread>>

\* The reply to the server goes the way of the requests.
McpReply ==
    /\ \/ /\ mcpReader = "reply lock" /\ mcpChild = None
          /\ mcpChild' = Reader /\ mcpReader' = "reply" /\ UNCHANGED mcpInput
       \/ /\ mcpReader = "reply" /\ (mcpServer = "gone" \/ HasRoom)
          /\ mcpInput' = IF mcpServer = "gone" THEN mcpInput ELSE Append(mcpInput, 0)
          /\ mcpChild' = None /\ mcpReader' = "read"
    /\ UNCHANGED <<mcpOpen, mcpNextId, mcpPeer, mcpResponses, mcpKept, mcpThread>>

\* Wrong variant: the thread leaves without a word.
McpEofSilent ==
    /\ mcpReader = "read" /\ OutputEnds
    /\ mcpReader' = "over"
    /\ UNCHANGED <<mcpOpen, mcpNextId, mcpInput, mcpPeer, mcpResponses, mcpKept,
                   mcpChild, mcpThread>>

\* The flag is raised when everything the server wrote has been routed, or what
\* it wrote before a line that is not UTF-8.
McpEof ==
    /\ mcpReader = "read" /\ OutputEnds
    /\ mcpReader' = "eof"
    /\ UNCHANGED <<mcpOpen, mcpNextId, mcpInput, mcpPeer, mcpResponses, mcpKept,
                   mcpChild, mcpThread>>

-----------------------------------------------------------------------------
(* The server.                                                              *)
ServerReads ==
    /\ mcpServer = "runs" /\ mcpInput # <<>>
    /\ mcpInput' = Tail(mcpInput)
    /\ mcpAsked' = mcpAsked \cup ({Head(mcpInput)} \ {0})
    /\ UNCHANGED <<mcpOpen, mcpServer, mcpNextId, mcpOutput, mcpSends, mcpFiles,
                   mcpChild, mcpThread>>

\* Nothing is written once the reader has left: the pipe is closed.
ServerWrites ==
    /\ mcpServer = "runs" /\ mcpReader # "eof"
    /\ \/ \E r \in mcpAsked :
             /\ mcpOutput' = Append(mcpOutput, [kind |-> "answer", id |-> r])
             /\ mcpAsked' = mcpAsked \ {r}
             /\ UNCHANGED mcpSends
       \/ /\ mcpSends < MaxServerSends /\ mcpSends' = mcpSends + 1
          /\ \E k \in {"ask", "note", "bad"} :
                mcpOutput' = Append(mcpOutput, [kind |-> k, id |-> 0])
          /\ UNCHANGED mcpAsked
    /\ UNCHANGED <<mcpOpen, mcpServer, mcpNextId, mcpInput, mcpFiles, mcpChild,
                   mcpThread>>

ServerExits ==
    /\ mcpServer = "runs"
    /\ mcpServer' = "gone"
    /\ UNCHANGED <<mcpOpen, mcpNextId, mcpInput, mcpAsked, mcpOutput, mcpSends,
                   mcpFiles, mcpChild, mcpThread>>

-----------------------------------------------------------------------------
McpReads == McpRoute \/ McpReply \/ McpEof

McpRuns(t) ==
    \/ McpLock(t) \/ McpWrite(t) \/ McpPoll(t) \/ McpPollAgain(t) \/ McpEnded(t)
    \/ McpReady(t) \/ McpKill(t)

McpNext ==
    \/ \E t \in Threads :
          \/ McpConnect(t) \/ McpRequest(t) \/ McpClose(t) \/ McpDrainNotes(t)
          \/ McpTimesOut(t) \/ McpRuns(t)
    \/ McpReads \/ ServerReads \/ ServerWrites \/ ServerExits

-----------------------------------------------------------------------------
McpMessages == [kind : {"ask", "note", "bad"}, id : {0}]
               \cup [kind : {"answer"}, id : Requests]

McpTypes ==
    /\ mcpOpen \in BOOLEAN /\ mcpServer \in {"none", "runs", "gone"}
    /\ mcpInput \in Seq(Requests \cup {0}) /\ Len(mcpInput) <= McpPipe
    /\ mcpAsked \cup mcpResponses \subseteq Requests
    /\ mcpOutput \in Seq(McpMessages)
    /\ mcpKept \in 0..McpNotes
    /\ mcpChild \in Threads \cup {None, Reader}
    /\ mcpReader \in {"none", "read", "reply lock", "reply", "eof"}
    /\ \A t \in Threads :
          /\ mcpThread[t].op \in {"connect", "request"}
          /\ mcpThread[t].told \in {"nothing", "answer", "refused", "timeout", "end"}

Written(r) == \E i \in DOMAIN mcpOutput : mcpOutput[i].id = r

\* A caller returns, long before its time is up, once the server has answered
\* or is gone, whatever the server asks meanwhile: the reading thread can take
\* the child's mutex although callers wait (mcp_client_ffi.rs:586).
AnswersReach ==
    \A t \in Threads :
        /\ mcpThread[t].at \in {"lock", "write", "poll", "ended"}
        /\ \/ mcpServer = "gone" \/ Written(mcpThread[t].id)
           \/ mcpThread[t].id \in mcpResponses
        ~> mcpThread[t].at \notin {"lock", "write", "poll", "ended"}

\* "最后再检查一次" (mcp_client_ffi.rs:612): a caller is told that the output has
\* ended only if its answer was not in it, or stands behind a line that is not
\* UTF-8, where the reading ended.
NoAnswerLost ==
    \A t \in Threads : McpAt(t, "idle") /\ mcpThread[t].told = "end" =>
        /\ mcpThread[t].id \notin mcpResponses
        /\ Written(mcpThread[t].id) => NextIsBroken
=============================================================================
