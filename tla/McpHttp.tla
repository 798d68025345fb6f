------------------------------- MODULE McpHttp -------------------------------
(* src/src/stdlib/mcp_client_ffi.rs, a connection to an MCP server over      *)
(* HTTP: one keep-alive connection, used by one caller at a time, which a    *)
(* failure replaces once per request.                                        *)
(*                                                                           *)
(* The network and the server are external: a connection delivers its        *)
(* responses in the order of its requests, or breaks, or is too slow.        *)
EXTENDS Callers, Integers, Sequences

CONSTANTS
    MaxPosts,       \* bound: requests
    MaxStreams      \* bound: connections opened

ASSUME HttpAssumption == MaxPosts \in Nat /\ MaxStreams \in Nat

Posts == 1..MaxPosts

VARIABLES
    httpOpen,       \* the connection is in the registry
    httpLock,       \* holder of the connection's mutex
    httpStream,     \* the connection in use, 0 for none
    httpStreams,    \* connections opened so far
    httpWire,       \* requests written to each connection whose response was not
                    \*   read, in order
    httpPosts,      \* requests begun
    httpThread      \* of each thread: position, request, attempt, and the request
                    \*   whose response it returned

httpVars == <<httpOpen, httpLock, httpStream, httpStreams, httpWire, httpPosts,
              httpThread>>

HttpInit ==
    /\ httpOpen = TRUE
    /\ httpLock = None /\ httpStream = 0 /\ httpStreams = 0
    /\ httpWire = [c \in 1..MaxStreams |-> <<>>]
    /\ httpPosts = 0
    /\ httpThread = [t \in Threads |->
           [at |-> "idle", post |-> 0, attempt |-> 0, got |-> 0]]

HttpAt(t, p) == httpThread[t].at = p

HttpGo(t, p) == httpThread' = [httpThread EXCEPT ![t].at = p]

\* qi_mcpc_request, or a step of the handshake.
HttpPost(t) ==
    /\ HttpAt(t, "idle") /\ httpOpen /\ httpPosts < MaxPosts
    /\ httpPosts' = httpPosts + 1
    /\ httpThread' = [httpThread EXCEPT ![t] =
           [at |-> "lock", post |-> httpPosts + 1, attempt |-> 0, got |-> 0]]
    /\ UNCHANGED <<httpOpen, httpLock, httpStream, httpStreams, httpWire>>

HttpLock(t) ==
    /\ HttpAt(t, "lock") /\ httpLock = None
    /\ httpLock' = t
    /\ HttpGo(t, "attempt")
    /\ UNCHANGED <<httpOpen, httpStream, httpStreams, httpWire, httpPosts>>

\* The end of an attempt that failed: another one, or the caller is told.
NextAttempt(t) ==
    IF httpThread[t].attempt = 0
    THEN /\ httpThread' = [httpThread EXCEPT ![t].at = "attempt", ![t].attempt = 1]
         /\ UNCHANGED httpLock
    ELSE HttpGo(t, "idle") /\ httpLock' = None

\* Without a connection a new one is opened.
HttpConnect(t) ==
    /\ HttpAt(t, "attempt") /\ httpStream = 0
    /\ \/ /\ httpStreams < MaxStreams
          /\ httpStreams' = httpStreams + 1 /\ httpStream' = httpStreams + 1
          /\ HttpGo(t, "write") /\ UNCHANGED httpLock
       \/ NextAttempt(t) /\ UNCHANGED <<httpStream, httpStreams>>
    /\ UNCHANGED <<httpOpen, httpWire, httpPosts>>

HttpReuse(t) ==
    /\ HttpAt(t, "attempt") /\ httpStream # 0
    /\ HttpGo(t, "write")
    /\ UNCHANGED <<httpOpen, httpLock, httpStream, httpStreams, httpWire, httpPosts>>

\* A request that cannot be written gives the connection up.
HttpWrite(t) ==
    /\ HttpAt(t, "write")
    /\ \/ /\ httpWire' = [httpWire EXCEPT ![httpStream] = Append(@, httpThread[t].post)]
          /\ HttpGo(t, "read") /\ UNCHANGED <<httpLock, httpStream>>
       \/ NextAttempt(t) /\ httpStream' = 0 /\ UNCHANGED httpWire
    /\ UNCHANGED <<httpOpen, httpStreams, httpPosts>>

\* Exactly one response is read, the first there is.
HttpRead(t) ==
    /\ HttpAt(t, "read")
    /\ httpWire' = [httpWire EXCEPT ![httpStream] = Tail(@)]
    /\ httpThread' = [httpThread EXCEPT ![t].at = "idle",
                                        ![t].got = Head(httpWire[httpStream])]
    /\ httpLock' = None
    /\ UNCHANGED <<httpOpen, httpStream, httpStreams, httpPosts>>

\* The time is up, or the connection breaks: it is given up.
HttpReadFails(t) ==
    /\ HttpAt(t, "read")
    /\ NextAttempt(t) /\ httpStream' = 0
    /\ UNCHANGED <<httpOpen, httpStreams, httpWire, httpPosts>>

\* close: the handle goes, and then the session is deleted on this connection
\* or a new one, which is given up whatever the answer is.
HttpClose(t) ==
    /\ HttpAt(t, "idle") /\ httpOpen
    /\ httpOpen' = FALSE
    /\ HttpGo(t, "delete")
    /\ UNCHANGED <<httpLock, httpStream, httpStreams, httpWire, httpPosts>>

HttpDelete(t) ==
    /\ HttpAt(t, "delete") /\ httpLock = None
    /\ httpStream' = 0
    /\ HttpGo(t, "idle")
    /\ UNCHANGED <<httpOpen, httpLock, httpStreams, httpWire, httpPosts>>

HttpNext ==
    \E t \in Threads :
        \/ HttpPost(t) \/ HttpLock(t) \/ HttpConnect(t) \/ HttpReuse(t)
        \/ HttpWrite(t) \/ HttpRead(t) \/ HttpReadFails(t) \/ HttpClose(t)
        \/ HttpDelete(t)

-----------------------------------------------------------------------------
HttpTypes ==
    /\ httpOpen \in BOOLEAN /\ httpLock \in Threads \cup {None}
    /\ httpStream \in 0..httpStreams /\ httpStreams \in 0..MaxStreams
    /\ httpWire \in [1..MaxStreams -> Seq(Posts)]
    /\ httpThread \in [Threads -> [at : {"idle", "lock", "attempt", "write", "read",
                                         "delete"},
                                   post : 0..MaxPosts, attempt : {0, 1},
                                   got : 0..MaxPosts]]

\* "Read back exactly one response" (mcp_client_ffi.rs:374): a response carries
\* no number that is looked at, so only the order on the connection tells whose
\* it is.  Nobody gets the late answer to a request that was given up.
OwnResponses == \A t \in Threads : httpThread[t].got \in {0, httpThread[t].post}
=============================================================================
