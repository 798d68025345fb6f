------------------------------ MODULE McpServer ------------------------------
(* src/src/stdlib/mcp_ffi.rs: a server of tools.  It answers requests on     *)
(* standard input and over HTTP, and tells its clients what happens: as      *)
(* lines between the answers on standard output, and as events on the        *)
(* connections that HTTP clients keep open.                                  *)
(*                                                                           *)
(* A step is a region under the pool's mutex or the mutex of the registry of *)
(* connections, the lock of standard output (taken, text, line end), or one  *)
(* access to a connection.                                                   *)
EXTENDS Callers, Integers, SequencesExt

CONSTANTS
    MsvUses,        \* sets of the operations a program makes use of
    MaxAsks,        \* bound: requests
    MaxNotes,       \* bound: notifications
    MaxListeners    \* bound: connections kept open

ASSUME McpServerAssumption ==
    MaxAsks \in Nat /\ MaxNotes \in Nat /\ MaxListeners \in Nat

Listeners == 1..MaxListeners

VARIABLES
    msvUse,         \* what this program makes use of
    msvPool,        \* the server: "none", "live", "destroyed"
    msvTool,        \* its tool: "absent", "bare" (no callback) or "closure"
    msvWriter,      \* standard output is installed
    msvLock,        \* who holds its lock, or None
    msvBroken,      \* its client is gone
    msvOut,         \* what was written there: texts and line ends
    msvAsked,       \* requests read on standard input
    msvOwed,        \* those that have an answer, in the order they were handled
    msvNotes,       \* notifications begun
    msvPushed,      \* notifications, as they were pushed to the connections
    msvChannels,    \* the registry: the connection that a session's sender reaches, or 0
    msvListener,    \* a connection that is kept open: its thread and its client
    msvThread       \* position of each thread, and what it is doing

msvVars == <<msvUse, msvPool, msvTool, msvWriter, msvLock, msvBroken, msvOut, msvAsked, msvOwed,
             msvNotes, msvPushed, msvChannels, msvListener, msvThread>>
msvServer == <<msvUse, msvPool, msvTool>>
msvStdout == <<msvLock, msvBroken, msvOut>>
msvPipe == <<msvWriter, msvStdout, msvAsked, msvOwed>>
msvEvents == <<msvNotes, msvPushed, msvChannels, msvListener>>

MsvLine(kind, n) == [kind |-> kind, n |-> n]
EndOfLine == MsvLine("end", 0)

MsvIdle == [at |-> "idle", for |-> "program", id |-> 0, note |-> 0]

\* queue: what its receiver holds; seen: what was written to the client.
Unconnected == [at |-> "unborn", session |-> 0, queue |-> <<>>, seen |-> <<>>,
                joined |-> 0, gone |-> FALSE]

MsvInit ==
    /\ msvUse \in MsvUses
    /\ msvPool = "none" /\ msvTool = "absent"
    /\ msvWriter = FALSE /\ msvLock = None /\ msvBroken = FALSE /\ msvOut = <<>>
    /\ msvAsked = 0 /\ msvOwed = <<>>
    /\ msvNotes = 0 /\ msvPushed = <<>>
    /\ msvChannels = [s \in Listeners |-> 0]
    /\ msvListener = [l \in Listeners |-> Unconnected]
    /\ msvThread = [t \in Threads |-> MsvIdle]

MsvAt(t, p) == msvThread[t].at = p

MsvGo(t, p) == msvThread' = [msvThread EXCEPT ![t].at = p]

-----------------------------------------------------------------------------
(* The pool: qi_mcp_create_server, _register_tool, _set_tool_callback_ptr,   *)
(* _destroy_server.                                                          *)
MsvCreate(t) ==
    /\ MsvAt(t, "idle") /\ msvPool = "none"
    /\ msvPool' = "live"
    /\ UNCHANGED <<msvUse, msvTool, msvPipe, msvEvents, msvThread>>

\* A tool is registered once, and its callback set afterwards.
MsvRegister(t) ==
    /\ MsvAt(t, "idle") /\ "tool" \in msvUse /\ msvPool = "live"
    /\ msvTool = "absent" /\ msvTool' = "bare"
    /\ UNCHANGED <<msvUse, msvPool, msvPipe, msvEvents, msvThread>>

MsvSetCallback(t) ==
    /\ MsvAt(t, "idle") /\ msvPool = "live"
    /\ msvTool # "absent" /\ msvTool' = "closure"
    /\ UNCHANGED <<msvUse, msvPool, msvPipe, msvEvents, msvThread>>

\* The servers that answer for it are not told.
MsvDestroy(t) ==
    /\ MsvAt(t, "idle") /\ "destroy" \in msvUse /\ msvPool = "live"
    /\ msvPool' = "destroyed"
    /\ UNCHANGED <<msvUse, msvTool, msvPipe, msvEvents, msvThread>>

-----------------------------------------------------------------------------
(* qi_mcp_serve_stdio: one thread, its input has one reader.                 *)
MsvServes(t) ==
    /\ MsvAt(t, "idle") /\ "stdio" \in msvUse /\ msvPool = "live"
    /\ \A u \in Threads : msvThread[u].for # "stdio"
    /\ msvThread' = [msvThread EXCEPT ![t] = [@ EXCEPT !.at = "install", !.for = "stdio"]]
    /\ UNCHANGED <<msvServer, msvPipe, msvEvents>>

MsvInstalls(t) ==
    /\ MsvAt(t, "install") /\ msvLock = None
    /\ msvWriter' = TRUE
    /\ MsvGo(t, "read")
    /\ UNCHANGED <<msvServer, msvStdout, msvAsked, msvOwed, msvEvents>>

\* A blank line, a notification, a line that is no JSON, a request, or the end.
MsvReads(t) ==
    /\ MsvAt(t, "read")
    /\ \/ msvAsked < MaxAsks /\ msvAsked' = msvAsked + 1
          /\ \E p \in {"initialize", "list", "call", "reject", "read"} :
                /\ msvThread' = [msvThread EXCEPT ![t] =
                                    [@ EXCEPT !.at = p, !.id = msvAsked + 1]]
                /\ msvOwed' = IF p = "reject" THEN Append(msvOwed, msvAsked + 1) ELSE msvOwed
       \/ MsvGo(t, "uninstall") /\ UNCHANGED <<msvAsked, msvOwed>>
    /\ UNCHANGED <<msvServer, msvWriter, msvStdout, msvEvents>>

MsvUninstalls(t) ==
    /\ MsvAt(t, "uninstall") /\ msvLock = None
    /\ msvWriter' = FALSE
    /\ msvThread' = [msvThread EXCEPT ![t] = MsvIdle]
    /\ UNCHANGED <<msvServer, msvStdout, msvAsked, msvOwed, msvEvents>>

(* handle_http_connection, a POST with a request: a thread of its own, whose *)
(* answer goes to its own connection.                                        *)
MsvPosts(t) ==
    /\ MsvAt(t, "idle") /\ "post" \in msvUse /\ msvPool # "none"
    /\ \E p \in {"initialize", "list", "call"} :
          msvThread' = [msvThread EXCEPT ![t] = [@ EXCEPT !.at = p, !.for = "post"]]
    /\ UNCHANGED <<msvServer, msvPipe, msvEvents>>

-----------------------------------------------------------------------------
(* handle_request.                                                           *)

\* Where a request goes when its answer is made.
MsvAnswers(t) ==
    /\ msvThread' = [msvThread EXCEPT ![t] =
                        IF @.for = "stdio" THEN [@ EXCEPT !.at = "reply"] ELSE MsvIdle]
    /\ msvOwed' = IF msvThread[t].for = "stdio" THEN Append(msvOwed, msvThread[t].id)
                  ELSE msvOwed

\* "initialize" on a server that is gone has no answer, "list" has an error.
MsvDescribes(t) ==
    /\ \/ MsvAt(t, "list") /\ MsvAnswers(t)
       \/ MsvAt(t, "initialize") /\ msvPool = "live" /\ MsvAnswers(t)
       \/ MsvAt(t, "initialize") /\ msvPool # "live"
          /\ msvThread' = [msvThread EXCEPT ![t] =
                              IF @.for = "stdio" THEN [@ EXCEPT !.at = "read"] ELSE MsvIdle]
          /\ UNCHANGED msvOwed
    /\ UNCHANGED <<msvServer, msvWriter, msvStdout, msvAsked, msvEvents>>

\* invoke_tool: the callback's address, read under the mutex and called without.
MsvLooks(t) ==
    /\ MsvAt(t, "call")
    /\ IF msvPool = "live" /\ msvTool # "absent"
       THEN /\ MsvGo(t, IF msvTool = "closure" THEN "tool" ELSE "fallback")
            /\ UNCHANGED msvOwed
       ELSE MsvAnswers(t)
    /\ UNCHANGED <<msvServer, msvWriter, msvStdout, msvAsked, msvEvents>>

\* The callback returns; or there is none, and none in Rust: an error.
MsvToolReturns(t) ==
    /\ MsvAt(t, "tool") \/ MsvAt(t, "fallback")
    /\ MsvAnswers(t)
    /\ UNCHANGED <<msvServer, msvWriter, msvStdout, msvAsked, msvEvents>>

-----------------------------------------------------------------------------
(* The lock of standard output, for an answer and for a notification.        *)

MsvTakesWriter(t) ==
    /\ MsvAt(t, "reply") \/ MsvAt(t, "reject") \/ MsvAt(t, "notify")
    /\ msvLock = None
    /\ \/ msvWriter /\ msvLock' = t
          /\ MsvGo(t, IF MsvAt(t, "notify") THEN "note text" ELSE "reply text")
       \/ ~msvWriter /\ UNCHANGED msvLock
          /\ MsvGo(t, IF MsvAt(t, "notify") THEN "push" ELSE "read")
    /\ UNCHANGED <<msvServer, msvWriter, msvBroken, msvOut, msvAsked, msvOwed, msvEvents>>

MsvText(t) ==
    /\ ~msvBroken
    /\ \/ MsvAt(t, "reply text")
          /\ msvOut' = Append(msvOut, MsvLine("reply", msvThread[t].id))
          /\ MsvGo(t, "reply end")
       \/ MsvAt(t, "note text")
          /\ msvOut' = Append(msvOut, MsvLine("note", msvThread[t].note))
          /\ MsvGo(t, "note end")
    /\ UNCHANGED <<msvServer, msvWriter, msvLock, msvBroken, msvAsked, msvOwed, msvEvents>>

\* writeln writes the line's end, flush follows, the lock is given back.
MsvLineEnd(t) ==
    /\ MsvAt(t, "reply end") \/ MsvAt(t, "note end")
    /\ ~msvBroken
    /\ msvOut' = Append(msvOut, EndOfLine)
    /\ msvLock' = None
    /\ MsvGo(t, IF MsvAt(t, "note end") THEN "push" ELSE "read")
    /\ UNCHANGED <<msvServer, msvWriter, msvBroken, msvAsked, msvOwed, msvEvents>>

\* A write that fails ends the serving, but only loses a notification.
MsvWriteFails(t) ==
    /\ msvBroken
    /\ \/ msvThread[t].at \in {"reply text", "reply end"} /\ MsvGo(t, "uninstall")
       \/ msvThread[t].at \in {"note text", "note end"} /\ MsvGo(t, "push")
    /\ msvLock' = None
    /\ UNCHANGED <<msvServer, msvWriter, msvBroken, msvOut, msvAsked, msvOwed, msvEvents>>

MsvBreaks ==
    /\ msvWriter /\ "break" \in msvUse /\ ~msvBroken
    /\ msvBroken' = TRUE
    /\ UNCHANGED <<msvServer, msvWriter, msvLock, msvOut, msvAsked, msvOwed, msvEvents,
                   msvThread>>

-----------------------------------------------------------------------------
(* qi_mcp_notify_*, qi_mcp_log_message: by the program, or by a tool's       *)
(* callback on the thread that answers the request.                          *)
MsvNotifies(t) ==
    /\ MsvAt(t, "idle") \/ MsvAt(t, "tool")
    /\ msvPool = "live" /\ msvNotes < MaxNotes
    /\ msvNotes' = msvNotes + 1
    /\ msvThread' = [msvThread EXCEPT ![t] =
                        [@ EXCEPT !.at = "notify", !.note = msvNotes + 1]]
    /\ UNCHANGED <<msvServer, msvPipe, msvPushed, msvChannels, msvListener>>

HasReceiver(l) == msvListener[l].at \notin {"unborn", "open", "over"}

Registered == {l \in Listeners : \E s \in Listeners : msvChannels[s] = l}

\* Back to the tool's callback, or to the program.
AfterPush(t) ==
    msvThread' = [msvThread EXCEPT ![t] =
                     IF @.for = "program" THEN MsvIdle ELSE [@ EXCEPT !.at = "tool", !.note = 0]]

\* One region under the registry's mutex: every session's sender gets it; one
\* without a receiver goes.
MsvPushes(t) ==
    /\ MsvAt(t, "push")
    /\ msvPushed' = Append(msvPushed, msvThread[t].note)
    /\ msvListener' = [l \in Listeners |->
          IF l \in Registered /\ HasReceiver(l)
          THEN [msvListener[l] EXCEPT !.queue = Append(@, msvThread[t].note)]
          ELSE msvListener[l]]
    /\ msvChannels' = [s \in Listeners |->
          IF msvChannels[s] # 0 /\ ~HasReceiver(msvChannels[s]) THEN 0 ELSE msvChannels[s]]
    /\ AfterPush(t)
    /\ UNCHANGED <<msvServer, msvPipe, msvNotes>>

-----------------------------------------------------------------------------
(* handle_http_connection, a GET: the connection is kept open.               *)

ListenerGo(l, p) == msvListener' = [msvListener EXCEPT ![l].at = p]

\* The client names a session, maybe one that has a connection, or is given a new
\* one.
MsvConnects(l) ==
    /\ msvListener[l].at = "unborn" /\ "listen" \in msvUse /\ msvPool # "none"
    /\ l > 1 => msvListener[l - 1].at # "unborn"
    /\ \E s \in 1..l :
          msvListener' = [msvListener EXCEPT ![l] = [@ EXCEPT !.at = "open", !.session = s]]
    /\ UNCHANGED <<msvServer, msvPipe, msvNotes, msvPushed, msvChannels, msvThread>>

\* The header is written, or the client is gone already; then the channel is
\* registered, and the one the session had before is dropped.
MsvListens(l) ==
    /\ msvListener[l].at = "open"
    /\ msvChannels' = [msvChannels EXCEPT ![msvListener[l].session] = l]
    /\ msvListener' = [msvListener EXCEPT ![l] =
                          [@ EXCEPT !.at = "wait", !.joined = Len(msvPushed)]]
    /\ UNCHANGED <<msvServer, msvPipe, msvNotes, msvPushed, msvThread>>

MsvRefused(l) ==
    /\ msvListener[l].at = "open" /\ msvListener[l].gone
    /\ ListenerGo(l, "over")
    /\ UNCHANGED <<msvServer, msvPipe, msvNotes, msvPushed, msvChannels, msvThread>>

\* An event for the client, or after 15 seconds a comment; once its sender is
\* dropped and the queue empty the channel is closed.
MsvSends(l) ==
    /\ msvListener[l].at = "wait"
    /\ LET me == msvListener[l]
       IN \/ me.queue # <<>>
             /\ msvListener' = [msvListener EXCEPT ![l] =
                    [me EXCEPT !.queue = Tail(me.queue), !.seen = Append(me.seen, Head(me.queue))]]
          \/ me.gone /\ (me.queue # <<>> \/ l \in Registered)
             /\ msvListener' = [msvListener EXCEPT ![l] =
                    [@ EXCEPT !.at = "leave", !.queue = <<>>]]
          \/ me.queue = <<>> /\ l \notin Registered /\ ListenerGo(l, "leave")
    /\ UNCHANGED <<msvServer, msvPipe, msvNotes, msvPushed, msvChannels, msvThread>>

\* The session's entry is removed, whoever's it is.
MsvLeaves(l) ==
    /\ msvListener[l].at = "leave"
    /\ msvChannels' = [msvChannels EXCEPT ![msvListener[l].session] = 0]
    /\ msvListener' = [msvListener EXCEPT ![l] = [@ EXCEPT !.at = "over", !.queue = <<>>]]
    /\ UNCHANGED <<msvServer, msvPipe, msvNotes, msvPushed, msvThread>>

\* The client goes.
MsvClientGoes(l) ==
    /\ msvListener[l].at \in {"open", "wait"} /\ ~msvListener[l].gone
    /\ msvListener' = [msvListener EXCEPT ![l].gone = TRUE]
    /\ UNCHANGED <<msvServer, msvPipe, msvNotes, msvPushed, msvChannels, msvThread>>

MsvNext ==
    \/ \E t \in Threads :
          \/ MsvCreate(t) \/ MsvRegister(t) \/ MsvSetCallback(t) \/ MsvDestroy(t)
          \/ MsvServes(t) \/ MsvInstalls(t) \/ MsvReads(t) \/ MsvUninstalls(t)
          \/ MsvPosts(t) \/ MsvDescribes(t) \/ MsvLooks(t) \/ MsvToolReturns(t)
          \/ MsvTakesWriter(t) \/ MsvText(t) \/ MsvLineEnd(t) \/ MsvWriteFails(t)
          \/ MsvNotifies(t) \/ MsvPushes(t)
    \/ MsvBreaks
    \/ \E l \in Listeners :
          \/ MsvConnects(l) \/ MsvListens(l) \/ MsvRefused(l) \/ MsvSends(l)
          \/ MsvLeaves(l) \/ MsvClientGoes(l)

-----------------------------------------------------------------------------
MsvTypes ==
    /\ msvPool \in {"none", "live", "destroyed"}
    /\ msvTool \in {"absent", "bare", "closure"}
    /\ msvWriter \in BOOLEAN /\ msvBroken \in BOOLEAN /\ msvLock \in Threads \cup {None}
    /\ msvOut \in Seq([kind : {"reply", "note", "end"}, n : Nat])
    /\ msvAsked \in 0..MaxAsks /\ msvOwed \in Seq(1..MaxAsks)
    /\ msvNotes \in 0..MaxNotes /\ msvPushed \in Seq(1..MaxNotes)
    /\ msvChannels \in [Listeners -> 0..MaxListeners]
    /\ msvListener \in [Listeners ->
          [at : {"unborn", "open", "wait", "leave", "over"}, session : 0..MaxListeners,
           queue : Seq(1..MaxNotes), seen : Seq(1..MaxNotes), joined : Nat, gone : BOOLEAN]]
    /\ msvThread \in [Threads ->
          [at : {"idle", "install", "read", "uninstall", "initialize", "list", "call",
                 "tool", "fallback", "reply", "reject", "notify", "reply text",
                 "reply end", "note text", "note end", "push"},
           for : {"program", "stdio", "post"}, id : 0..MaxAsks, note : 0..MaxNotes]]

\* "保护 stdout 不被并发写穿插" (mcp_ffi.rs:30): answers and notifications of
\* other threads, and of a tool that runs meanwhile, never mix within a line.
LinesWhole ==
    \A i \in 1..Len(msvOut) :
       IF i % 2 = 0 THEN msvOut[i] = EndOfLine ELSE msvOut[i] # EndOfLine

\* The answers on standard output are those of the first n requests that have
\* one, in their order.
FirstAnswered(n) ==
    \E at \in [1..n -> DOMAIN msvOut] :
        /\ \A i, j \in 1..n : i < j => at[i] < at[j]
        /\ \A k \in DOMAIN msvOut : msvOut[k].kind = "reply" <=> \E i \in 1..n : at[i] = k
        /\ \A i \in 1..n : msvOut[at[i]].n = msvOwed[i]

\* Once the reader waits for its next request, each request that has an answer
\* was answered, once and in order.
AnsweredOnce ==
    \E n \in 0..Len(msvOwed) :
        /\ FirstAnswered(n)
        /\ ~msvBroken /\ (\E t \in Threads : MsvAt(t, "read")) => n = Len(msvOwed)

\* No other connection that was ever registered, or refused, has l's session.
OnlyOne(l) ==
    \A k \in Listeners \ {l} : \/ msvListener[k].at \in {"unborn", "open"}
                               \/ msvListener[k].session # msvListener[l].session

\* Every connection that is kept open is given each notification of its time
\* once, in an order they all agree on: all of them as long as it is registered,
\* and only another connection with the session it names can end that - a newer
\* one that takes its place, but also an older one that goes (mcp_ffi.rs:1214).
EventsReach ==
    \A l \in Listeners :
       LET me == msvListener[l]
           due == SubSeq(msvPushed, me.joined + 1, Len(msvPushed))
       IN /\ IsPrefix(me.seen, due)
          /\ me.at = "wait" /\ (l \in Registered \/ OnlyOne(l)) => me.seen \o me.queue = due

NotificationsReach == LinesWhole /\ AnsweredOnce /\ EventsReach
=============================================================================
