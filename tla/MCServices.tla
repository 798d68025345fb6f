----------------------------- MODULE MCServices ------------------------------
(* Small instances of the services that threads share.  They have no state   *)
(* in common, so a behaviour exercises one of them, its subject.             *)
EXTENDS ToolControlProps, GoChannels, GoHandles, Futures, ProgramMutexes, Mailboxes,
        DbPool, McpStdio, McpHttp, RcArrays, Subprocesses, RedisSubscription,
        HttpStreams, GrpcServer, GrpcCalls, Collector, SqlPlaceholders, WebSockets,
        LlmStreams, McpServer, Listeners, GrpcStreams, DbHandles, TLC

CONSTANTS
    t1, t2, t3, c1, c2, a1, a2,
    Subjects

\* What ends a control, and those who wait for the end.
WaitAndEnd == {"create", "release", "cancel", "finish", "wait"}

\* Quotes and escapes; comments; names, numbers and operators.
StatementAlphabets ==
    {{<<"?">>, <<"'">>, <<"E">>, <<"\\">>, <<"a">>},
     {<<"?">>, <<"/", "*">>, <<"*", "/">>, <<"-", "-">>, <<"n">>},
     {<<"?">>, <<"$">>, <<"1">>, <<"a">>, <<"|">>, <<"@">>, <<"name">>}}

\* Conversations, with a budget; with tools, while the history is rewritten;
\* streamed and recorded; from the tape; streamed with tools.
ConversationUses ==
    {{"off"}, {"off", "chat", "choices", "exchange", "async", "budget", "close session"},
     {"off", "tools", "continue", "tool result", "read", "set", "clear"},
     {"record", "stream chat", "stream tools", "chat", "clear"},
     {"cache", "replay", "stream chat", "async", "chat", "image"},
     {"off", "stream tools", "stream continue", "tool result", "close session"}}

\* A server on standard input that also answers posts; one that goes; one with
\* clients that listen.
ServerUses == {{"tool", "stdio", "post"}, {"stdio", "break", "destroy"}, {"listen"}}

VARIABLES subject

serviceVars == <<subject, vars, chanVars, gorVars, futVars, muxVars, mailVars, dbVars,
                 mcpVars, httpVars, rcVars, subVars, redVars, hstVars,
                 grpVars, gclVars, gcVars, sqlVars, wsVars, llmVars, msvVars, lisVars, gstVars, dhVars>>

\* Everything but the service s stays as it is.
Only(s) ==
    /\ subject = s /\ UNCHANGED subject
    /\ s \notin {"handles", "control"} => UNCHANGED vars
    /\ s # "channels" => UNCHANGED chanVars
    /\ s # "goroutines" => UNCHANGED gorVars
    /\ s # "futures" => UNCHANGED futVars
    /\ s # "mutexes" => UNCHANGED muxVars
    /\ s # "mailboxes" => UNCHANGED mailVars
    /\ s # "database" => UNCHANGED dbVars
    /\ s # "mcp stdio" => UNCHANGED mcpVars
    /\ s # "mcp http" => UNCHANGED httpVars
    /\ s # "arrays" => UNCHANGED rcVars
    /\ s # "subprocess" => UNCHANGED subVars
    /\ s # "redis" => UNCHANGED redVars
    /\ s # "http stream" => UNCHANGED hstVars
    /\ s # "grpc server" => UNCHANGED grpVars
    /\ s # "grpc calls" => UNCHANGED gclVars
    /\ s # "collector" => UNCHANGED gcVars
    /\ s # "statements" => UNCHANGED sqlVars
    /\ s # "websocket" => UNCHANGED wsVars
    /\ s # "sessions" => UNCHANGED llmVars
    /\ s # "mcp server" => UNCHANGED msvVars
    /\ s # "listeners" => UNCHANGED lisVars
    /\ s # "grpc streams" => UNCHANGED gstVars
    /\ s # "database handles" => UNCHANGED dhVars

\* A service that is not the subject begins in one way only.
ServiceInit ==
    /\ subject \in Subjects
    /\ sqlText \in (IF subject = "statements" THEN SqlTexts ELSE {<<>>}) /\ SqlInit
    /\ Init
    /\ ChanInit /\ GorInit /\ FutInit /\ MuxInit /\ MailInit /\ DbInit /\ McpInit
    /\ HttpInit /\ RcInit /\ SubInit /\ RedInit
    /\ HstInit /\ (subject # "http stream" => hstEnds = {} /\ hstBad = 0)
    /\ GrpInit
    /\ GclInit /\ (subject # "grpc calls" => gclUp = Backends)
    /\ GcInit /\ (subject # "collector" => gcUsers = Threads)
    /\ WsInit /\ (subject # "websocket" => wsTls = FALSE)
    /\ llmUse \in (IF subject = "sessions" THEN ConversationUses ELSE {{"off"}})
    /\ LlmInit /\ (subject # "sessions" => llmTape = <<>>)
    /\ MsvInit /\ (subject # "mcp server" => msvUse = CHOOSE use \in MsvUses : TRUE)
    /\ LisInit
    /\ GstInit /\ (subject # "grpc streams" => gstBad = 0)
    /\ DhInit

\* Controls come and go, none with a queue; or one, and all that is done with it.
HandlesNext ==
    /\ \E t \in Threads : Create(t) \/ Release(t) \/ Runs(t)
    /\ UNCHANGED capacity

ControlNext == Next /\ made' <= 1

ServiceNext ==
    \/ Only("handles") /\ HandlesNext
    \/ Only("control") /\ ControlNext
    \/ Only("channels") /\ ChanNext
    \/ Only("goroutines") /\ GorNext
    \/ Only("futures") /\ FutNext
    \/ Only("mutexes") /\ MuxNext
    \/ Only("mailboxes") /\ MailNext
    \/ Only("database") /\ DbNext
    \/ Only("mcp stdio") /\ McpNext
    \/ Only("mcp http") /\ HttpNext
    \/ Only("arrays") /\ RcNext
    \/ Only("subprocess") /\ SubNext
    \/ Only("redis") /\ RedNext
    \/ Only("http stream") /\ HstNext
    \/ Only("grpc server") /\ GrpNext
    \/ Only("grpc calls") /\ GclNext
    \/ Only("collector") /\ GcNext
    \/ Only("statements") /\ SqlNext
    \/ Only("websocket") /\ WsNext
    \/ Only("sessions") /\ LlmNext
    \/ Only("mcp server") /\ MsvNext
    \/ Only("listeners") /\ LisNext
    \/ Only("grpc streams") /\ GstNext
    \/ Only("database handles") /\ DhNext

ServiceSpec == ServiceInit /\ [][ServiceNext]_serviceVars

-----------------------------------------------------------------------------
(* Fairness, for the services with liveness properties: a call that has      *)
(* begun goes on, and so do the runtime's own threads and tasks; a program   *)
(* need not call, a goroutine's or a task's body and an MCP server need not  *)
(* come to an end.                                                           *)
FairServices ==
    /\ ServiceSpec
    /\ \A t \in Threads :
          /\ WF_vars(subject = "control" /\ Runs(t))
          /\ WF_gorVars(subject = "goroutines" /\ GorCheck(t))
          /\ WF_futVars(subject = "futures" /\ FutRuns(t))
          /\ WF_mcpVars(subject = "mcp stdio" /\ McpRuns(t))
          /\ WF_redVars(subject = "redis" /\ RedRuns(t))
          /\ WF_grpVars(subject = "grpc server" /\ GrpRuns(t))
          /\ WF_lisVars(subject = "listeners" /\ LisRuns(t))
          /\ WF_gstVars(subject = "grpc streams" /\ GstRuns(t))
    /\ \A t \in ChannelUsers : WF_chanVars(subject = "channels" /\ ChanRuns(t))
    /\ \A g \in Goroutines : WF_gorVars(subject = "goroutines" /\ GorNotifies(g))
    /\ \A f \in Futs : WF_futVars(subject = "futures" /\ FutEnds(f))
    /\ WF_mcpVars(subject = "mcp stdio" /\ McpReads)
    /\ WF_mcpVars(subject = "mcp stdio" /\ ServerReads)
    /\ WF_redVars(subject = "redis" /\ RedReads)
    /\ WF_lisVars(subject = "listeners" /\ LisHandles)
    /\ WF_gstVars(subject = "grpc streams" /\ GstWriterRuns)
    /\ \A c \in GrpCalls :
          /\ WF_grpVars(subject = "grpc server" /\ GrpLegRuns(c))
          /\ WF_grpVars(subject = "grpc server" /\ GrpReaderRuns(c))

\* "There is no more" is told of four kinds of queues, each with a flag its
\* writer raises last: only after everything that came before was handed out.
EndsComeLast == NoAnswerLost /\ LinesAllRead /\ ReceivedBeforeEnd /\ StreamReadWhole

\* What is sent reaches whom it is for, each once: a mailbox's letters, those of
\* the timer too and in time; an MCP server's answers and notifications.
LettersKept == LettersOnce /\ NoOversleep /\ NotificationsReach

\* Who waits for what has already happened returns: joiners of a goroutine
\* whose body is over and awaiters of a future that has its result.
WakeUpsReach == JoinersReturn /\ AwaitersReturn

\* Who waits for what only another party sends is let go when the program asks
\* it to stop: a subscription's thread once it is cancelled, callers that wait
\* for clients and servers once a signal came, the writer of a stream that was
\* freed, and the server it half-closes.
StopsReach == SubscriptionEnds /\ AcceptsEnd /\ FreedIsClosed

\* Counted arrays and collected objects are freed when nobody holds them any
\* more, cycles by the collector too, and no earlier.
FreedWhenUnheld == RefsCounted /\ CollectsExactly

\* A connection that is used again carries nothing of its last use: neither the
\* transaction of a database connection or what it wrote, nor another thread that
\* still has it, nor the response to another request.
NothingLeftBehind ==
    /\ IdleConnectionsClean /\ ConnectionsKept /\ OwnResponses
    /\ TransactionsWhole /\ TransactionsFiled

\* Text comes over as it was sent, however the connection cuts it: the body of a
\* stream and the messages of a WebSocket.
TextsAsSent == TextIsBody /\ TextsWhole

Symmetry == Permutations(Threads) \cup Permutations(Connections)

\* Every service's state has its types.
ServiceTypes ==
    /\ subject \in {"handles", "control"} => TypeOK
    /\ subject = "channels" => ChanTypes
    /\ subject = "goroutines" => GorTypes
    /\ subject = "futures" => FutTypes
    /\ subject = "mutexes" => MuxTypes
    /\ subject = "mailboxes" => MailTypes
    /\ subject = "database" => DbTypes
    /\ subject = "mcp stdio" => McpTypes
    /\ subject = "mcp http" => HttpTypes
    /\ subject = "arrays" => RcTypes
    /\ subject = "subprocess" => SubTypes
    /\ subject = "redis" => RedTypes
    /\ subject = "http stream" => HstTypes
    /\ subject = "grpc server" => GrpTypes
    /\ subject = "grpc calls" => GclTypes
    /\ subject = "collector" => GcTypes
    /\ subject = "websocket" => WsTypes
    /\ subject = "sessions" => LlmTypes
    /\ subject = "mcp server" => MsvTypes
    /\ subject = "listeners" => LisTypes
    /\ subject = "grpc streams" => GstTypes
    /\ subject = "database handles" => DhTypes
=============================================================================
