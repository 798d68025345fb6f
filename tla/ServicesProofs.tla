--------------------------- MODULE ServicesProofs ----------------------------
(* Proofs about the services together: what holds of a component alone holds *)
(* of it beside the others, which leave its state as it is.                  *)
EXTENDS MCServices, PeersProofs, ProgramProofs, StoreProofs

-----------------------------------------------------------------------------
(* The services begin as each of them does, and every step of theirs is, to  *)
(* each of them, a step of its own or none.                                  *)
LEMMA ServicesBegin ==
    ServiceInit => /\ SubInit /\ McpInit /\ GrpInit /\ GstInit /\ DbInit /\ HttpInit
                   /\ DhInit /\ GclInit /\ RcInit /\ GcInit /\ MailInit /\ MsvInit
                   /\ LlmInit /\ HstInit /\ WsInit
  BY DEF ServiceInit

LEMMA SubInServices == [ServiceNext]_serviceVars => [SubNext]_subVars
  BY DEF ServiceNext, Only, serviceVars

LEMMA McpInServices == [ServiceNext]_serviceVars => [McpNext]_mcpVars
  BY DEF ServiceNext, Only, serviceVars

LEMMA GrpInServices == [ServiceNext]_serviceVars => [GrpNext]_grpVars
  BY DEF ServiceNext, Only, serviceVars

LEMMA GstInServices == [ServiceNext]_serviceVars => [GstNext]_gstVars
  BY DEF ServiceNext, Only, serviceVars

LEMMA DbInServices == [ServiceNext]_serviceVars => [DbNext]_dbVars
  BY DEF ServiceNext, Only, serviceVars

LEMMA HttpInServices == [ServiceNext]_serviceVars => [HttpNext]_httpVars
  BY DEF ServiceNext, Only, serviceVars

LEMMA DhInServices == [ServiceNext]_serviceVars => [DhNext]_dhVars
  BY DEF ServiceNext, Only, serviceVars

LEMMA GclInServices == [ServiceNext]_serviceVars => [GclNext]_gclVars
  BY DEF ServiceNext, Only, serviceVars

LEMMA RcInServices == [ServiceNext]_serviceVars => [RcNext]_rcVars
  BY DEF ServiceNext, Only, serviceVars

LEMMA GcInServices == [ServiceNext]_serviceVars => [GcNext]_gcVars
  BY DEF ServiceNext, Only, serviceVars

LEMMA MailInServices == [ServiceNext]_serviceVars => [MailNext]_mailVars
  BY DEF ServiceNext, Only, serviceVars

LEMMA MsvInServices == [ServiceNext]_serviceVars => [MsvNext]_msvVars
  BY DEF ServiceNext, Only, serviceVars

LEMMA HstInServices == [ServiceNext]_serviceVars => [HstNext]_hstVars
  BY DEF ServiceNext, Only, serviceVars

LEMMA WsInServices == [ServiceNext]_serviceVars => [WsNext]_wsVars
  BY DEF ServiceNext, Only, serviceVars

LEMMA LlmInServices == [ServiceNext]_serviceVars => [LlmNext]_llmVars
  BY DEF ServiceNext, Only, serviceVars

-----------------------------------------------------------------------------
\* "There is no more" is told last, of the lines of a child process, the answers
\* of an MCP server and the messages of a gRPC call, at either end of it
\* (subprocess_ffi.rs, mcp_ffi.rs and grpc_client_ffi.rs raise a flag for it, and
\* look into the queue again after they have read it).
THEOREM EndsAlwaysComeLast == ServiceSpec => []EndsComeLast
<1>1. ServiceSpec => []LinesAllRead
  BY ServicesBegin, SubInServices, LinesComeBeforeTheEnd, PTL DEF ServiceSpec
<1>2. ServiceSpec => []NoAnswerLost
  BY ServicesBegin, McpInServices, AnswersComeBeforeTheEnd, PTL DEF ServiceSpec
<1>3. ServiceSpec => []ReceivedBeforeEnd
  BY ServicesBegin, GrpInServices, MessagesComeBeforeTheEnd, PTL DEF ServiceSpec
<1>4. ServiceSpec => []StreamReadWhole
  BY ServicesBegin, GstInServices, StreamsAreReadWhole, PTL DEF ServiceSpec
<1>5. NoAnswerLost /\ LinesAllRead /\ ReceivedBeforeEnd /\ StreamReadWhole => EndsComeLast
  BY DEF EndsComeLast
<1> QED
  BY <1>1, <1>2, <1>3, <1>4, <1>5, PTL

\* A connection that is used again carries nothing of its last use (连接池.rs:333,
\* database_ffi.rs:244 and 503, mcp_ffi.rs): no transaction and no other thread's
\* hold of it, no write of a transaction that has ended but those that came after
\* SQLite had rolled it back on its own, no response to another request.
THEOREM NothingIsLeftBehind == ServiceSpec => []NothingLeftBehind
<1>1. ServiceSpec => [](IdleConnectionsClean /\ ConnectionsKept)
  <2>1. ServiceSpec => DbSpec
    BY ServicesBegin, DbInServices, PTL DEF ServiceSpec, DbSpec
  <2> QED
    BY <2>1, IdleAlwaysClean, ConnectionsStayKept, PTL
<1>2. ServiceSpec => []OwnResponses
  BY ServicesBegin, HttpInServices, ResponsesAreOnesOwn, PTL DEF ServiceSpec
<1>3. ServiceSpec => []TransactionsFiled
  BY ServicesBegin, DhInServices, TransactionsStayFiled, PTL DEF ServiceSpec
<1>4. ServiceSpec => []TransactionsWhole
  BY ServicesBegin, DhInServices, TransactionsAreWhole, PTL DEF ServiceSpec
<1>5. (IdleConnectionsClean /\ ConnectionsKept) /\ OwnResponses /\ TransactionsWhole
          /\ TransactionsFiled => NothingLeftBehind
  BY DEF NothingLeftBehind
<1> QED
  BY <1>1, <1>2, <1>3, <1>4, <1>5, PTL

\* Memory is freed when nothing refers to it, and no earlier: a counted array by
\* whoever drops the last reference, and only then its elements (rc_obj.rs:418);
\* a collected object, in a cycle or not, by the collection that finds no way to
\* it from the roots of the only thread that uses the memory (manager.rs:158).
THEOREM MemoryIsFreedWhenUnheld == ServiceSpec => []FreedWhenUnheld
<1>1. ServiceSpec => []RefsCounted
  BY ServicesBegin, RcInServices, ArraysAreCounted, PTL DEF ServiceSpec
<1>2. ServiceSpec => []CollectsExactly
  <2>1. ServiceSpec => GcSpec
    BY ServicesBegin, GcInServices, PTL DEF ServiceSpec, GcSpec
  <2> QED
    BY <2>1, CollectionsAreExact, PTL
<1>3. RefsCounted /\ CollectsExactly => FreedWhenUnheld
  BY DEF FreedWhenUnheld
<1> QED
  BY <1>1, <1>2, <1>3, PTL

\* What is sent arrives once, in order and in time: of the letters of a mailbox,
\* delayed ones among them, each that was accepted is there or was taken
\* (mailbox_ffi.rs:27 and 254); of what an MCP server writes, lines are whole and
\* each request is answered once (mcp_ffi.rs:30), and each connection is given
\* every notification of its time, until another connection with the session that
\* it names has its place or has removed it.
THEOREM LettersAreKept == ServiceSpec => []LettersKept
<1>1. ServiceSpec => []LettersOnce
  BY ServicesBegin, MailInServices, LettersAreTakenOnce, PTL DEF ServiceSpec
<1>2. ServiceSpec => []NoOversleep
  BY ServicesBegin, MailInServices, TimerNeverOversleeps, PTL DEF ServiceSpec
<1>3. ServiceSpec => []LinesWhole
  BY ServicesBegin, MsvInServices, LinesStayWhole, PTL DEF ServiceSpec
<1>4. ServiceSpec => []AnsweredOnce
  BY ServicesBegin, MsvInServices, RequestsAreAnsweredOnce, PTL DEF ServiceSpec
<1>5. ServiceSpec => []EventsReach
  BY ServicesBegin, MsvInServices, EventsReachAll, PTL DEF ServiceSpec
<1>6. LettersOnce /\ NoOversleep /\ LinesWhole /\ AnsweredOnce /\ EventsReach => LettersKept
  BY DEF LettersKept, NotificationsReach
<1> QED
  BY <1>1, <1>2, <1>3, <1>4, <1>5, <1>6, PTL

\* A history that is asked, rewritten and read by several threads has every
\* question before its answer and a revision that tells which one it is; what the
\* provider answered is what the session was charged with and what was free, nothing
\* is free but asynchronous chats and exchanges nobody commits, and only one request
\* of each thread goes over the budget; a tape is written when the provider has
\* ended, and is whole for a reader who was told so (llm_ffi.rs:154, 1734, 2853).
THEOREM ServicesKeepConversations ==
    ASSUME IsFiniteSet(Threads)
    PROVE  ServiceSpec => []ConversationsKept
  BY ServicesBegin, LlmInServices, ConversationsAreKept, PTL DEF ServiceSpec

\* A text goes as it was sent: a body is handed out whole characters at a time,
\* and its end is told when there is no more (http_stream_ffi.rs:331); what a read
\* of a WebSocket returns is one whole text, the next that no time limit has passed
\* over (websocket_ffi.rs:1089).
THEOREM TextsArriveAsSent == ServiceSpec => []TextsAsSent
<1>1. ServiceSpec => []TextIsBody
  BY ServicesBegin, HstInServices, BodiesAreText, PTL DEF ServiceSpec
<1>2. ServiceSpec => []TextsWhole
  BY ServicesBegin, WsInServices, TextsAreWhole, PTL DEF ServiceSpec
<1>3. TextIsBody /\ TextsWhole => TextsAsSent
  BY DEF TextsAsSent
<1> QED
  BY <1>1, <1>2, <1>3, PTL

=============================================================================
