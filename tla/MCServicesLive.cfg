SPECIFICATION FairServices
CONSTANTS
  None = None
  t1 = t1
  t2 = t2
  t3 = t3
  c1 = c1
  c2 = c2
  a1 = a1
  a2 = a2
  Threads = {t1, t2}
  Subjects = {"control", "channels", "goroutines", "futures", "mcp stdio", "redis", "grpc server", "listeners", "grpc streams"}
  May <- WaitAndEnd
  Deadlines = {"ahead"}
  Capacities = {0}
  MaxGeneration = 2
  MaxControls = 1
  MaxPushes = 0
  ChannelUsers = {t1, t2, t3}
  MaxChannels = 2
  MaxChannelCalls = 4
  MaxGoroutines = 2
  MaxFutures = 1
  Endings = {"complete", "fail", "by hand"}
  MaxMutexes = 2
  MailCapacity = 1
  Delays = {0, 1}
  MaxMailboxes = 1
  MaxLetters = 3
  MaxTime = 1
  Connections = {c1, c2}
  MaxTransactions = 2
  MaxDeaths = 1
  McpPipe = 1
  McpNotes = 1
  MaxRequests = 2
  MaxServerSends = 1
  MaxPosts = 2
  MaxStreams = 3
  MaxArrays = 3
  MaxElements = 2
  InputRoom = 1
  MaxLines = 2
  SubQueueLimit = 1
  MaxMessages = 2
  ChunkRoom = 1
  BodyLength = 2
  GrpcUsers = {t1}
  GrpcQueueLimit = 1
  OutboundDepth = 2
  MaxCalls = 1
  MaxReceived = 0
  MaxSends = 1
  NBackends = 1
  Retries = 1
  MaxFalls = 1
  Addresses = {a1, a2}
  MemoryLimit = 2
  MaxBirths = 3
  SqlAlphabets <- StatementAlphabets
  SqlLength = 4
  SocketRoom = 2
  WsMessages = 2
  Budgets = {0, 1}
  LlmUses <- ConversationUses
  MaxAsked = 2
  MaxHistory = 3
  MaxRewrites = 3
  MaxChunks = 2
  MaxLlmStreams = 1
  MsvUses <- ServerUses
  MaxAsks = 0
  MaxNotes = 0
  MaxListeners = 0
  Sockets = {3, 4}
  ListenerSlots = 2
  MaxListens = 2
  StreamUsers = {t1}
  StreamDepth = 1
  MaxStreamSends = 1
  MaxStreamed = 1
  MaxConnects = 1
  MaxDbTxs = 2
PROPERTIES
  WaitersReturn
  SendsReturn
  WakeUpsReach
  AnswersReach
  StopsReach
  CallsTold
CHECK_DEADLOCK FALSE
