# qi-runtime: TLA+ specifications, model checks and proofs

qi-runtime is the run-time library of the Qi language: what a compiled Qi
program links against.  Many of its 133 files are thin wrappers (mathematics,
text, files, a GUI).  The part that is hard to get right is where threads,
processes and the network meet: a scheduler of coroutines, futures, channels,
tool executions with deadlines, streams read by one thread and cancelled by
another, mailboxes, mutexes with handles, a database pool, clients and servers of
several protocols, a collector.  This directory models that part.

## 1. The system's components

The state each component keeps, its operations, what is hard in it, and what
makes it correct.  `PROJECT.json` lists every component, also those that are not
modelled, and every hazard with its source line.

| Component | State | Operations | Hard | Correct when |
|---|---|---|---|---|
| Coroutine scheduler and channels, `async_runtime/coro.rs` | ready queue, one local queue and NEXT slot per worker, four atomic counters, per channel a buffer and two lists of parked coroutines | spawn, yield, sleep, await, send, receive, cancel, `run_all`, `run_until_done` | several workers, batch stealing, park against wake, counters updated outside locks, dead-lock detection by observation | no coroutine is lost or run twice, no wake-up is lost, a dead-lock is announced exactly when there is one, `run_all` ends when all are done |
| Tool control, `tool_control.rs` | table of slots with generations; per control two flags, a deadline, a progress queue | create, cancel, finish, wait, progress, release | cancel against finish against deadline against release, reuse of slots, blocked waiters | the first cancel and the first finish win, a waiter always learns of the end, a stale handle reaches nothing |
| LLM reliable stream, `stdlib/llm_ffi.rs` | per stream a bounded event queue, a terminal flag, a resolution; per session a history with a revision | open, next event (with timeout), cancel, commit, abort, close | worker, readers and cancellation race for one queue; commit compares revisions | one terminal event, last; history changes only by a commit that saw the current revision; readers return |
| LLM sessions, streams of the first generation, tape, `stdlib/llm_ffi.rs` | sessions with history, revision, budget; streams; recorded answers | chat in several ways, tools, exchange and commit, open, read and close a stream, read and set the history | a request runs with a copy of the session, or keeps the pool | questions and answers stay in pairs, what was asked before a change is not written after it, every answer is charged or known to be free, the tape holds what was read of a stream that had ended |
| Futures, `async_runtime/future.rs` | state, value, two kinds of waiters | complete, fail, await, register | completion against registration | whoever awaits returns with the result |
| Goroutines and channels, `async_runtime/ffi/mod.rs` | handles with an outcome; a registry of channels | spawn, join, send, receive, try | blocking beside a registry, notification after the outcome | joiners return; a send waits for no receiver, but for a try_receive that does |
| Mailboxes, `stdlib/mailbox_ffi.rs` | table of bounded queues, heap of timed messages, one timer thread | create, post, post later, take, close | close against post, timer outside the lock | accepted letters come once and in order; the timer does not oversleep |
| Mutexes for programs, `stdlib/sync_ffi.rs` | two registries, of mutexes and of guards | lock, trylock, unlock, destroy | the guard is filed after the mutex is taken | one guard per held mutex |
| Database pool, `stdlib/database/连接池.rs` | bounded pool, one pinned connection, table of transactions | statements, begin, commit, roll back in two interfaces, close | check and act under different locks, dead connections, time-outs | an idle connection has no transaction open; a connection is in one place |
| Databases of one connection, `stdlib/database_ffi.rs`, `stdlib/database/句柄.rs` | table of handles, table of transactions, per handle the transaction it takes to be open | connect, execute (plain, with parameters, in a transaction), begin, commit and roll back in two interfaces, close | two tables and one connection under three locks; SQLite may refuse any call | what a transaction wrote is kept exactly when it was committed, unless SQLite has rolled it back on its own; the tables say what SQLite has open |
| SQL dialects, `stdlib/sql_dialect.rs` | none | rewrite placeholders | quotes, comments, operators with `?` | what is quoted stays, placeholders are numbered in order |
| MCP client, `stdlib/mcp_client_ffi.rs` | requests, answers and notifications of a child process; one HTTP connection | request, notify, poll, close; post | pipe full in both directions, end of output beside an answer, late answers on a connection that is used again | every caller gets its own answer or is told the end |
| MCP server, `stdlib/mcp_ffi.rs` | tools, standard output, registry of event channels | register, serve, notify | several writers of one output, connections that come and go | whole lines, one answer per request, each event to every listener that is registered |
| Counted arrays, `stdlib/rc_obj.rs` | atomic count per object | retain, release, copy on write | decrement against copy | counts equal references; freed once |
| Child processes, `stdlib/subprocess_ffi.rs` | pipe, line queue, end flag | spawn, write, read, end | a flag beside a queue, kill while lines are under way | all lines before the end are read |
| Redis subscriptions, `stdlib/redis_ffi.rs` | queue, two flags, a thread | subscribe, receive, give up | time-outs on both sides | messages in order, the thread ends |
| Response bodies, `io/http_stream_ffi.rs` | bounded queue of chunks, part of a character | read, close | chunks cut characters, time-outs, cancellation | the text is the body |
| gRPC server and client, `io/grpc_ffi.rs`, `io/grpc_client_ffi.rs` | table of calls with queues and flags; backends with connections; per client stream an outbox, an inbox, a status and a flag | accept, receive, send, finish, stop; call; open, send, half-close, receive and free a stream | deadline, reset and end race; rolling restarts; a flag beside an inbox; freeing a stream whose outbox is full | the client is told an end; nothing lost before the end, at either side; no call dropped |
| WebSockets, `io/websocket_ffi.rs`, `io/tls_client.rs` | connection, two locks, bytes read ahead | receive, send, close | halves of frames, time limits, pings while writing | texts come whole and in order |
| TCP servers and signals, `stdlib/signal_ffi.rs`, `io/network_ffi.rs` | slots of listeners, flag | listen, accept, serve, close, the handler | the handler runs anywhere, socket numbers are given away again | a signal ends every wait for clients |
| Collector, `memory/{manager,gc}.rs` | table of allocations, roots, references, marks | allocate, free, link, collect | several threads hold the read lock only | freed once, by one; nothing reachable is freed |
| Exceptions, timers, atomics, task table, HTTP/2, TLS handshakes, files, numerics, text, GUI, debug, wasm | handle tables | | little concurrency of their own | |

Compiled code calls the scheduler directly; the FFI goroutines and channels are
a second, independent implementation on operating-system threads.  Futures are
awaited both by coroutines (`qi_coro_await_poll`) and by tokio tasks.  Sessions
and reliable streams share the session pool (a commit changes the history the
stream was opened with), which `ReliableStream` models for one session and
`LlmSessions` for the other calls.  A child process carries the MCP client's
standard-input transport.  Otherwise the services share nothing: a program
connects them.

## 2. Modules

| Module | What it models |
|---|---|
| `CoroChannel` | `ChanInner` of `coro.rs` and its transformations, as operators: what a successful send and receive do to the buffer and the waiters, and whom they wake |
| `CoroSched`, `CoroSchedProps` | the rest of `coro.rs`; its properties and the inductive invariant of stealing |
| `CoroSchedProofs`, `CoroPlacesProofs` | the proofs about every program; those about regular ones |
| `FifoChannels` | the abstract specification of channels: FIFO queues |
| `MCCoroOne`, `MCCoroMany` | programs for the model checker |
| `ReliableStream`, `ReliableStreamProps`, `ReliableStreamProofs` | the v2 streams of `llm_ffi.rs` and the session they are committed to |
| `HistoryLedger` | the abstract specification of commits: a ledger of whole answers |
| `MCReliableStream`, `MCStreamPlans` | who calls what, for the model checker |
| `ToolControl`, `ToolControlProps`, `ToolControlProofs` | `tool_control.rs` |
| `Callers` | the threads that call exported functions, which the services below share |
| `GoChannels`, `GoHandles`, `Futures` | `async_runtime/ffi/mod.rs` (channels; goroutines with a handle), `future.rs` |
| `ProgramMutexes`, `Mailboxes` | `sync_ffi.rs`; `mailbox_ffi.rs` |
| `DbPool`, `DbHandles`, `SqlPlaceholders` | `database/连接池.rs`; `database_ffi.rs` with `句柄.rs`; `sql_dialect.rs` |
| `StoreProofs` | the proofs about what is kept and given back: memory, arrays, both kinds of databases |
| `McpStdio`, `McpHttp`, `McpServer` | `mcp_client_ffi.rs` with both transports; `mcp_ffi.rs` |
| `RcArrays`, `Collector` | `rc_obj.rs`; `memory/manager.rs`, `gc.rs` |
| `Subprocesses`, `RedisSubscription`, `HttpStreams` | `subprocess_ffi.rs`, `redis_ffi.rs`, `http_stream_ffi.rs` |
| `GrpcServer`, `GrpcCalls`, `GrpcStreams`, `WebSockets`, `Listeners` | `grpc_ffi.rs`; `grpc_client_ffi.rs` (calls; streams); `websocket_ffi.rs` with `tls_client.rs`; `signal_ffi.rs` with the TCP servers of `network_ffi.rs` |
| `LlmSessions`, `LlmStreams` | the other half of `llm_ffi.rs` |
| `PeersProofs` | the proofs about child processes, MCP clients and servers, and gRPC: whoever has a peer at the other end |
| `ProgramProofs` | the proofs about what the threads of a program share: mutexes, mailboxes, conversations, HTTP streams, WebSockets |
| `MCServices`, `ServicesProofs` | all services for the model checker; what is proved of them together |

Every module extends those whose state it uses; the services share no state, so
`MCServices` composes them by letting each behaviour exercise one of them, its
`subject`.  A definition whose comment begins with "Wrong variant" is not part of
a next-state relation: it is a plausible bug, and shows that a property would
notice it.

### The coroutine scheduler

State.  `ready`, `localq`, `next`, `schedulable`, `running`, `handoff`, `live`,
`shutdown`, `deadlock`, `chan` are the statics of `coro.rs`; `frame`, `ip`,
`done`, `asleep` describe the coroutines (an LLVM frame, its position, the
`QiCoro` fields); `wid`, `parked`, `sleeps`, `intent`, `confirm`, `cur` are the
thread-locals, one per worker.  `pc` is the position of each thread: the code
between two positions is one atomic step, and there is a position wherever
another thread can observe something in between.  `readyLock` and `localLock`
are the mutexes that are held across several steps (READY's during the idle
check, a victim's during a steal).

Actions.  `pick` is PickNext/HandoffTaken, PickLocal, PickGlobal, ScanTake,
ScanMiss, StealSkip, StealLock, StealMove, StealMiss with the counter updates
Uncount and Count; `worker_loop`'s idle branch is IdleLock, CheckLive,
CheckRunning, CheckHandoff, IdleWait; `run_one` is Resume, Suspend, AfterDone,
Fin1, Fin2, AfterParked, AfterRequeue, RequeuedCount, RequeuedStop;
`qi_coro_spawn` is SpawnedDone, SpawnedParked, SpawnedReady, SpawnedCount;
`wake` is WakeNext, WakeLocal, WakeGlobal, WokenCount; `qi_coro_cancel` is the
four Cancel actions; `qi_coro_run_all` is MainRun and MainJoin;
`qi_coro_run_until_done` and `step` are MainAwait, SyncTop, SyncNone.

The body of a coroutine is generated by the compiler, which is not in this
repository.  It is modelled as a sequence of instructions, each making the calls
its documentation in `coro.rs` prescribes: try to send, and park when told to;
try to receive, park, and try again; poll a future and yield until it is done;
run a new coroutine's ramp at once and then call `qi_coro_spawn`.  A program is
a body per coroutine and a list of calls of the main thread; `Programs` is a
constant, and `Init` chooses one.

Undefined behaviour.  Resuming or destroying a frame that another thread is
executing, or has not yet finished looking at, is undefined in LLVM.  A thread
that does so goes to the position `ub`, after which the model stops: nothing is
claimed about such executions beyond that point.

What is left out: the values coroutines return, `QI_CORO_SPIN` (default 0), and
notifications of the condition variable, which can only shorten a wait that ends
after 2 ms anyway.  The clock is a flag per coroutine, `asleep`, that falls at
any time.

### The reliable stream

State.  `sessionOpen`, `history`, `revision` are the session's entry in the
session pool and `poolLock` who holds that pool for long.  Each stream has the
fields of its metadata (`status`, `terminal`, `nextSeq`, `answer`, `usage`,
`fate`; `opened` and `base` are the revision and the history it was opened
with), the flag `cancelled`, and its queue: `events` are all events ever queued
and `taken` counts those received, so the queue is the difference.  Nothing that
was queued is forgotten, which is what the properties about numbering and
terminal events talk about.  `sendLock` is the holder of the send lock and
`outgoing` the event it has numbered and not queued yet.  `wpc` is the position
of the stream's worker thread, `cancels` the cancel threads that have not run,
`pc` and `target` the call of each caller.

Actions.  `send_event` is SendEvent (number the event, unless the stream is
over) and Put (queue it, when there is room); the worker is WorkerTop to
WorkerDrained, one action per kind of frame a provider sends; the exported
functions are Open, NextCheck/NextReceive (blocking read),
NextCheck/NextReceive/NextTimeout (timed read), Cancel with CancelThreadSend and
CancelThreadPut, CommitCheck/CommitWrite/CommitRefused, Abort, CloseRemove and
CloseCancel.  `chat`, `append`, `clear` and `close_session` are the other calls
that change the history.

Mutexes.  A region under a mutex that waits for nothing is one step.  Three
mutexes are kept while their holder waits, and are variables: the send lock
(until the queue has room), a stream's metadata (commit waits for the session
pool with it) and the session pool (chat keeps it for an HTTP request).

What is left out: JSON, the text of deltas and of errors, tapes that record a
stream, several sessions (a stream belongs to one for ever), and the HTTP client.
A provider sends any sequence of deltas, usage reports, malformed frames, finish
reasons and "[DONE]", may fail at any time, and may fall silent.

### Tool control

State.  `slots`, `free` are the registry, with a generation per slot; `handle`
remembers what create returned for each control, which are numbered in the order
of creation.  `cancelled` and `finished` are a control's atomic flags; `reason`,
`finish` what is recorded under its mutex, `dataLock` its holder.  `progress` is
the queue of reports, which are numbered so that order and loss can be told;
`pushed`, `popped`, `dropped` count them.  `thread` is the call of each thread.

Actions.  Lookup is the registry's part of every call: the handle must carry its
slot's generation.  `cancel` is BeginCancel, CancelFlag, CancelRecord, Notify;
`finish` the same; `release` empties the slot and then cancels with the reason
"released".  `is_cancelled`, `cancel_reason` and `remaining_ms` differ only in
what they return and are one action, Look, whose effect is to cancel for a
deadline that has passed.  `wait` is WaitExpire, WaitDecide, sleep, WaitWoken,
with spurious wake-ups and with the timeout and the deadline as flags that fall
at any time.  `push_progress` is Push, `pop_progress` is Pop.

What is left out: the payloads and their encoding, invalid arguments (which
change nothing), and the length of time.

### The services

Each of these modules has one record per calling thread (`...Thread`): its
position `at` and what it has in its hands.  An exported function begins at
position "idle" and returns to it.  A step is a region under a mutex, one access
to an atomic flag, or one exchange with the outside; a mutex is a variable only
where its holder waits with it.  The prefix of a variable names its module.

`GoChannels`: `ChanLookup` takes the registry (create, receive and the tries keep
it across the clone of the channel), `ChanReceive` waits with the receiver's
mutex, and a try_receive may wait for that mutex with the registry's.
`GoHandles`: `GorOutcome` stores the outcome,
`GorNotifies` wakes, `GorCheck` is what all three joining calls do under the
mutex, and sleeping ends spuriously too.  `Futures`: a task ends a future in
three ways, `TaskResult` (the value), `TaskState`, `TaskNotifies`, `TaskDrains`
(wakers of state machines); `FutSubscribe`, `FutLook`, `FutSleep` are the loop of
an awaiting thread, `FutRegister` and `FutPush` that of a state machine.

`ProgramMutexes`: `muxHeld` are the mutexes as the operating system knows them,
`muxFiled` the guards filed under their handles; `MuxAcquire` and `MuxFile` are
the two halves of a lock, `MuxDestroy` and `MuxUnregister` those of a destroy.

`Mailboxes`: letters are numbered by acceptance per mailbox; the heap holds
(due time, serial number, mailbox); the timer thread is `TimerLooks`,
`TimerPosts`, `TimerPushes`, `TimerWakes`, and `MailTick` is the clock.

`DbPool`: `dbOpen` are the connections on which the server has a transaction
open, `dbDead` those that broke; `Borrow` is r2d2 (external): an idle connection,
or the replacement of a dead one, or a time-out.  `DbPin...` is the transaction
of the connection-level interface, `DbTx...` that with handles, `DbClose`,
`DbCloseTable` and `DbSweep` the closing, which rolls back what it finds.
`DbHandles`: `dhActive` is the transaction a handle takes to be open, `dhSql`
whether SQLite has one; `DhTxOpen` begins it under the connection's mutex and
`DhFile` enters it into the table under another, `DhEnd` and `DhUnfile` the
reverse, `DhClose` takes the handle out and `DhRollsBack` comes later; `SqlFalls`
is SQLite that rolls back on its own when a statement or a commit fails.  A write is
known by the transaction it was made in; `dhPending`, `dhKept` and `dhLost` say
what became of it.
`SqlPlaceholders` has no steps of its own: `Rewrite` is the scanner as a fold
over positions, and `QuotedStays` compares it with a separate definition of what
is quoted.

`McpStdio`: the pipes are `mcpInput` and `mcpOutput`, the reading thread routes
answers by number (`McpRoute`), replies to the server's own requests
(`McpReply`) and raises the end flag (`McpEof`) at the end of the output or at a
line that is not UTF-8 (`NextIsBroken`).  `McpHttp`: one connection
under a mutex, `httpWire` the requests whose response was not read; a failure
reconnects once per request.  `McpServer`: the three writes under the lock of
standard output are steps, the push to every registered connection is one;
`MsvConnects` to `MsvLeaves` are the thread of a connection that is kept open.

`RcArrays`: one atomic operation on one count per step; `PrepareMut` decides on a
copy and `LeaveOld` gives the old array up.  `Collector`: one operation on one of
the shared tables per step; `GcMarks` marks one object, `GcSelects` iterates the
table, `GcSweeps` frees one.

`Subprocesses`, `RedisSubscription`, `HttpStreams`: a thread moves lines,
messages or chunks to a queue, callers take them with time limits, a flag or a
state tells the end.  A child may write a line that is not UTF-8 (`subBad`), at
which the reading ends.  Bodies are bytes 1..n with the places where characters end,
so that a chunk can cut a character; one byte may be invalid.

`GrpcServer`: a stream is dispatched, its reading leg (`GrpReads` to
`GrpReadEnds`) queues messages and raises flags, its writing leg (`GrpWrites`,
`GrpTooLong`, `GrpExpires`, `GrpSeesReset`) tells the client; `grpTable` is the mutex of
PENDING_CALLS, which a send keeps while the outbox is full.  `GrpcCalls`:
`GclPasses` and `GclPicks` look at one backend each.  `GrpcStreams`: one task has
both legs of a client's stream; the reading leg reads, parses and queues a
message (`GstReads`, `GstParses`) and tells the end by a status and then a flag
(`GstTrailers`, `GstFinishes`), and `GstFree` drops what the program holds, with
the half-close where there is no room for it.

`WebSockets`: a frame is a header and a payload that need not arrive together;
`wsAhead` is what was read too early, `wsSendLock` and `wsConnLock` the two locks
of a TLS connection.  `Listeners`: the handler `LisLoads`/`LisShuts` walks the
slots between any two steps of the program; a socket is its number, which the
operating system gives away again.

`LlmSessions`: a question is asked with the pool's mutex (`LlmAsk`, kept until the
provider has answered) or with a copy (`LlmChatAsync`, `LlmTaskAnswered`,
`LlmTaskWrites`); exchange and commit are two calls.  `llmCost` counts what the
provider has answered, `llmFree` what of it nobody has charged.  `LlmStreams` extends it with
streams whose close writes the history and the tape.

## 3. Runs

| Run | Instance | Distinct states | Shows |
|---|---|---|---|
| `coro_one` | 1 worker, 4 coroutines, channels of capacity 1 and unbounded, 4 programs, fair | 1,980 | `DeadlockIsReal`: a dead-lock is announced only if every live coroutine is parked. `StopsWhenDone`: `run_all` ends without one only if no coroutine is alive. `SendersWaitWhenFull`: senders are parked only on full channels. `Finishes`: every program reaches its end with all coroutines finished, and the starved one announces its dead-lock on the way |
| `coro_many` | 2 workers, 5 coroutines, 5 programs | 48,700 | `TypeOK`. `CountersAgree`: each atomic counter equals what it counts, up to the updates that threads are in the middle of. `ExactlyOnePlace`: a live coroutine is in exactly one queue, slot, waiter list or worker. `NoLostWakeup`: no receiver sleeps beside a value nobody else is coming for. `StealNeverBlocks`. `ChannelsAreFifo`: the detailed channels implement `FifoChannels` |
| `coro_frame` | 2 workers, program FanIn | | finding 1 |
| `coro_false_deadlock` | 2 workers, program FanOut | | finding 2 |
| `streams` | two plans: 1 stream with 2 readers who also cancel and close, all kinds of frames; 2 streams committed and aborted while the history changes; queue of 3, 2 deltas, 1 cancel thread, 2 changes of the history, symmetric streams | 768,320 | `TypeOK`. `EventsGapless`, `TerminalOnceAndLast`. `AnswerIsStreamed`: the answer of a completed stream is what was streamed. `NoSilentEnd`: a worker leaves without a terminal event only if a cancel thread is to send it or the handle was closed. `ImplementsLedger`: refinement of `HistoryLedger` |
| `stream_live` | 1 stream, a reader and a caller that cancels, commits, chats; queue of 6, fair | 59,069 | `CancelReleasesReaders`, `TimedReadsReturn` when the queue never fills and nobody closes |
| `stream_full` | 1 reader that polls, queue of 2 | | finding 3 |
| `stream_closed` | 1 reader, 1 caller that closes | | finding 4 |
| `services` | every service and the tool control, 2 threads, symmetric threads and connections | 652,843 | the safety properties listed below |
| `services_live` | the services with liveness properties, fair | 61,007 | the liveness properties listed below |
| `grpc_full_outbox` | 1 call, outbox of 1, 2 sends | | finding 5 |
| `gc_birth` | 2 threads that allocate and collect | | finding 6 |

What `services` shows, by property:

- `FlagsTellRecords`, `ProgressKept`, `FirstWins`, `SlotsOnce`,
  `HandlesReachTheirs`: tool controls.  Who saw a flag raised finds a record
  under the mutex; no report is lost uncounted or overtaken; the first reason
  and the first result stay; a handle reaches its own control or nothing, the
  wrapping of generations included.
- `LettersKept`: of mailboxes, accepted letters come once and in order, and the
  timer never sleeps beyond the first that is due; of the MCP server, whole
  lines, one answer per request, each event to each listener until another of its
  session takes its place or removes it.
- `EndsComeLast`: MCP clients, child processes, gRPC servers and the streams of
  gRPC clients tell the end only after everything that came before it; what is
  before it is what could be read: a line that is not UTF-8 ends the reading of a
  child's or an MCP server's output while it still runs.
- `NothingLeftBehind`: an idle database connection has no transaction, a
  connection is in one place, and nobody gets the response to another request;
  what a transaction on a file wrote is kept only if it was committed, or written
  after SQLite itself had rolled back, and lost only if it was not; the tables
  agree with what SQLite has open.
- `FreedWhenUnheld`: counts of arrays and elements equal their references; a
  collection by the only user of the memory frees what cannot be reached.
  `FreedOnce`: whoever frees, it happens once.
- `TextsAsSent`: bodies and WebSocket messages, however they are cut.
- `GuardsAccounted`: a held mutex has exactly one guard.
- `RestartsDropNoCall`: no gRPC call ends as UNAVAILABLE in a rolling restart.
- `PlaceholdersRewritten`: statements, against a definition of quoting.
- `ConversationsKept`: questions and answers in pairs, nothing written over a
  newer history; what was answered is what was charged and what was free, and free
  are only asynchronous chats and exchanges nobody commits; one request of each
  thread beyond the budget; on the tape the streams whose provider had ended, whole
  if the reader was told so.
- `ServiceTypes`: the types of all.

What `services_live` shows: `WaitersReturn` (tool control), `SendsReturn`
(goroutine channels, up to the try_receive that keeps the registry, section 5),
`WakeUpsReach` (joiners, awaiters), `AnswersReach` (MCP
client), `StopsReach` (subscriptions that were given up; accepts after a signal; a
stream that was freed: its server learns of it or, where the half-close had no
room, the writing leg ends with the server's own end),
`CallsTold` (gRPC calls, with an outbox that has room).

### Bounds

Scheduler.  Two workers are enough for every pair of racing steps; a third would
add only a second thief.  The programs are chosen so that each mechanism runs: in
FanOut one sender wakes four receivers, so its worker fills NEXT, then its local
queue with three, from which the other worker steals two; in FanIn and Contended
senders and receivers are parked on the same full channel, which exercises
promotion; Nested spawns inside a coroutine; Cancelled removes a coroutine that
may be queued, running or in between.  The programs are finite, so the state
space is: nothing else is bounded.

Streams.  `MaxDeltas`, `MaxCancels` and `MaxRevision` bound what providers send,
the cancel threads that have not run, and the changes of the history.  A queue of
3 is full in the middle of an answer of two deltas with its terminal event.  Two
streams and two changes of the history are the fewest in which a commit can miss
a change that another commit has made after a clear.  `stream_live` has a queue
that holds all events of its stream, because finding 3 is about a full one.

Services.  Two threads race for each; a third takes part wherever the runtime
has one of its own (the mailboxes' timer, readers, legs, tasks, the handler).
Queues have room for one (`MailCapacity`, `SubQueueLimit`, `GrpcQueueLimit`,
`OutboundDepth`, `McpPipe`, `InputRoom`, `ChunkRoom`), so that a second entry
meets a full one; counters that only tell things apart go to two or three
(`MaxLetters`, `MaxRequests`, `MaxPosts`, `MaxTransactions`, `MaxLines`,
`MaxMessages`, `MaxMutexes`, `MaxChannels`).  `MaxGeneration` is 0x7fffffff in
the code and 2 here, so that the wrap happens.  Two connections, one death and
two transactions are the fewest in which a transaction can meet a replaced
connection while another is open.  `MaxStreams` 3 lets a request reconnect twice.
One database with two transactions lets each interfere with the
other's begin and end (`MaxConnects`, `MaxDbTxs`).  A stream of two messages has one in
the inbox while the other is read (`MaxStreamed`); `StreamDepth` is the room of
its outbox, `MaxStreamSends` the messages the program sends, `StreamUsers` the
threads that use it, one of them in the fair run, whose outbox of one is full when
a stream is freed with a message in it.  Channels of the fair run have two users
(`ChannelUsers`).
Three arrays and two elements allow a copy of a copy; two addresses and three
births the reuse of an address.  Bodies of two bytes have every way to cut two
characters or one, with an invalid byte anywhere.  Statements of up to four units
over three alphabets (quotes and escapes; comments; names, numbers and operators)
have every opening, a `?` and every closing.  `ConversationUses` and `ServerUses`
say which calls a program makes together: programs that use everything at once
only repeat the interleavings of these.  Two connections to an MCP server are the
fewest of which one can name the other's session.  `ListenerSlots` is 16 in the
code and 2 here, for 2 sockets.

### Fairness

Scheduler.  Each thread is weakly fair (the operating system schedules it; no
step of the model waits for a resource that is held for ever), and so is the
passing of time.  `Finishes` needs both; the safety properties need neither.

Streams.  Workers, cancel threads and calls that have begun are weakly fair,
time-outs included; providers are not fair and callers need not call.  Rust's
mutexes are not fair, so a thread may lose a mutex to a stream of other callers
for ever; `Quiet` assumes that callers some day stop beginning the two calls that
keep a mutex for long, commit and chat.

Services (`FairServices`).  A call that has begun goes on, and so do the
runtime's own threads, tasks and legs and the signal's handler: weak fairness of
each.  A program need not call, a goroutine's or a task's body need not end, a
server need not answer, time need not pass: the properties speak of waits whose
reason is gone.

Dead-lock checking is on in the coroutine runs: some thread can always take a
step until the main thread has ended.  In the other runs it is off, because the
callers may stop calling, a provider may stay silent, a reader may wait for
either, and the bounds are reached; that calls return is stated by the liveness
properties instead.

## 4. Proofs

The theorems hold for every value of the constants that satisfies the named
assumptions of the module they are about.

### Scheduler

`CoroSchedProofs`: any number of workers, any coroutines, channels, capacities
and programs (at least one worker, a null pointer that is no coroutine, natural
capacities, well-formed programs).

- `TypeCorrect`: `Spec => []TypeOK`.
- `StealingNeverBlocks`: `Spec => []StealNeverBlocks`.  A thief holds its
  victim's mutex and then takes its own (coro.rs:315-322).  Two workers stealing
  from each other would wait for ever if a thief's own mutex could be held by
  another thief.
- `SendersOnlyWaitWhenFull`: `Spec => []SendersWaitWhenFull`.
- `ChannelsImplementFifo`: `Spec => ChannelsAreFifo`.

None is inductive.  `TypeOK` depends on each position having its data (a
thread that wakes has someone to wake, a thread that returns from a ramp has a
frame on its stack): `ThreadShape`.  `StealNeverBlocks` holds because a worker
gets to stealing only with an empty local queue (`SearchersEmpty`), only the
owner adds to a local queue, and a thief locks only a queue it saw not to be
empty (`LocalLockHeld`, `MineHoldsVictim`).  `StealInv` is the conjunction;
`StealInvariant` proves it inductive with one lemma per action of `Next`.

That nobody waits to send while there is room needs to know who may still be
about to wait: a worker whose coroutine has announced an intent to park and has
not parked (`IntentWaits`), and what it executes.  `ChanInv` is `StealInv` with
the frames on the workers' stacks (`FramesRun`: they execute; `FramesApart` and
`WorkersTogether`: none is on two stacks or twice on one), `IntentWaits` and the
property; `ChannelInvariant` proves it.  The refinement follows step by step: each
action leaves every channel's contents alone, adds one value at the end of one or
takes the oldest of one, promotions and hand-overs included.

`CoroPlacesProofs` is about *regular* programs (`Regular` in `CoroSchedProps`), which
never cancel, call `run_all` once, and in which no coroutine spawned by another parks
before it has yielded.  Each condition excludes something the code does: cancelling
takes a coroutine out of the queues and counts it down in steps others see, and
may destroy a frame that another worker executes; a second `run_all` begins with
what a dead-lock announced in error left in the NEXT slots and local queues of
threads that are gone; and `park_recv` in a ramp inside a coroutine parks CURRENT,
which is the spawner (coro.rs:747).  Everything else is arbitrary: what the
coroutines send, receive, await and spawn, when they sleep, how many they are.  Of
the programs the runs use all of `coro_many` but Cancelled are regular, of
`coro_one` Contended and PingPong (`RegularButOne`, `RegularTwo`).

- `OnePlaceEach`: `Spec => [](Regular(prog) => ExactlyOnePlace)`.
- `CountersTellTheTruth`: the same of `CountersAgree`.
- `StopsOnlyWhenDone`: the same of `StopsWhenDone`.
- `NoWakeupIsLost`: the same of `NoLostWakeup`.
- `OneWorkerDeadlocksAreReal`: the same of `DeadlockIsReal`, if `N = 1`.  With two
  workers it is false, which `coro_false_deadlock` shows.

`SchedInvariant` proves what is behind them inductive, in layers that each assume
those before:

- `ShapeInv`: what a thread has in its hands at each position, that the
  ramps above the resumed coroutine on a stack were spawned inside a body and have
  not yielded (`RampsRun`), and what `run_all` says of the flags (`RunOnly`).
- `PlacesInv`: the places a coroutine can be in are lists (`lists`); no two of them
  share a coroutine and none has one twice (`Apart`), what is in one is alive, and
  what is alive is in one until a dead-lock is announced; LIVE is the number of the
  living; and after a shutdown without a dead-lock nobody lives (`Finished`).  Most
  actions only move the head of one list to the end of another or leave the lists
  alone (`Steady`); a birth, an end and a hand-over to a channel are proved one by
  one.
- `CounterInv`: RUNNING, SCHEDULABLE and HANDOFF.  Each action is shown to add to the
  set that a counter stands for, to remove from it, or to leave it alone, just when
  it does so to the counter.

`SoloInv` adds for a single worker that nothing changes between its three looks, so
that what it has seen is still so when it announces the dead-lock.  `WaitInv` is for
lost wake-ups: who is on a channel's list of receivers is at a receive from it
(`Waiters`), an intent to wait in a ramp is kept only while the buffer is empty
(`RecvIntent`); then each value added and each sender promoted puts the first waiter
on its way, each value taken uses up at most the one who took it, and nobody joins
the list beside a value.

### Streams

`ReliableStreamProofs`: any number of streams and callers, any capacity of at
least one, any frames, whatever the bounds.

- `TypeCorrect`: `Spec => []TypeOK`.
- `EventsNumbered`: `Spec => []EventsGapless`.
- `OneTerminalEvent`: `Spec => []TerminalOnceAndLast`.
- `EndsAreTold`: `Spec => []NoSilentEnd`.
- `AnswersAreStreamed`: `Spec => []AnswerIsStreamed`.
- `StreamsImplementLedger`: `Spec => ImplementsLedger`.

Gapless numbers need to know where the next number is between its use and the
queueing: with the holder of the send lock (`Sending`).  One terminal event needs
`TerminalKnown`: once a terminal event is queued or about to be, the metadata
says so, and whoever sends next looks there first.  Together they are `EventInv`.
The refinement needs that the answer of a completed stream does not change
(`CompletedIsOver`: its worker is done with it), that an unchanged revision means
an unchanged history (`RevisionTells`), and that a commit about to write still
holds the metadata it has checked (`CommitterHolds`): `CommitInv`.  `Invariant`
proves both inductive together, one lemma per action; then each action is shown
to be a step of `HistoryLedger` or to change nothing it sees.

No end is silent because the flag of a cancelled stream means that its end was
told, that a cancel thread is on its way to tell it, or that its handle was closed
(`EndTold`), and a worker leaves after a terminal event or because of that flag;
`ClosingTook` says of the closing caller that it has taken the handle of a stream
that was opened.

The answer is what was streamed because, until the stream ends in another way
than well, what its worker has added to the answer is on record but for the delta
that is under way (`AnswerTold`), and what is on record when it completes is all
there will be but its terminal event (`LastIsTerminal`).  `Streamed` says of which
events the answer is made by numbering them, which a prover can follow where
`SelectSeq`, a recursive function, would stop it.

### Tool control

`ToolControlProofs`: any number of threads, controls, reports and generations,
any capacity.

- `TypeCorrect`: `Spec => []TypeOK`, that no queue grows beyond its capacity
  included.
- `SlotsNeverShared`: `Spec => []SlotsOnce`; `HandlesReach`:
  `Spec => []HandlesReachTheirs`.
- `RecordsTold`: `Spec => []FlagsTellRecords`; `FirstStays`: `Spec => FirstWins`.
- `ReportsDelivered`: `Spec => []ProgressKept`.

`ToolInv` is inductive (`Invariant`); its parts are independent but for the
control a thread is on.  `HandleInv` adds to `SlotsOnce` that a slot in use holds
the last of its tenants (`SlotsKnown`) and that its generation is the one of any
earlier tenant's handle advanced by the number of releases since
(`GenerationsTell`, for fewer than `MaxGeneration` releases; the releases are
counted by the tenants, whose set is finite).  A handle that reaches another
control therefore has at least `MaxGeneration` tenants behind it.  `OutcomeInv`
says what a raised flag without a record means: the holder of the mutex is
between the two (`FlagsRaised`, `RecordersHold`).  `ReportInv` is `ProgressKept`
with the bound on the queue, and that a control has no reports before it is
created.

### Services

A service is proved about alone; `ServicesProofs` then shows that every step of
the services together is to each of them a step of its own or none, and puts the
parts of a property that a run checks together again.

`StoreProofs`: any number of threads, addresses, roots, arrays and elements,
whatever the limits.

- `MemoryFreedOnce`: `[]FreedOnce`.  Inductive together with the shapes of the
  threads' records (who is about to free something has taken it out of the table).
- `CollectionsAreExact`: `[]CollectsExactly`, of a thread that uses the memory
  alone.  `AloneInv` says, position by position, where its collection is: what it
  has marked and what it still has to mark lie between the roots and what can be
  reached; while it sweeps, the table is what lives and what it has selected;
  unlinking an object that cannot be reached changes nothing that can.
- `ArraysAreCounted`: `[]RefsCounted`.  `RcInv`: the count of an array is the
  number of the threads that refer to it and it is being emptied once, by whoever
  took the last reference (`Referring`); who writes to or copies an array is the
  only one to refer to it (`WritersAlone`); and the count of an element is the
  number of the arrays that own it, with the one copying or emptying an array
  keeping pace with its count (`Owning`, `OwnersCounted`).

`ServicesProofs.MemoryIsFreedWhenUnheld`: `ServiceSpec => []FreedWhenUnheld`.

`ProgramProofs`: any number of threads, mutexes and guards.
`GuardsAlwaysAccounted`: `[]GuardsAccounted`.  It needs `OnMutex`: a thread that
waits for, has taken or is about to file a mutex names one that was created.

The same module, about what else a program works with:

- `LettersAreTakenOnce` and `TimerNeverOversleeps`: `[]LettersOnce` and
  `[]NoOversleep` of any number of mailboxes, letters and delays.  `MailInv` adds
  who holds which mutex and which box a thread is about, and `SerialsDiffer`: no
  two delayed letters have the same number, on the heap or on the way to it, so
  the heap has one first letter (`TopIsFirst`) and a letter that is not the first
  cannot be due before what the timer sleeps for.
- `ConversationsAreKept`: `[]ConversationsKept` for a finite set of threads, which
  the bound on the requests beyond a budget counts.  `LlmInv`: a question
  and its answer are added in one piece (`QuestionsAnswered` is inductive with
  `AnsweredAppend`); a revision somebody has read is no newer than the current one
  (`RevisionsRead`), and every change makes a new one; what was spent and the
  threads that still have to charge a request stay below the limit and the number
  of threads (`BudgetOwed`, with `LlmOwing`); a stream on the tape has its end, and
  whoever was told so has read it (`StreamsWhole`), because whoever waits for its provider keeps the
  streams to itself until it has told what came (`AtStreams`).
- `BodiesAreText`: `[]TextIsBody` of any body and any way to cut it into chunks.
  `HstInv`: what waits in the queue are chunks of the body in order, reaching from
  what was received to what the reading thread has read (`ChunksInOrder`), handed
  out and kept are what was received, but for the chunk in hand (`TextSoFar`), and
  nothing comes or is kept after the end (`EndIsEnd`).
- `TextsAreWhole`: `[]TextsWhole` of any number of texts, pings and threads, over
  TCP and TLS.  `WsInv` follows the stream of halves of frames from the reader's
  hands through what was read ahead and what is in the socket to what the peer has
  still to send: headers and payloads take turns (`WsAlternates`), each frame of a
  text is the one that comes after the one before it (`WsChained`), and the
  reader is where the first of them goes on (`WsReaderAt`), every text before that
  returned or passed over at a time limit (`WsSettled`).  It says so only while
  somebody can still read (`WsLive`): once a close has begun the bytes no longer
  matter, and a read fails.

`StoreProofs` again: any number of threads, connections, transactions and deaths.

- `IdleAlwaysClean`: `[]IdleConnectionsClean`.  `DbInv` adds `Separate` (a
  connection is in one place: idle, pinned, in one slot or in one thread's hands)
  and `Hands` (what the thread at each position may have in its hands, and whether
  the server has a transaction open on it): a connection goes back to the pool
  from few positions, and at each of them the transaction is over or the
  connection broken.
- `ConnectionsStayKept`: `[]ConnectionsKept`.  `DbKeptInv` is `DbInv` with who
  holds the pinned connection's mutex (`Pinning`), that a transaction's number is
  given to one thread (`Numbers`), and that every connection is somewhere
  (`Placed`).
- `TransactionsStayFiled`: `[]TransactionsFiled` of databases that are one file.
  What is on record may differ from SQLite and from the table only for the thread
  that carries the transaction between the two.
- `TransactionsAreWhole`: `[]TransactionsWhole`, whenever SQLite rolls back on its
  own.  `DhWholeInv` adds who may still write into an open transaction, and
  that what was committed was the transaction on record.

`ServicesProofs.NothingIsLeftBehind`: `ServiceSpec => []NothingLeftBehind`.

`PeersProofs`: any number of threads, backends, calls, messages and lines.

- `LinesComeBeforeTheEnd`, `AnswersComeBeforeTheEnd`, `MessagesComeBeforeTheEnd`,
  `StreamsAreReadWhole`: the four parts of `EndsComeLast`.  Each has an invariant
  of the same kind: the flag is up only when whoever fills the queue is past its
  last message, and who was told the end looked into the queue after the flag.
- `ResponsesAreOnesOwn`: `[]OwnResponses`.  The responses on a kept connection are
  those of requests given up, and the last one is whose who holds the mutex
  (`HttpWireClear`).
- `RestartsAreSurvived`: `[]RestartsDropNoCall`.  A call ends unreached
  when each of its tries was cut, each by a fall of its own (`TriesAreFalls`), or
  when a pick was refused by every backend twice: the refusals of the first round
  have a trace of a fall each (`TroubleIsAFall` counts them), and those of the
  second a further fall each, because by then the backends can only fall one at a
  time (`OneDown`, `SecondRound`).  The first attempt at this proof
  failed: with three falls, two backends and three tries there is a run in which
  a call is dropped, and the property now asks for fewer than `2 * NBackends - 1`
  falls, where it had asked for fewer than `2 * NBackends`.
- `LinesStayWhole` and `RequestsAreAnsweredOnce`: `[]LinesWhole` and
  `[]AnsweredOnce` of an MCP server.  `StdioInv`: one thread writes at a time, half
  a line is out only while it does (`WritersLock`, `LinesUnderWay`), and every
  request that was taken and has an answer is answered, in order, but for the one
  its reader is at (`StdioServed`, `RepliesOwed`).  `FirstAnswered` says it with the
  positions of the answers among the lines.
- `EventsReachAll`: `[]EventsReach`, whatever sessions the clients name.  `EventInv`:
  a session's entry is a channel of that session with somebody to receive from it
  (`Sender`), the only connection of a session keeps its entry (`OwnChannel`), and
  what a connection was given and what waits in its channel are the first of the
  notifications since it joined, and all of them while it is registered (`Given`).

`ServicesProofs.EndsAlwaysComeLast`: `ServiceSpec => []EndsComeLast`.
`ServicesProofs.LettersAreKept`: `ServiceSpec => []LettersKept`.
`ServicesProofs.ServicesKeepConversations`:
`ServiceSpec => []ConversationsKept`, for finitely many threads.
`ServicesProofs.TextsArriveAsSent`: `ServiceSpec => []TextsAsSent`.

### Only model-checked

- `DeadlockIsReal` with more than one worker is false (finding 2).  Of programs that
  are not regular `coro_one` and `coro_many` check `CountersAgree`,
  `ExactlyOnePlace`, `NoLostWakeup`, `StopsWhenDone` and `DeadlockIsReal` on
  examples: Cancelled, Sleepers and Starved.
- What `Rewrite` computes (`PlaceholdersRewritten`): a fold, again recursion over
  data.
- `ServiceTypes`: type correctness of the services together; the proofs above carry
  the types they need in their own invariants.
- All liveness properties, which are out of this prover's reach.

## 5. Findings

1. `coro_frame`.  coro.rs:22 says a coroutine's frame is held by one worker at
   any time.  `qi_coro_chan_park_recv` publishes the running coroutine on the
   waiter list before it has suspended, so another worker can be about to resume
   it while the first still executes it.
2. `coro_false_deadlock`.  coro.rs:36-38 says false dead-locks are gone and
   coro.rs:262 that RUNNING rises under the lock of the removal.  After a local
   pop or a steal SCHEDULABLE falls first and RUNNING rises later, outside
   READY's lock; an idle worker that looks twice in between announces a
   dead-lock.
3. `stream_full`.  llm_ffi.rs:2086 says a timed read blocks for at most its
   time-out.  The worker keeps the send lock while it waits for room (1332), and
   the reader takes that lock before it receives (2102): a reader that begins
   after the queue has filled waits for the lock, the worker for room, and nobody
   moves any more.
4. `stream_closed`.  llm_ffi.rs:2206 says close cancels a running stream, and
   2122 that cancelling wakes the blocked readers.  Close only raises the flag
   (2211-2214); the worker then leaves without a terminal event, and because the
   stream owns both ends of its queue the reader is never woken.
5. `grpc_full_outbox`.  grpc_ffi.rs:642 says that when the time is up the runtime
   itself tells the client.  A send keeps the mutex of PENDING_CALLS while the
   call's outbox is full (1012-1018), and the writing leg that should make room
   takes the same mutex when the deadline has passed (646).
6. `gc_birth`.  manager.rs:158 says that objects that come into being after the
   marking are born roots and not collected by mistake.  `allocate` inserts the
   object into the table (103) before it adds the root (104); a collection that
   selects in between frees what `allocate` then returns.

Seen while modelling.  The models contain all of them, and the properties name as
exceptions those they would otherwise rule out; what the repository says is quoted
where it disagrees.

- `Futures.MachinesPolled` does not hold: a state machine that looks at the state
  before the end and pushes its waker after the waiting ones were taken
  (future.rs:97-109) is not polled.
- `GoChannels`: try_receive waits for the receiver's mutex, which a blocked receive
  holds (mod.rs:713), and keeps the registry, so that every send waits too and the
  value that would free them never comes.  That is against mod.rs:572 (a send never
  contends with a blocking receive) and 700 (without blocking).  `SendsReturn` names
  it as the one thing that keeps a send.
- `McpServer`: an older connection removes the channel of the newer one of its
  session when it goes (mcp_ffi.rs:1214), which then hears nothing; `EventsReach`
  promises events to registered connections and to the only one of a session.
  `initialize` on a destroyed server gets no answer on
  standard input (1367), other methods do.
- `LlmStreams`: a stream closed after "[DONE]" but before all was read is recorded
  cut (llm_ffi.rs:1739; 1734 says a tape is written only when the stream was read
  dry).  An asynchronous chat charges its copy of the session and never the session
  (2937-2975; 2853 says every non-streaming call is added): while nothing else is
  charged no budget is ever spent.  `TapesWhole` and `BudgetHolds` say what
  remains true.
- `Subprocesses`, `McpStdio`: a line that is not UTF-8 ends the reading
  (subprocess_ffi.rs:84-87, mcp_client_ffi.rs:701-704).  The program is told the end
  while the child or the server runs, and nobody empties its pipe any more.
- `WebSockets`: a text whose parts lie on both sides of a time limit is passed
  over (`wsMissed`); a pong takes the send lock (websocket_ffi.rs:968), so a
  writer that is stuck stops the reader; a write over TLS keeps the connection's
  lock while the socket is full (tls_client.rs:19 expects microseconds).
- `SqlPlaceholders`: a `?` directly after or before a digit, letter or `$` makes
  another number or name of it (`?1` becomes `$11`): `RewrittenOnce` is for
  statements whose placeholders stand apart.
- `Listeners`: closing a server does not wake an accept in progress and takes its
  socket off the list, so that a later signal does not either; a program that
  does not look at the flag between listen and accept can wait for ever; a
  listener beyond the slots is not registered, and nobody is told.
- gRPC client: a request is tried again after UNAVAILABLE although it may have
  been executed.  Freeing a stream whose outbox is full loses the half-close
  (grpc_client_ffi.rs:1273), against 1264 (lest the other side waits for ever): it
  may wait as long as it likes for a message that nobody can send.  Opening
  that takes longer than 10 s leaves a task without a handle.  A message packed in a way that was not announced is dropped
  and the stream ends with status OK.
- `GrpcCalls`: more than one connection of a backend may fall in one restart of
  the others.  `RestartsDropNoCall` is stated for fewer than `2 * NBackends - 1`
  falls; with that many a call can meet each backend while it is down and find
  nobody left (three falls and three retries of two backends).
- `DbHandles`: a transaction opened while its handle is being closed leaves its
  number in the table (database_ffi.rs:340-346).  SQLite may roll a transaction
  back when a statement or a commit fails, and the handle goes on as if it were open
  (句柄.rs:178): what is written through it afterwards is kept at once, and rolling
  back does not undo it (database_ffi.rs:503 says it does).  `dhFell` are these.

## 6. Not modelled

Covered partly, with what is left out, in `PROJECT.json` under each component.
Outside altogether: the task table beside tokio (`task.rs`, `pool.rs`,
`queue.rs`, `scheduler.rs`), from which nothing is ever taken; exceptions, which
are thread-local frames with setjmp in generated code; program start-up;
containers, strings, conversions, dates, numerics: sequential functions, most of
them behind one lock, whose value-by-value behaviour TLC would only restate; the
web framework's helpers and protocol libraries (HTTP/2 frames, TLS handshakes,
DNS), which have no state machine in this repository; the GUI, debugging and
WebAssembly stand-ins; builds and tests.

## 7. Plan

Left, in order of the behaviour at stake:

1. The pool of connected TCP sockets of `network_ffi.rs`.
2. Proofs: the types of the services, and what is left of the scheduler's
   invariants for programs that cancel.
3. Scheduler: a liveness run of `qi_coro_run_until_done`, programs with two
   `run_all`s and with a child that blocks in its ramp.
