----------------------------- MODULE LlmStreams -----------------------------
(* src/src/stdlib/llm_ffi.rs: the first generation of streamed answers.  A   *)
(* program opens a stream with a copy of the session, reads it chunk by      *)
(* chunk and closes it, which puts what was read into the history and, if    *)
(* the tape records, the stream on it.  All streams are in one pool, whose   *)
(* mutex a reader keeps while it waits for the provider.                     *)
(*                                                                           *)
(* One read of the response brings any number of events (external).          *)
EXTENDS LlmSessions, FiniteSets

CONSTANTS
    MaxChunks,      \* bound: chunks of an answer
    MaxLlmStreams   \* bound: streams opened

ASSUME StreamsAssumption ==
    MaxChunks \in Nat \ {0} /\ MaxLlmStreams \in Nat

VARIABLES
    llmStreams,     \* the streams opened, by handle
    llmStreamPool   \* holder of the streams' mutex across a read

llmVars == <<llmSessionVars, llmStreams, llmStreamPool>>
NoStreams == UNCHANGED <<llmStreams, llmStreamPool>>
NoSessions == UNCHANGED <<llmSession, llmPool, llmFixed, llmAsked, llmTasks>>

LlmInit ==
    /\ llmOpen = TRUE /\ llmLimit = 0 /\ llmSpent = 0 /\ llmCost = 0 /\ llmFree = 0
    /\ llmHistory = <<>> /\ llmRevision = 0
    /\ llmPool = None /\ llmAsked = 0 /\ llmTasks = {}
    /\ llmUse \in LlmUses
    /\ llmMode \in llmUse \cap {"off", "record", "cache", "replay"}
    /\ llmTape \in {<<>>, [r \in {Request("stream", "chat"), Request("whole", "chat")} |->
                              IF r[1] = "stream" THEN MaxChunks ELSE 0]}
    /\ llmThread = [t \in Threads |-> LlmIdle]
    /\ llmStreams = <<>> /\ llmStreamPool = None

Become(s, stream) == llmStreams' = [llmStreams EXCEPT ![s] = stream]

\* The request goes out without a mutex, and whatever the budget.
Opens(t, call, kind) ==
    /\ Question(t, call, "stream", kind, "opening")
    /\ Len(llmStreams) < MaxLlmStreams
    /\ UNCHANGED <<llmSession, llmPool, llmFixed, llmTape, llmTasks>> /\ NoStreams

LlmStreamChat(t) == Opens(t, "stream chat", "chat")

LlmStreamChatTools(t) == Opens(t, "stream tools", "tools")

LlmStreamContinue(t) == Opens(t, "stream continue", "continue")

\* A taped stream has arrived and ended before it is read.
LlmStreamOpened(t) ==
    LET call == llmThread[t]
        taped == Taped(call.request)
    IN  /\ LlmAt(t, "opening") /\ llmStreamPool = None
        /\ taped \/ llmMode # "replay"
        /\ llmStreams' = Append(llmStreams,
              [at |-> "open", kind |-> call.kind, question |-> call.question,
               request |-> call.request, records |-> ~taped /\ TapeRecords,
               sent |-> IF taped THEN llmTape[call.request] ELSE 0,
               read |-> 0, done |-> taped, ended |-> FALSE])
        /\ LlmReturns(t)
        /\ UNCHANGED <<llmTape, llmStreamPool>> /\ NoSessions

LlmStreamRefused(t) ==
    /\ LlmAt(t, "opening") /\ ~Taped(llmThread[t].request)
    /\ LlmReturns(t)
    /\ UNCHANGED llmTape /\ NoStreams /\ NoSessions

\* The next chunk, the end, or a read of the response.
LlmStreamNext(t, s) ==
    LET stream == llmStreams[s]
    IN  /\ LlmAt(t, "idle") /\ llmStreamPool = None /\ stream.at = "open"
        /\ \/ /\ stream.read < stream.sent
              /\ Become(s, [stream EXCEPT !.read = @ + 1])
              /\ UNCHANGED <<llmStreamPool, llmThread>>
           \/ /\ stream.read = stream.sent /\ stream.done /\ ~stream.ended
              /\ Become(s, [stream EXCEPT !.ended = TRUE])
              /\ UNCHANGED <<llmStreamPool, llmThread>>
           \/ /\ stream.read = stream.sent /\ ~stream.done
              /\ llmStreamPool' = t
              /\ llmThread' = [llmThread EXCEPT ![t] = [@ EXCEPT !.at = "reading", !.stream = s]]
              /\ UNCHANGED llmStreams
        /\ UNCHANGED llmTape /\ NoSessions

\* Chunks, the first of which is handed out, and perhaps the end.
LlmStreamBrings(t) ==
    LET s == llmThread[t].stream
    IN  /\ LlmAt(t, "reading")
        /\ \E n \in 0..(MaxChunks - llmStreams[s].sent), done \in BOOLEAN :
              /\ n > 0 \/ done
              /\ Become(s, [llmStreams[s] EXCEPT !.sent = @ + n, !.done = done,
                               !.read = IF n > 0 THEN @ + 1 ELSE @, !.ended = (n = 0)])
        /\ llmStreamPool' = None
        /\ LlmReturns(t)
        /\ UNCHANGED llmTape /\ NoSessions

LlmStreamBreaks(t) ==
    /\ LlmAt(t, "reading")
    /\ llmStreamPool' = None
    /\ LlmReturns(t)
    /\ UNCHANGED <<llmTape, llmStreams>> /\ NoSessions

\* Out of the pool, onto the tape, into the history; at any time.
LlmStreamClose(t, s) ==
    /\ LlmAt(t, "idle") /\ llmStreamPool = None /\ llmStreams[s].at = "open"
    /\ Become(s, [llmStreams[s] EXCEPT !.at = "closed"])
    /\ llmThread' = [llmThread EXCEPT ![t] = [@ EXCEPT !.at = "taping", !.stream = s]]
    /\ UNCHANGED <<llmTape, llmStreamPool>> /\ NoSessions

LlmStreamTaped(t) ==
    LET s == llmThread[t].stream
    IN  /\ LlmAt(t, "taping")
        /\ IF llmStreams[s].records /\ llmStreams[s].done
           THEN /\ PutOnTape(llmStreams[s].request, llmStreams[s].read)
                /\ Become(s, [llmStreams[s] EXCEPT !.at = "taped"])
           ELSE UNCHANGED <<llmTape, llmStreams>>
        /\ LlmGoes(t, "saving")
        /\ UNCHANGED llmStreamPool /\ NoSessions

\* A text that nobody has read a chunk of is not said; with tools it may be a
\* call.  The question of a continued answer has been in the history before.
LlmStreamSaved(t) ==
    LET stream == llmStreams[llmThread[t].stream]
    IN  /\ LlmAt(t, "saving") /\ PoolFree
        /\ IF llmOpen /\ (stream.kind \in WithTools \/ stream.read > 0)
           THEN Add(IF stream.kind = "continue"
                    THEN <<Message("assistant", stream.question)>>
                    ELSE Turn(stream.question))
           ELSE UNCHANGED <<llmHistory, llmRevision>>
        /\ LlmReturns(t)
        /\ UNCHANGED OutsideSession /\ NoStreams

-----------------------------------------------------------------------------
LlmCalls(t) ==
    \/ \E kind \in Asking \cup {"exchange"} : LlmAsk(t, kind) /\ NoStreams
    \/ LlmStreamChat(t) \/ LlmStreamChatTools(t) \/ LlmStreamContinue(t)
    \/ \E s \in DOMAIN llmStreams : LlmStreamNext(t, s) \/ LlmStreamClose(t, s)
    \/ /\ \/ LlmChatAsync(t) \/ LlmAddToolResult(t) \/ LlmClearHistory(t)
          \/ LlmReadHistory(t) \/ LlmSetHistory(t) \/ LlmSetBudget(t) \/ LlmCloseSession(t)
       /\ NoStreams

LlmRuns(t) ==
    \/ /\ \/ LlmFirstChoice(t) \/ LlmChatAnswered(t) \/ LlmImageAnswered(t)
          \/ LlmChoicesAnswered(t) \/ LlmToolsAnswered(t) \/ LlmContinueAnswered(t)
          \/ LlmAskFailed(t) \/ LlmExchanged(t) \/ LlmCommit(t)
       /\ NoStreams
    \/ LlmStreamOpened(t) \/ LlmStreamRefused(t)
    \/ LlmStreamBrings(t) \/ LlmStreamBreaks(t)
    \/ LlmStreamTaped(t) \/ LlmStreamSaved(t)

LlmTaskRuns(task) == LlmTaskAnswered(task) \/ LlmTaskFailed(task) \/ LlmTaskWrites(task)

LlmNext ==
    \/ \E t \in Threads : LlmCalls(t) \/ LlmRuns(t)
    \/ \E task \in llmTasks : LlmTaskRuns(task) /\ NoStreams

-----------------------------------------------------------------------------
LlmTypes ==
    /\ llmOpen \in BOOLEAN /\ llmLimit \in Budgets \cup {0}
    /\ llmSpent \in Nat /\ llmFree \in 0..llmCost
    /\ \A i \in DOMAIN llmHistory :
          /\ llmHistory[i].from \in Speakers /\ llmHistory[i].question \in 0..llmAsked
    /\ llmRevision \in Nat /\ llmPool \in Threads \cup {None}
    /\ llmPool # None <=> \E t \in Threads : LlmAt(t, "asking")
    /\ llmStreamPool # None <=> \E t \in Threads : LlmAt(t, "reading")
    /\ \A s \in DOMAIN llmStreams : /\ llmStreams[s].read <= llmStreams[s].sent
                                    /\ llmStreams[s].sent <= MaxChunks
                                    /\ llmStreams[s].at \in {"open", "closed", "taped"}
    /\ \A t \in Threads : llmThread[t].at \in {"idle", "asking", "exchanged", "opening",
                                               "reading", "taping", "saving"}

\* "Two goroutines that chat at the same time could weave a history with a user
\* and no answer of the assistant" (llm_ffi.rs:3281): whoever asks, in whatever
\* way, a question is directly followed by its answer.
QuestionsAnswered ==
    \A i \in DOMAIN llmHistory : llmHistory[i].from = "user" =>
        /\ i < Len(llmHistory)
        /\ llmHistory[i + 1] = Message("assistant", llmHistory[i].question)

\* "The revision is what a commit of a stream compares" (llm_ffi.rs:3282): while it
\* is what somebody has read, the history is too.
RevisionsTell ==
    \A t \in Threads : llmThread[t].revision = llmRevision => llmThread[t].history = llmHistory

\* "Each call that is not streamed is added to what the session has used, and
\* once that is the limit calls are refused" (llm_ffi.rs:2853-2854).  Of the
\* requests that wait for their answer or their commit only one may be too many
\* for each thread.  What is added is the answer of every call, once, but for
\* those of asynchronous chats, which only their copies of the session know of
\* (2937-2975), and of exchanges that nobody commits: without those two nothing
\* is free; with them the provider may have answered more than the budget says.
BudgetHolds ==
    /\ llmCost = llmSpent + llmFree
    /\ llmUse \cap {"async", "exchange"} = {} => llmFree = 0
    /\ llmLimit > 0 => llmSpent < llmLimit + Cardinality(Threads)

\* "Written only when the stream was read dry" (llm_ffi.rs:1734): the provider
\* has nothing more to say, and who read on until told of the end has all of it
\* on the tape.  Who closes the stream between the provider's end and the last
\* chunk has a cut answer there, which the comment rules out: what is recorded is
\* what was read, and the stream is complete when the rest has arrived.
TapesWhole ==
    \A s \in DOMAIN llmStreams : llmStreams[s].at = "taped" =>
        /\ llmStreams[s].done
        /\ llmStreams[s].ended => llmStreams[s].read = llmStreams[s].sent

\* A session's history is whole, has its revision, and costs what it may; what
\* is on the tape was read to its end.
ConversationsKept == QuestionsAnswered /\ RevisionsTell /\ BudgetHolds /\ TapesWhole
=============================================================================
