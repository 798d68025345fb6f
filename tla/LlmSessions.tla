---------------------------- MODULE LlmSessions -----------------------------
(* src/src/stdlib/llm_ffi.rs: an LLM session and what a program does with    *)
(* it.  All sessions are in one pool under one mutex, which most requests    *)
(* keep until the provider has answered.  An asynchronous chat asks with a   *)
(* copy of the session, without the mutex; exchange and commit are the two   *)
(* halves of a chat whose request the program builds.  The tape keeps        *)
(* answers under the request they answer.                                    *)
(*                                                                           *)
(* Texts are not told apart: a request is who speaks in it, and each answer  *)
(* costs a token.  The provider (external) answers, badly, or fails.         *)
EXTENDS Callers, Integers, Sequences

CONSTANTS
    Budgets,        \* limits a program sets, 0 = none
    LlmUses,        \* sets of calls and tape modes of a program
    MaxAsked,       \* bound: questions of a program
    MaxHistory,    \* bound: messages of a history that is still added to
    MaxRewrites     \* bound: revision of a history that is still rewritten

ASSUME LlmAssumption ==
    /\ Budgets \subseteq Nat /\ LlmUses # {}
    /\ MaxAsked \in Nat /\ MaxHistory \in Nat /\ MaxRewrites \in Nat

Speakers == {"user", "assistant", "tool", "summary"}
Asking == {"chat", "image", "choices", "tools", "continue"}
WithTools == {"tools", "continue"}

VARIABLES
    llmOpen, llmLimit, llmSpent,    \* the session is in the pool; its budget
    llmHistory, llmRevision,        \* messages, with the question they belong to
    llmPool,        \* holder of the pool's mutex across a request
    llmMode,        \* the environment's QI_LLM_* switch
    llmUse,         \* the calls of the program
    llmTape,        \* requests with an answer, and its number of chunks
    llmAsked,       \* questions so far
    llmTasks,       \* threads of asynchronous chats
    llmCost,        \* tokens that the session's requests cost, streams apart
    llmFree,        \*   of these, charged to no session, or not yet
    llmThread       \* of each thread: position, kind, question, what it has read

llmBill == <<llmCost, llmFree>>
llmSession == <<llmOpen, llmLimit, llmSpent, llmHistory, llmRevision, llmBill>>
llmFixed == <<llmMode, llmUse>>
llmSessionVars == <<llmSession, llmPool, llmFixed, llmTape, llmAsked, llmTasks, llmThread>>

LlmIdle == [at |-> "idle", kind |-> "none", question |-> 0, more |-> 0, stream |-> 0,
            request |-> <<>>, revision |-> -1, history |-> <<>>]

LlmAt(t, p) == llmThread[t].at = p

\* What the thread has read of the session stays with it.
LlmReturns(t) ==
    llmThread' = [llmThread EXCEPT ![t] =
                     [LlmIdle EXCEPT !.revision = llmThread[t].revision,
                                     !.history = llmThread[t].history]]

LlmGoes(t, p) == llmThread' = [llmThread EXCEPT ![t].at = p]

PoolFree == llmPool = None

WithinBudget(spent) == llmLimit = 0 \/ spent < llmLimit

\* The request's body as the key of the tape sees it.
Says(kind) == IF kind = "continue" THEN <<>> ELSE <<"user">>
Request(way, kind) ==       \* way: "whole" or "stream"
    <<way, kind \in WithTools, [i \in DOMAIN llmHistory |-> llmHistory[i].from] \o Says(kind)>>

Taped(request) == llmMode \in {"replay", "cache"} /\ request \in DOMAIN llmTape
TapeRecords == llmMode \in {"record", "cache"}
PutOnTape(request, chunks) ==
    llmTape' = [r \in DOMAIN llmTape \cup {request} |->
                   IF r = request THEN chunks ELSE llmTape[r]]

\* An answer comes from the tape or, unless only the tape may answer, from the
\* provider, and then is kept.
AnswerComes(request) ==
    IF Taped(request) THEN UNCHANGED llmTape
    ELSE /\ llmMode # "replay"
         /\ IF TapeRecords THEN PutOnTape(request, 0) ELSE UNCHANGED llmTape

Message(who, question) == [from |-> who, question |-> question]

\* What a question adds to the history, in one region under the mutex.
Turn(question) == <<Message("user", question), Message("assistant", question)>>

\* An answer is charged at once, later, or not at all.
Charged ==
    /\ llmSpent' = llmSpent + 1 /\ llmCost' = llmCost + 1 /\ UNCHANGED llmFree

Uncharged ==
    /\ llmCost' = llmCost + 1 /\ llmFree' = llmFree + 1 /\ UNCHANGED llmSpent

ChargedLater ==
    /\ llmSpent' = llmSpent + 1 /\ llmFree' = llmFree - 1 /\ UNCHANGED llmCost

Add(messages) ==
    /\ llmHistory' = llmHistory \o messages
    /\ llmRevision' = llmRevision + 1

-----------------------------------------------------------------------------
(* Requests that keep the pool's mutex.                                      *)
MayAsk(t, call, kind) ==
    /\ call \in llmUse
    /\ LlmAt(t, "idle") /\ PoolFree /\ llmOpen
    /\ llmAsked < MaxAsked /\ Len(llmHistory) < MaxHistory
    /\ kind = "continue" => llmHistory # <<>> /\ llmHistory[Len(llmHistory)].from = "tool"

Question(t, call, way, kind, p) ==
    /\ MayAsk(t, call, kind)
    /\ llmAsked' = llmAsked + 1
    /\ llmThread' = [llmThread EXCEPT ![t] =
                        [@ EXCEPT !.at = p, !.kind = kind, !.question = llmAsked + 1,
                                  !.request = Request(way, kind)]]

\* A chat, with an image or without, with tools or without, and exchange.  A
\* spent budget is told at once.
LlmAsk(t, kind) ==
    /\ Question(t, kind, "whole", kind, "asking")
    /\ WithinBudget(llmSpent)
    /\ llmPool' = t
    /\ UNCHANGED <<llmSession, llmFixed, llmTape, llmTasks>>

\* A provider without several answers to one request is asked twice; the first
\* answer is accounted before the second request, if the budget allows one.
LlmFirstChoice(t) ==
    /\ LlmAt(t, "asking") /\ llmThread[t].kind = "choices" /\ llmThread[t].more = 0
    /\ AnswerComes(llmThread[t].request)
    /\ Charged
    /\ IF WithinBudget(llmSpent + 1)
       THEN llmThread' = [llmThread EXCEPT ![t].more = 1] /\ UNCHANGED llmPool
       ELSE LlmReturns(t) /\ llmPool' = None
    /\ UNCHANGED <<llmOpen, llmLimit, llmHistory, llmRevision, llmFixed, llmAsked, llmTasks>>

\* The token is accounted even if there is no message in the answer.
Answers(t, kind, messages) ==
    /\ LlmAt(t, "asking") /\ llmThread[t].kind = kind
    /\ AnswerComes(llmThread[t].request)
    /\ Charged
    /\ \/ Add(messages)
       \/ UNCHANGED <<llmHistory, llmRevision>>
    /\ llmPool' = None
    /\ LlmReturns(t)
    /\ UNCHANGED <<llmOpen, llmLimit, llmFixed, llmAsked, llmTasks>>

LlmChatAnswered(t) == Answers(t, "chat", Turn(llmThread[t].question))

LlmImageAnswered(t) == Answers(t, "image", Turn(llmThread[t].question))

\* Of several answers the first is the conversation's.
LlmChoicesAnswered(t) == Answers(t, "choices", Turn(llmThread[t].question))

LlmToolsAnswered(t) == Answers(t, "tools", Turn(llmThread[t].question))

LlmContinueAnswered(t) ==
    Answers(t, "continue", <<Message("assistant", llmThread[t].question)>>)

LlmAskFailed(t) ==
    /\ LlmAt(t, "asking") /\ ~Taped(llmThread[t].request)
    /\ llmPool' = None
    /\ LlmReturns(t)
    /\ UNCHANGED <<llmSession, llmFixed, llmTape, llmAsked, llmTasks>>

\* exchange: the answer is the program's, who accounts for it later, if at all.
LlmExchanged(t) ==
    /\ LlmAt(t, "asking") /\ llmThread[t].kind = "exchange"
    /\ AnswerComes(llmThread[t].request)
    /\ Uncharged
    /\ llmPool' = None
    /\ \/ LlmGoes(t, "exchanged")
       \/ LlmReturns(t)
    /\ UNCHANGED <<llmOpen, llmLimit, llmHistory, llmRevision, llmFixed, llmAsked, llmTasks>>

\* Both messages and the token at once; a closed session has no place for them.
LlmCommit(t) ==
    /\ LlmAt(t, "exchanged") /\ PoolFree
    /\ IF llmOpen
       THEN Add(Turn(llmThread[t].question)) /\ ChargedLater
       ELSE UNCHANGED <<llmHistory, llmRevision, llmSpent, llmBill>>
    /\ LlmReturns(t)
    /\ UNCHANGED <<llmOpen, llmLimit, llmPool, llmFixed, llmTape, llmAsked, llmTasks>>

-----------------------------------------------------------------------------
(* Asynchronous chats: the copy's budget is checked and charged, and the     *)
(* session sees the messages only: it is not charged.                        *)
LlmChatAsync(t) ==
    /\ MayAsk(t, "async", "chat") /\ llmAsked' = llmAsked + 1
    /\ llmTasks' = llmTasks \cup
          {[at |-> "asking", question |-> llmAsked + 1, request |-> Request("whole", "chat"),
            may |-> WithinBudget(llmSpent)]}
    /\ UNCHANGED <<llmSession, llmPool, llmFixed, llmTape, llmThread>>

TaskGoes(task, p) == llmTasks' = (llmTasks \ {task}) \cup {[task EXCEPT !.at = p]}

LlmTaskAnswered(task) ==
    /\ task.at = "asking" /\ task.may
    /\ AnswerComes(task.request)
    /\ Uncharged
    /\ TaskGoes(task, "answered") \/ llmTasks' = llmTasks \ {task}
    /\ UNCHANGED <<llmOpen, llmLimit, llmHistory, llmRevision, llmPool, llmFixed, llmAsked,
                   llmThread>>

LlmTaskFailed(task) ==
    /\ task.at = "asking" /\ (task.may => ~Taped(task.request))
    /\ llmTasks' = llmTasks \ {task}
    /\ UNCHANGED <<llmSession, llmPool, llmFixed, llmTape, llmAsked, llmThread>>

LlmTaskWrites(task) ==
    /\ task.at = "answered" /\ PoolFree
    /\ IF llmOpen THEN Add(Turn(task.question))
                  ELSE UNCHANGED <<llmHistory, llmRevision>>
    /\ llmTasks' = llmTasks \ {task}
    /\ UNCHANGED <<llmOpen, llmLimit, llmSpent, llmBill, llmPool, llmFixed, llmTape, llmAsked,
                   llmThread>>

-----------------------------------------------------------------------------
(* Calls without a request.                                                  *)
Briefly(t, call) == call \in llmUse /\ LlmAt(t, "idle") /\ PoolFree /\ llmOpen
OutsideSession ==
    <<llmOpen, llmLimit, llmSpent, llmBill, llmPool, llmFixed, llmTape, llmAsked, llmTasks>>

LlmAddToolResult(t) ==
    /\ Briefly(t, "tool result") /\ Len(llmHistory) < MaxHistory
    /\ llmHistory # <<>> /\ llmHistory[Len(llmHistory)].from = "assistant"
    /\ Add(<<Message("tool", 0)>>)
    /\ UNCHANGED <<OutsideSession, llmThread>>

LlmClearHistory(t) ==
    /\ Briefly(t, "clear") /\ llmHistory # <<>> /\ llmRevision < MaxRewrites
    /\ llmHistory' = <<>> /\ llmRevision' = llmRevision + 1
    /\ UNCHANGED <<OutsideSession, llmThread>>

\* A program reads the history, with its revision, and may write it back as a
\* summary, whatever has been added since.
LlmReadHistory(t) ==
    /\ Briefly(t, "read") /\ llmThread[t].revision # llmRevision
    /\ llmThread' = [llmThread EXCEPT ![t].revision = llmRevision, ![t].history = llmHistory]
    /\ UNCHANGED <<OutsideSession, llmHistory, llmRevision>>

\* Wrong variant: the history is replaced under its old revision.
LlmSetHistoryUnversioned(t) ==
    /\ Briefly(t, "set") /\ llmThread[t].history # <<>> /\ llmRevision < MaxRewrites
    /\ llmHistory' = <<Message("summary", 0)>> /\ UNCHANGED llmRevision
    /\ UNCHANGED <<OutsideSession, llmThread>>

LlmSetHistory(t) ==
    /\ Briefly(t, "set") /\ llmThread[t].history # <<>> /\ llmRevision < MaxRewrites
    /\ llmHistory' = <<Message("summary", 0)>> /\ llmRevision' = llmRevision + 1
    /\ UNCHANGED <<OutsideSession, llmThread>>

\* Programs set the budget first.
LlmSetBudget(t) ==
    /\ Briefly(t, "budget") /\ llmAsked = 0 /\ llmLimit = 0
    /\ llmLimit' \in Budgets \ {0}
    /\ UNCHANGED <<llmOpen, llmSpent, llmBill, llmHistory, llmRevision, llmPool, llmFixed,
                   llmTape, llmAsked, llmTasks, llmThread>>

LlmCloseSession(t) ==
    /\ Briefly(t, "close session")
    /\ llmOpen' = FALSE
    /\ UNCHANGED <<llmLimit, llmSpent, llmBill, llmHistory, llmRevision, llmPool, llmFixed,
                   llmTape, llmAsked, llmTasks, llmThread>>
=============================================================================
