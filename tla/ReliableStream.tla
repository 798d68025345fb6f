--------------------------- MODULE ReliableStream ---------------------------
(* The v2 streams of src/src/stdlib/llm_ffi.rs.  A worker thread per stream *)
(* turns the provider's frames into numbered events and puts them in a      *)
(* bounded queue; callers read the events, cancel, close, and finally       *)
(* commit the answer to the session's history (a compare-and-swap on the    *)
(* history's revision) or abort it.  One session, with the other calls that *)
(* change its history.                                                      *)
(*                                                                          *)
(* A step is a region under one mutex, or one load or store of the flag     *)
(* "cancelled".  A mutex that is kept while its holder waits for something  *)
(* is a variable: the send lock (kept while the queue is full), a stream's  *)
(* metadata (kept by commit while it waits for the session pool) and the    *)
(* session pool (kept by chat for the whole HTTP request).                  *)
EXTENDS Integers, Sequences

CONSTANTS
    Streams,      \* stream handles: random, never used twice
    Callers,      \* threads that call the exported functions
    May,          \* the functions each caller calls
    Capacity,     \* of a stream's event queue, 64 in the code
    None,         \* no caller, no stream
    Parts,        \* what providers send besides finish_reason and "[DONE]"
    MaxDeltas,    \* bound: deltas a provider sends on one stream
    MaxCancels,   \* bound: cancel threads of one stream not run yet
    MaxRevision   \* bound: changes of the history

Ops == {"open", "next_event", "next_event_timeout", "cancel", "commit", "abort",
        "close", "chat", "append", "clear", "close_session"}

DeltaTypes == {"text.delta", "tool_call.delta"}
TerminalTypes == {"response.completed", "cancelled", "error"}
EventTypes == DeltaTypes \cup TerminalTypes \cup {"response.started", "usage"}

ASSUME PartsAssumption == Parts \subseteq DeltaTypes \cup {"usage", "bad"}
ASSUME CapacityAssumption == Capacity \in Nat \ {0}
ASSUME BoundsAssumption ==
    MaxDeltas \in Nat /\ MaxCancels \in Nat /\ MaxRevision \in Nat
ASSUME NoneAssumption == None \notin Callers \cup Streams
ASSUME MayAssumption == May \in [Callers -> SUBSET Ops]

VARIABLES
    \* the session
    sessionOpen,  \* it is in the session pool
    history,      \* one entry per exchange
    revision,
    poolLock,     \* holder of the session pool's mutex
    \* of each stream
    pooled,       \* its handle is valid
    opened,       \* history revision it was opened at
    base,         \* the history its request was built from
    status,
    terminal,
    nextSeq,      \* number of its next event
    answer,       \* the deltas accumulated
    usage,        \* the provider reported usage
    fate,         \* what commit or abort decided
    cancelled,    \* the flag the worker looks at
    metaLock,     \* holder of the metadata's mutex
    sendLock,     \* which thread is inside send_event
    outgoing,     \* the event it has built and not queued yet
    events,       \* all events queued so far ...
    taken,        \* ... and how many of them were received
    cancels,      \* cancel threads that have not run yet
    \* of each stream's worker
    wpc,
    emitting,     \* type of the event it is about to send
    after,        \* its position after that
    finished,     \* a finish_reason was seen
    \* of each caller
    pc,
    target        \* stream of its call, None between calls

session == <<sessionOpen, history, revision, poolLock>>
request == <<pooled, opened, base>>
meta == <<status, terminal, nextSeq, answer, usage, fate>>
channel == <<sendLock, outgoing, events, taken>>
cancelling == <<cancelled, cancels>>
worker == <<wpc, emitting, after, finished>>
caller == <<pc, target>>
vars == <<session, request, meta, metaLock, channel, cancelling, worker, caller>>

NoEvent == [seq |-> 0, type |-> "none"]

Positions == {"idle", "check", "recv", "timed check", "timed recv", "commit",
              "commit write", "closing", "chat"}
WorkerPositions == {"none", "request", "top", "read", "frames", "emit", "put",
                    "complete", "exit"}

Init ==
    /\ sessionOpen = TRUE /\ history = <<>> /\ revision = 0 /\ poolLock = None
    /\ pooled = [s \in Streams |-> FALSE]
    /\ opened = [s \in Streams |-> 0] /\ base = [s \in Streams |-> <<>>]
    /\ status = [s \in Streams |-> "opening"]
    /\ terminal = [s \in Streams |-> FALSE]
    /\ nextSeq = [s \in Streams |-> 1]
    /\ answer = [s \in Streams |-> <<>>] /\ usage = [s \in Streams |-> FALSE]
    /\ fate = [s \in Streams |-> "pending"]
    /\ cancelled = [s \in Streams |-> FALSE]
    /\ metaLock = [s \in Streams |-> None]
    /\ sendLock = [s \in Streams |-> "free"]
    /\ outgoing = [s \in Streams |-> NoEvent]
    /\ events = [s \in Streams |-> <<>>] /\ taken = [s \in Streams |-> 0]
    /\ cancels = [s \in Streams |-> 0]
    /\ wpc = [s \in Streams |-> "none"]
    /\ emitting = [s \in Streams |-> "error"]
    /\ after = [s \in Streams |-> "exit"]
    /\ finished = [s \in Streams |-> FALSE]
    /\ pc = [c \in Callers |-> "idle"]
    /\ target = [c \in Callers |-> None]

-----------------------------------------------------------------------------
(* send_event, by the worker or by a cancel thread.  It takes the send lock *)
(* for the whole call and the metadata's mutex to number the event.         *)
Unlocked(s) == sendLock[s] = "free" /\ metaLock[s] = None

StatusAfter(type) ==
    CASE type = "response.completed" -> "completed"
      [] type = "cancelled" -> "cancelled"
      [] type = "error" -> "error"
      [] OTHER -> "streaming"

\* The event gets the next number; a terminal one ends the stream.
Build(s, type, who) ==
    /\ outgoing' = [outgoing EXCEPT ![s] = [seq |-> nextSeq[s], type |-> type]]
    /\ nextSeq' = [nextSeq EXCEPT ![s] = @ + 1]
    /\ sendLock' = [sendLock EXCEPT ![s] = who]
    /\ terminal' = [terminal EXCEPT ![s] = type \in TerminalTypes]
    /\ status' = [status EXCEPT ![s] =
                     IF type \in TerminalTypes \cup {"response.started"}
                     THEN StatusAfter(type) ELSE @]

\* Wrong variant: an event is accepted after the terminal one.
SendEventAlways(s, type, who) ==
    /\ Unlocked(s)
    /\ Build(s, type, who)
    /\ UNCHANGED <<answer, usage, fate, events, taken>>

\* After a terminal event nothing is sent.
SendEvent(s, type, who) ==
    /\ Unlocked(s)
    /\ IF terminal[s]
       THEN UNCHANGED <<outgoing, nextSeq, sendLock, terminal, status>>
       ELSE Build(s, type, who)
    /\ UNCHANGED <<answer, usage, fate, events, taken>>

Queued(s) == Len(events[s]) - taken[s]

\* Wrong variant: an event that finds the queue full is dropped.
PutOrDrop(s) ==
    /\ events' = [events EXCEPT ![s] =
                     IF Queued(s) < Capacity THEN Append(@, outgoing[s]) ELSE @]
    /\ outgoing' = [outgoing EXCEPT ![s] = NoEvent]
    /\ sendLock' = [sendLock EXCEPT ![s] = "free"]
    /\ UNCHANGED taken

\* The blocking send into the queue, then the send lock is released.
Put(s) ==
    /\ Queued(s) < Capacity
    /\ events' = [events EXCEPT ![s] = Append(@, outgoing[s])]
    /\ outgoing' = [outgoing EXCEPT ![s] = NoEvent]
    /\ sendLock' = [sendLock EXCEPT ![s] = "free"]
    /\ UNCHANGED taken

-----------------------------------------------------------------------------
(* The worker.  The frames of one buffer, and the parts of one frame, are   *)
(* handled one after the other without a look at the flag: a part is a step *)
(* at "frames".                                                             *)
WGo(s, p) == wpc' = [wpc EXCEPT ![s] = p]

\* The worker is about to send an event and then to go on at p.
Emit(s, type, p) ==
    /\ WGo(s, "emit")
    /\ emitting' = [emitting EXCEPT ![s] = type]
    /\ after' = [after EXCEPT ![s] = p]

WorkerFrame == UNCHANGED <<session, request, metaLock, channel, cancelling, caller>>

\* The worker leaves, or sends an event unless the stream was cancelled.
UnlessCancelled(s, type, p) ==
    IF cancelled[s]
    THEN WGo(s, "exit") /\ UNCHANGED <<emitting, after>>
    ELSE Emit(s, type, p)

\* The response's head has arrived.
WorkerAnswered(s) ==
    /\ wpc[s] = "request"
    /\ UnlessCancelled(s, "response.started", "top")
    /\ UNCHANGED <<meta, finished>> /\ WorkerFrame

\* Wrong variant: a failed request or read ends the worker and nothing else.
WorkerFailedSilently(s) ==
    /\ wpc[s] \in {"request", "read"}
    /\ WGo(s, "exit")
    /\ UNCHANGED <<meta, emitting, after, finished>> /\ WorkerFrame

\* The request or a read fails, or the body ends before "[DONE]".
WorkerFailed(s) ==
    /\ wpc[s] \in {"request", "read"}
    /\ UnlessCancelled(s, "error", "exit")
    /\ UNCHANGED <<meta, finished>> /\ WorkerFrame

WorkerTop(s) ==
    /\ wpc[s] = "top"
    /\ WGo(s, IF cancelled[s] THEN "exit" ELSE "read")
    /\ UNCHANGED <<meta, emitting, after, finished>> /\ WorkerFrame

WorkerRead(s) ==
    /\ wpc[s] = "read"
    /\ WGo(s, "frames")
    /\ UNCHANGED <<meta, emitting, after, finished>> /\ WorkerFrame

\* Wrong variant: the pieces of a tool call are announced, not accumulated.
WorkerDeltaTextOnly(s) ==
    \E d \in DeltaTypes \cap Parts :
        /\ wpc[s] = "frames"
        /\ metaLock[s] = None
        /\ Len(answer[s]) < MaxDeltas
        /\ answer' = [answer EXCEPT ![s] = IF d = "text.delta" THEN Append(@, d)
                                           ELSE @]
        /\ Emit(s, d, "frames")
        /\ UNCHANGED <<status, terminal, nextSeq, usage, fate, finished>>
        /\ WorkerFrame

\* A delta is added to the answer, then announced.
WorkerDelta(s) ==
    \E d \in DeltaTypes \cap Parts :
        /\ wpc[s] = "frames"
        /\ metaLock[s] = None
        /\ Len(answer[s]) < MaxDeltas
        /\ answer' = [answer EXCEPT ![s] = Append(@, d)]
        /\ Emit(s, d, "frames")
        /\ UNCHANGED <<status, terminal, nextSeq, usage, fate, finished>>
        /\ WorkerFrame

\* Usage is reported at most once (a bound).
WorkerUsage(s) ==
    /\ wpc[s] = "frames"
    /\ metaLock[s] = None
    /\ "usage" \in Parts /\ ~usage[s]
    /\ usage' = [usage EXCEPT ![s] = TRUE]
    /\ Emit(s, "usage", "frames")
    /\ UNCHANGED <<status, terminal, nextSeq, answer, fate, finished>>
    /\ WorkerFrame

WorkerFinish(s) ==
    /\ wpc[s] = "frames"
    /\ ~finished[s]
    /\ finished' = [finished EXCEPT ![s] = TRUE]
    /\ UNCHANGED <<meta, wpc, emitting, after>> /\ WorkerFrame

\* "[DONE]": an error without a finish_reason; otherwise the stream is
\* complete, after a usage event if the provider reported none.
WorkerDone(s) ==
    /\ wpc[s] = "frames"
    /\ metaLock[s] = None
    /\ IF ~finished[s] THEN Emit(s, "error", "exit")
       ELSE IF usage[s] THEN Emit(s, "response.completed", "exit")
       ELSE Emit(s, "usage", "complete")
    /\ UNCHANGED <<meta, finished>> /\ WorkerFrame

WorkerComplete(s) ==
    /\ wpc[s] = "complete"
    /\ Emit(s, "response.completed", "exit")
    /\ UNCHANGED <<meta, finished>> /\ WorkerFrame

\* A frame that is no JSON, or that reports an error.
WorkerBadFrame(s) ==
    /\ wpc[s] = "frames" /\ "bad" \in Parts
    /\ Emit(s, "error", "exit")
    /\ UNCHANGED <<meta, finished>> /\ WorkerFrame

\* No complete frame is left in the buffer.
WorkerDrained(s) ==
    /\ wpc[s] = "frames"
    /\ WGo(s, "top")
    /\ UNCHANGED <<meta, emitting, after, finished>> /\ WorkerFrame

\* What send_event returns is ignored by the worker.
WorkerSend(s) ==
    /\ wpc[s] = "emit"
    /\ SendEvent(s, emitting[s], "worker")
    /\ WGo(s, IF terminal[s] THEN after[s] ELSE "put")
    /\ UNCHANGED <<session, request, metaLock, cancelling, emitting, after, finished,
                   caller>>

WorkerPut(s) ==
    /\ wpc[s] = "put"
    /\ Put(s)
    /\ WGo(s, after[s])
    /\ UNCHANGED <<session, request, meta, metaLock, cancelling, emitting, after,
                   finished, caller>>

\* Wrong variant: the thread may run again.
CancelThreadSendAgain(s) ==
    /\ SendEvent(s, "cancelled", "canceller")
    /\ cancels' = [cancels EXCEPT ![s] = @ - 1]
    /\ UNCHANGED <<session, request, metaLock, cancelled, worker, caller>>

\* A thread spawned by cancel sends the terminal event "cancelled".
CancelThreadSend(s) ==
    /\ cancels[s] > 0
    /\ SendEvent(s, "cancelled", "canceller")
    /\ cancels' = [cancels EXCEPT ![s] = @ - 1]
    /\ UNCHANGED <<session, request, metaLock, cancelled, worker, caller>>

CancelThreadPut(s) ==
    /\ sendLock[s] = "canceller"
    /\ Put(s)
    /\ UNCHANGED <<session, request, meta, metaLock, cancelling, worker, caller>>

-----------------------------------------------------------------------------
(* The calls.  A call on a handle that is not in the pool returns an error  *)
(* and changes nothing.                                                     *)
Starts(c, op) == pc[c] = "idle" /\ op \in May[c]

CGo(c, p) == pc' = [pc EXCEPT ![c] = p]
Return(c) == CGo(c, "idle") /\ target' = [target EXCEPT ![c] = None]

\* The call looks its stream up and goes on with it: a close that follows
\* does not stop it.
Begin(c, op, p) ==
    \E s \in Streams :
        /\ Starts(c, op)
        /\ pooled[s]
        /\ CGo(c, p)
        /\ target' = [target EXCEPT ![c] = s]
        /\ UNCHANGED <<session, request, meta, metaLock, channel, cancelling, worker>>

\* open: the session is cloned, and the worker started.
Open(c) ==
    \E s \in Streams :
        /\ Starts(c, "open")
        /\ wpc[s] = "none"
        /\ poolLock = None /\ sessionOpen
        /\ pooled' = [pooled EXCEPT ![s] = TRUE]
        /\ opened' = [opened EXCEPT ![s] = revision]
        /\ base' = [base EXCEPT ![s] = history]
        /\ WGo(s, "request")
        /\ UNCHANGED <<session, meta, metaLock, channel, cancelling, emitting, after,
                       finished, caller>>

BeginNext(c) == Begin(c, "next_event", "check")
BeginTimed(c) == Begin(c, "next_event_timeout", "timed check")

\* Under the send lock: has the stream ended and is its queue empty?
NextCheck(c) ==
    /\ pc[c] \in {"check", "timed check"}
    /\ Unlocked(target[c])
    /\ IF terminal[target[c]] /\ Queued(target[c]) = 0
       THEN Return(c)
       ELSE /\ CGo(c, IF pc[c] = "check" THEN "recv" ELSE "timed recv")
            /\ UNCHANGED target
    /\ UNCHANGED <<session, request, meta, metaLock, channel, cancelling, worker>>

\* The blocking receive, without any lock.
NextReceive(c) ==
    /\ pc[c] \in {"recv", "timed recv"}
    /\ Queued(target[c]) > 0
    /\ taken' = [taken EXCEPT ![target[c]] = @ + 1]
    /\ Return(c)
    /\ UNCHANGED <<session, request, meta, metaLock, sendLock, outgoing, events,
                   cancelling, worker>>

\* recv_timeout gives up.
NextTimeout(c) ==
    /\ pc[c] = "timed recv"
    /\ Queued(target[c]) = 0
    /\ Return(c)
    /\ UNCHANGED <<session, request, meta, metaLock, channel, cancelling, worker>>

\* Wrong variant: only the flag is set.
CancelFlagOnly(c) ==
    \E s \in Streams :
        /\ Starts(c, "cancel")
        /\ pooled[s]
        /\ cancelled' = [cancelled EXCEPT ![s] = TRUE]
        /\ UNCHANGED <<session, request, meta, metaLock, channel, cancels, worker,
                       caller>>

\* The flag is set and a thread spawned that sends the terminal event.
Cancel(c) ==
    \E s \in Streams :
        /\ Starts(c, "cancel")
        /\ pooled[s]
        /\ cancels[s] < MaxCancels
        /\ cancelled' = [cancelled EXCEPT ![s] = TRUE]
        /\ cancels' = [cancels EXCEPT ![s] = @ + 1]
        /\ UNCHANGED <<session, request, meta, metaLock, channel, worker, caller>>

BeginCommit(c) == Begin(c, "commit", "commit")

Committable(s) == status[s] = "completed" /\ terminal[s] /\ fate[s] = "pending"

\* commit takes the metadata's mutex and keeps it if it goes on.
CommitCheck(c) ==
    LET s == target[c]
    IN  /\ pc[c] = "commit"
        /\ metaLock[s] = None
        /\ IF Committable(s)
           THEN /\ CGo(c, "commit write") /\ UNCHANGED target
                /\ metaLock' = [metaLock EXCEPT ![s] = c]
           ELSE Return(c) /\ UNCHANGED metaLock
        /\ UNCHANGED <<session, request, meta, channel, cancelling, worker>>

Entry(s) == [by |-> s, answer |-> answer[s]]

CommitFrame == UNCHANGED <<sessionOpen, poolLock, request, status, terminal, nextSeq,
                           answer, usage, channel, cancelling, worker>>

\* commit with the session pool's mutex, and both released at its end.  The
\* caller's expected revision is the one it opened the stream at, or it is
\* refused.
CommitWriteWhen(c, current) ==
    LET s == target[c]
    IN  /\ pc[c] = "commit write"
        /\ poolLock = None
        /\ sessionOpen /\ current
        /\ revision < MaxRevision
        /\ history' = Append(history, Entry(s))
        /\ revision' = revision + 1
        /\ fate' = [fate EXCEPT ![s] = "committed"]
        /\ metaLock' = [metaLock EXCEPT ![s] = None]
        /\ Return(c)
        /\ CommitFrame

\* Wrong variant: what the caller expects is compared with the opening only.
CommitWriteUnchecked(c) == CommitWriteWhen(c, TRUE)

CommitWrite(c) == CommitWriteWhen(c, revision = opened[target[c]])

\* Wrong variant: the metadata's mutex is kept after a conflict.
CommitRefusedLocked(c) ==
    /\ pc[c] = "commit write"
    /\ poolLock = None
    /\ Return(c)
    /\ UNCHANGED <<history, revision, fate, metaLock>>
    /\ CommitFrame

\* The session is gone, or either revision differs.
CommitRefused(c) ==
    /\ pc[c] = "commit write"
    /\ poolLock = None
    /\ metaLock' = [metaLock EXCEPT ![target[c]] = None]
    /\ Return(c)
    /\ UNCHANGED <<history, revision, fate>>
    /\ CommitFrame

Abort(c) ==
    \E s \in Streams :
        /\ Starts(c, "abort")
        /\ pooled[s]
        /\ metaLock[s] = None
        /\ fate[s] # "committed"
        /\ fate' = [fate EXCEPT ![s] = "aborted"]
        /\ UNCHANGED <<session, request, status, terminal, nextSeq, answer, usage,
                       metaLock, channel, cancelling, worker, caller>>

\* close: the handle goes first, then a running stream is told to stop.
CloseRemove(c) ==
    \E s \in Streams :
        /\ Starts(c, "close")
        /\ pooled[s]
        /\ pooled' = [pooled EXCEPT ![s] = FALSE]
        /\ CGo(c, "closing")
        /\ target' = [target EXCEPT ![c] = s]
        /\ UNCHANGED <<session, opened, base, meta, metaLock, channel, cancelling,
                       worker>>

CloseCancel(c) ==
    LET s == target[c]
    IN  /\ pc[c] = "closing"
        /\ metaLock[s] = None
        /\ cancelled' = [cancelled EXCEPT ![s] = @ \/ ~terminal[s]]
        /\ Return(c)
        /\ UNCHANGED <<session, request, meta, metaLock, channel, cancels, worker>>

-----------------------------------------------------------------------------
(* Other calls that change the session.                                     *)
OtherEntry == [by |-> None, answer |-> <<>>]

SessionFrame == UNCHANGED <<request, meta, metaLock, channel, cancelling, worker>>

Rewrite(h) ==
    /\ sessionOpen
    /\ revision < MaxRevision
    /\ history' = h
    /\ revision' = revision + 1

\* chat keeps the session pool's mutex until the HTTP request is answered.
ChatBegin(c) ==
    /\ Starts(c, "chat")
    /\ poolLock = None /\ sessionOpen
    /\ poolLock' = c
    /\ CGo(c, "chat")
    /\ UNCHANGED <<sessionOpen, history, revision, target>> /\ SessionFrame

ChatAnswered(c) ==
    /\ pc[c] = "chat"
    /\ Rewrite(Append(history, OtherEntry))
    /\ poolLock' = None
    /\ Return(c)
    /\ UNCHANGED sessionOpen /\ SessionFrame

ChatFailed(c) ==
    /\ pc[c] = "chat"
    /\ poolLock' = None
    /\ Return(c)
    /\ UNCHANGED <<sessionOpen, history, revision>> /\ SessionFrame

\* The end of an asynchronous chat or of a v1 stream, a tool's result,
\* qi_llm_commit: an entry is added whatever the revision.
AppendHistory(c) ==
    /\ Starts(c, "append")
    /\ poolLock = None
    /\ Rewrite(Append(history, OtherEntry))
    /\ UNCHANGED <<sessionOpen, poolLock, caller>> /\ SessionFrame

ClearHistory(c) ==
    /\ Starts(c, "clear")
    /\ poolLock = None
    /\ Rewrite(<<>>)
    /\ UNCHANGED <<sessionOpen, poolLock, caller>> /\ SessionFrame

CloseSession(c) ==
    /\ Starts(c, "close_session")
    /\ poolLock = None /\ sessionOpen
    /\ sessionOpen' = FALSE
    /\ UNCHANGED <<history, revision, poolLock, caller>> /\ SessionFrame

-----------------------------------------------------------------------------
\* The provider's answers, which may never come.
Provider(s) == WorkerAnswered(s) \/ WorkerFailed(s) \/ WorkerRead(s)

WorkerRuns(s) ==
    \/ WorkerTop(s) \/ WorkerDelta(s) \/ WorkerUsage(s) \/ WorkerFinish(s)
    \/ WorkerDone(s) \/ WorkerComplete(s) \/ WorkerBadFrame(s) \/ WorkerDrained(s)
    \/ WorkerSend(s) \/ WorkerPut(s)

CancelThread(s) == CancelThreadSend(s) \/ CancelThreadPut(s)

\* A caller starts a call, which may be all of it.
Calls(c) ==
    \/ Open(c) \/ BeginNext(c) \/ BeginTimed(c) \/ Cancel(c) \/ BeginCommit(c)
    \/ Abort(c) \/ CloseRemove(c) \/ ChatBegin(c) \/ AppendHistory(c)
    \/ ClearHistory(c) \/ CloseSession(c)

\* A caller goes on with its call.
Continues(c) ==
    \/ NextCheck(c) \/ NextReceive(c) \/ NextTimeout(c) \/ CommitCheck(c)
    \/ CommitWrite(c) \/ CommitRefused(c) \/ CloseCancel(c) \/ ChatAnswered(c)
    \/ ChatFailed(c)

Next ==
    \/ \E s \in Streams : Provider(s) \/ WorkerRuns(s) \/ CancelThread(s)
    \/ \E c \in Callers : Calls(c) \/ Continues(c)

Spec == Init /\ [][Next]_vars

\* A mutex is not fair: a thread may lose every race for it against callers
\* that take it for long again and again.  Callers stop doing so some day.
Quiet == <>[][\A c \in Callers : ~BeginCommit(c) /\ ~ChatBegin(c)]_vars

\* Threads are scheduled and timeouts expire; providers may stay silent and
\* callers need not call.
Fairness ==
    /\ Quiet
    /\ \A s \in Streams : WF_vars(WorkerRuns(s)) /\ WF_vars(CancelThread(s))
    /\ \A c \in Callers : WF_vars(Continues(c))

FairSpec == Spec /\ Fairness
=============================================================================
