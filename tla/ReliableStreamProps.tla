------------------------ MODULE ReliableStreamProps -------------------------
(* What the v2 streams of llm_ffi.rs promise.                               *)
EXTENDS ReliableStream

Events == [seq : Nat \ {0}, type : EventTypes]

Entries == [by : Streams, answer : Seq(DeltaTypes)]
           \cup [by : {None}, answer : {<<>>}]

SessionTypes ==
    /\ sessionOpen \in BOOLEAN /\ history \in Seq(Entries)
    /\ revision \in Nat /\ poolLock \in Callers \cup {None}

RequestTypes ==
    /\ pooled \in [Streams -> BOOLEAN]
    /\ opened \in [Streams -> Nat] /\ base \in [Streams -> Seq(Entries)]

Statuses == {"opening", "streaming", "completed", "cancelled", "error"}

MetaTypes ==
    /\ status \in [Streams -> Statuses] /\ terminal \in [Streams -> BOOLEAN]
    /\ nextSeq \in [Streams -> Nat \ {0}]
    /\ answer \in [Streams -> Seq(DeltaTypes)] /\ usage \in [Streams -> BOOLEAN]
    /\ fate \in [Streams -> {"pending", "committed", "aborted"}]

ChannelTypes ==
    /\ sendLock \in [Streams -> {"free", "worker", "canceller"}]
    /\ outgoing \in [Streams -> Events \cup {NoEvent}]
    /\ events \in [Streams -> Seq(Events)] /\ taken \in [Streams -> Nat]

CancelTypes == cancelled \in [Streams -> BOOLEAN] /\ cancels \in [Streams -> Nat]

WorkerTypes ==
    /\ wpc \in [Streams -> WorkerPositions]
    /\ emitting \in [Streams -> EventTypes]
    /\ after \in [Streams -> {"top", "frames", "complete", "exit"}]
    /\ finished \in [Streams -> BOOLEAN]

CallerTypes ==
    /\ pc \in [Callers -> Positions]
    /\ target \in [Callers -> Streams \cup {None}]

\* Types of the session, the streams, the workers and the callers.
TypeOK ==
    /\ SessionTypes /\ RequestTypes /\ MetaTypes
    /\ metaLock \in [Streams -> Callers \cup {None}]
    /\ ChannelTypes /\ CancelTypes /\ WorkerTypes /\ CallerTypes

-----------------------------------------------------------------------------
(* Events.                                                                  *)

\* The events of a stream are numbered 1, 2, 3, ... in the order in which
\* readers receive them, whoever sends them and however full the queue was.
EventsGapless ==
    \A s \in Streams : \A i \in DOMAIN events[s] : events[s][i].seq = i

\* A stream has at most one terminal event, it is the last one, and it is
\* the one the stream's state tells of: a cancel that races the provider's
\* end of the stream decides it one way only.
TerminalOnceAndLast ==
    \A s \in Streams : \A i \in DOMAIN events[s] :
        events[s][i].type \in TerminalTypes =>
            /\ i = Len(events[s])
            /\ sendLock[s] = "free"
            /\ status[s] = StatusAfter(events[s][i].type)

\* The answer's first n parts are the deltas among the events, each of them and
\* in their order.
Streamed(s, n) ==
    \E at \in [1..n -> DOMAIN events[s]] :
        /\ \A i, j \in 1..n : i < j => at[i] < at[j]
        /\ \A e \in DOMAIN events[s] :
              events[s][e].type \in DeltaTypes <=> \E i \in 1..n : at[i] = e
        /\ \A i \in 1..n : answer[s][i] = events[s][at[i]].type

\* The answer that may be committed is the one that was streamed, no delta
\* more or less.
AnswerIsStreamed ==
    \A s \in Streams : status[s] = "completed" => Streamed(s, Len(answer[s]))

\* The worker leaves a stream without a terminal event only when a cancel
\* thread is about to send it, or the handle was closed.
NoSilentEnd ==
    \A s \in Streams :
        wpc[s] = "exit" /\ ~terminal[s] => cancels[s] > 0 \/ ~pooled[s]

-----------------------------------------------------------------------------
(* Commit.                                                                  *)
Asked == [s \in Streams |-> IF wpc[s] = "none" THEN <<>> ELSE <<base[s]>>]

Ledger == INSTANCE HistoryLedger
          WITH asked <- Asked, Deltas <- DeltaTypes, Other <- None

\* The compare-and-swap on the revision does what it is for: an answer is
\* committed at most once, whole, only when it was not aborted, and only to
\* the very history its request was built from.
ImplementsLedger == Ledger!Spec

(* What makes these inductive, with the types.                              *)

\* A thread that waits for room holds the send lock, with the event that
\* bears the next number.
Sending(s) ==
    /\ wpc[s] = "put" => sendLock[s] = "worker"
    /\ sendLock[s] # "free" =>
          /\ outgoing[s] \in Events
          /\ outgoing[s].seq = Len(events[s]) + 1
          /\ nextSeq[s] = Len(events[s]) + 2
    /\ sendLock[s] = "free" => nextSeq[s] = Len(events[s]) + 1

\* A terminal event, queued or about to be, is known to the metadata.
TerminalKnown(s) ==
    /\ \A i \in DOMAIN events[s] :
          events[s][i].type \in TerminalTypes => terminal[s]
    /\ sendLock[s] # "free" /\ outgoing[s].type \in TerminalTypes =>
          terminal[s] /\ status[s] = StatusAfter(outgoing[s].type)

EventInv ==
    /\ TypeOK
    /\ \A s \in Streams : Sending(s) /\ TerminalKnown(s)
    /\ EventsGapless
    /\ TerminalOnceAndLast

\* A completed stream is one its worker is done with.
CompletedIsOver(s) ==
    /\ wpc[s] = "emit" /\ emitting[s] = "response.completed" => after[s] = "exit"
    /\ status[s] = "completed" =>
          terminal[s] /\ wpc[s] \in {"put", "exit"} /\ after[s] = "exit"
    /\ fate[s] = "committed" => status[s] = "completed"

\* An unchanged revision means an unchanged history.
RevisionTells(s) ==
    /\ opened[s] <= revision
    /\ wpc[s] # "none" /\ opened[s] = revision => base[s] = history

\* A commit about to write holds the metadata it has checked.
CommitterHolds(c) ==
    /\ pc[c] \notin {"idle", "chat"} => target[c] \in Streams
    /\ pc[c] = "commit write" =>
          metaLock[target[c]] = c /\ Committable(target[c])

CommitInv ==
    /\ TypeOK
    /\ \A s \in Streams : CompletedIsOver(s) /\ RevisionTells(s)
    /\ \A c \in Callers : CommitterHolds(c)

-----------------------------------------------------------------------------
(* Liveness.                                                                *)
Reading(c, s) == target[c] = s /\ pc[c] \in {"check", "recv"}

\* "wakes up the blocked readers" (llm_ffi.rs:2122): once the stream of a
\* reader is cancelled, the reader gets an answer, whatever the provider does.
CancelReleasesReaders ==
    \A c \in Callers : \A s \in Streams :
        (Reading(c, s) /\ cancelled[s]) ~> ~Reading(c, s)

\* "blocks for at most timeout_ms" (llm_ffi.rs:2086): a timed read returns.
TimedReadsReturn ==
    \A c \in Callers :
        (pc[c] \in {"timed check", "timed recv"}) ~> (pc[c] = "idle")
=============================================================================
