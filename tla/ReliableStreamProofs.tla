------------------------ MODULE ReliableStreamProofs ------------------------
(* Proofs about the v2 streams: types, the order of events, and the ledger  *)
(* that commit implements, for every number of streams, callers and events. *)
EXTENDS ReliableStreamProps, TLAPS

-----------------------------------------------------------------------------
(* Types.                                                                   *)

\* The positions and types the actions name are positions and types.
LEMMA Names ==
    /\ {"none", "request", "top", "read", "frames", "emit", "put", "complete",
        "exit"} \subseteq WorkerPositions
    /\ {"idle", "check", "recv", "timed check", "timed recv", "commit",
        "commit write", "closing", "chat"} \subseteq Positions
    /\ {"error", "response.started", "usage", "response.completed",
        "cancelled"} \subseteq EventTypes
    /\ DeltaTypes \subseteq EventTypes
  BY DEF WorkerPositions, Positions, EventTypes, TerminalTypes

\* The initial values have their types.
LEMMA InitTypes == Init => TypeOK
  <1> SUFFICES ASSUME Init PROVE TypeOK
    OBVIOUS
  <1>1. SessionTypes /\ RequestTypes /\ CancelTypes
    BY DEF Init, SessionTypes, RequestTypes, CancelTypes
  <1>2. MetaTypes
    BY DEF Init, MetaTypes, Statuses
  <1>3. ChannelTypes
    BY DEF Init, ChannelTypes
  <1>4. WorkerTypes /\ CallerTypes
    BY Names DEF Init, WorkerTypes, CallerTypes
  <1>5. metaLock \in [Streams -> Callers \cup {None}]
    BY DEF Init
  <1>6. QED
    BY <1>1, <1>2, <1>3, <1>4, <1>5 DEF TypeOK

\* What is left alone keeps its types.
LEMMA FrameTypes ==
    /\ SessionTypes /\ UNCHANGED session => SessionTypes'
    /\ RequestTypes /\ UNCHANGED request => RequestTypes'
    /\ MetaTypes /\ UNCHANGED meta => MetaTypes'
    /\ ChannelTypes /\ UNCHANGED channel => ChannelTypes'
    /\ CancelTypes /\ UNCHANGED cancelling => CancelTypes'
    /\ WorkerTypes /\ UNCHANGED worker => WorkerTypes'
    /\ CallerTypes /\ UNCHANGED caller => CallerTypes'
  <1>1. SessionTypes /\ UNCHANGED session => SessionTypes'
    BY DEF SessionTypes, session
  <1>2. RequestTypes /\ UNCHANGED request => RequestTypes'
    BY DEF RequestTypes, request
  <1>3. MetaTypes /\ UNCHANGED meta => MetaTypes'
    BY DEF MetaTypes, meta
  <1>4. ChannelTypes /\ UNCHANGED channel => ChannelTypes'
    BY DEF ChannelTypes, channel
  <1>5. CancelTypes /\ UNCHANGED cancelling => CancelTypes'
    BY DEF CancelTypes, cancelling
  <1>6. WorkerTypes /\ UNCHANGED worker => WorkerTypes'
    BY DEF WorkerTypes, worker
  <1>7. CallerTypes /\ UNCHANGED caller => CallerTypes'
    BY DEF CallerTypes, caller
  <1>8. QED
    BY <1>1, <1>2, <1>3, <1>4, <1>5, <1>6, <1>7

\* Moves of the worker and of a caller.
LEMMA WorkerMoves ==
    ASSUME WorkerTypes, NEW s \in Streams, NEW p \in WorkerPositions, WGo(s, p),
           UNCHANGED <<emitting, after, finished>>
    PROVE  WorkerTypes'
  BY DEF WorkerTypes, WGo

\* The same for a worker about to send.
LEMMA WorkerEmits ==
    ASSUME WorkerTypes, NEW s \in Streams, NEW type \in EventTypes,
           NEW p \in {"top", "frames", "complete", "exit"}, Emit(s, type, p),
           UNCHANGED finished
    PROVE  WorkerTypes'
  BY Names DEF WorkerTypes, Emit, WGo

\* And for one that leaves a cancelled stream instead.
LEMMA WorkerMayLeave ==
    ASSUME WorkerTypes, NEW s \in Streams, NEW type \in EventTypes,
           NEW p \in {"top", "frames", "complete", "exit"},
           UnlessCancelled(s, type, p), UNCHANGED finished
    PROVE  WorkerTypes'
  <1>1. CASE cancelled[s]
    BY <1>1, Names, WorkerMoves DEF UnlessCancelled
  <1>2. CASE ~cancelled[s]
    BY <1>2, WorkerEmits DEF UnlessCancelled
  <1>3. QED
    BY <1>1, <1>2

\* A caller that goes on with its call, or returns from it, keeps its types.
LEMMA CallerMoves ==
    ASSUME CallerTypes, NEW c \in Callers, NEW p \in Positions, CGo(c, p),
           UNCHANGED target \/ \E s \in Streams : target' = [target EXCEPT ![c] = s]
    PROVE  CallerTypes'
  BY DEF CallerTypes, CGo

LEMMA CallerReturns ==
    ASSUME CallerTypes, NEW c \in Callers, Return(c)
    PROVE  CallerTypes'
  BY Names DEF CallerTypes, Return, CGo

\* send_event keeps the types of what it changes.
LEMMA SendTypes ==
    ASSUME MetaTypes, ChannelTypes, NEW s \in Streams, NEW type \in EventTypes,
           NEW who \in {"worker", "canceller"}, SendEvent(s, type, who)
    PROVE  MetaTypes' /\ ChannelTypes'
  <1>1. CASE terminal[s]
    BY <1>1 DEF SendEvent, MetaTypes, ChannelTypes
  <1>2. CASE ~terminal[s]
    <2>1. Build(s, type, who) /\ UNCHANGED <<answer, usage, fate, events, taken>>
      BY <1>2 DEF SendEvent
    <2>2. [seq |-> nextSeq[s], type |-> type] \in Events
      BY DEF MetaTypes, Events
    <2>3. ChannelTypes'
      BY <2>1, <2>2 DEF Build, ChannelTypes
    <2>4. StatusAfter(type) \in Statuses
      BY DEF StatusAfter, Statuses
    <2>5. MetaTypes'
      BY <2>1, <2>4 DEF Build, MetaTypes
    <2>6. QED
      BY <2>3, <2>5
  <1>3. QED
    BY <1>1, <1>2

\* Putting an event keeps them, for it is an event that is put.
LEMMA PutTypes ==
    ASSUME ChannelTypes, NEW s \in Streams, outgoing[s] \in Events, Put(s)
    PROVE  ChannelTypes'
  <1>1. Append(events[s], outgoing[s]) \in Seq(Events)
    BY DEF ChannelTypes
  <1>2. QED
    BY <1>1 DEF Put, ChannelTypes

\* A rewritten history is one, and the revision grows.
LEMMA RewriteTypes ==
    ASSUME SessionTypes, NEW h \in Seq(Entries), Rewrite(h)
    PROVE  history' \in Seq(Entries) /\ revision' \in Nat
  BY DEF SessionTypes, Rewrite

\* The entries that are added to the history are entries.
LEMMA EntryTypes ==
    ASSUME SessionTypes, MetaTypes
    PROVE  /\ Append(history, OtherEntry) \in Seq(Entries)
           /\ <<>> \in Seq(Entries)
           /\ \A s \in Streams : Append(history, Entry(s)) \in Seq(Entries)
  <1>1. OtherEntry \in Entries
    BY DEF OtherEntry, Entries
  <1>2. ASSUME NEW s \in Streams PROVE Entry(s) \in Entries
    BY <1>2 DEF Entry, Entries, MetaTypes
  <1>3. QED
    BY <1>1, <1>2 DEF SessionTypes

\* One more delta, one cancel thread more or less, one event received: what
\* counts stays a count.
LEMMA CountTypes ==
    ASSUME NEW s \in Streams
    PROVE  /\ \A d \in DeltaTypes : MetaTypes =>
                  [answer EXCEPT ![s] = Append(@, d)] \in [Streams -> Seq(DeltaTypes)]
           /\ CancelTypes /\ cancels[s] > 0 =>
                  [cancels EXCEPT ![s] = @ - 1] \in [Streams -> Nat]
           /\ CancelTypes => [cancels EXCEPT ![s] = @ + 1] \in [Streams -> Nat]
           /\ ChannelTypes => [taken EXCEPT ![s] = @ + 1] \in [Streams -> Nat]
           /\ SessionTypes => revision + 1 \in Nat
  <1>1. ASSUME NEW d \in DeltaTypes, MetaTypes
        PROVE  [answer EXCEPT ![s] = Append(@, d)] \in [Streams -> Seq(DeltaTypes)]
    <2>1. answer \in [Streams -> Seq(DeltaTypes)]
      BY <1>1 DEF MetaTypes
    <2>2. Append(answer[s], d) \in Seq(DeltaTypes)
      BY <2>1
    <2>3. QED
      BY <2>1, <2>2
  <1>2. ASSUME CancelTypes, cancels[s] > 0
        PROVE  [cancels EXCEPT ![s] = @ - 1] \in [Streams -> Nat]
    <2>1. cancels \in [Streams -> Nat]
      BY <1>2 DEF CancelTypes
    <2>2. cancels[s] - 1 \in Nat
      BY <1>2, <2>1
    <2>3. QED
      BY <2>1, <2>2
  <1>3. ASSUME CancelTypes PROVE [cancels EXCEPT ![s] = @ + 1] \in [Streams -> Nat]
    BY <1>3 DEF CancelTypes
  <1>4. ASSUME ChannelTypes PROVE [taken EXCEPT ![s] = @ + 1] \in [Streams -> Nat]
    BY <1>4 DEF ChannelTypes
  <1>5. ASSUME SessionTypes PROVE revision + 1 \in Nat
    BY <1>5 DEF SessionTypes
  <1>6. QED
    BY <1>1, <1>2, <1>3, <1>4, <1>5
-----------------------------------------------------------------------------
\* A step of the worker that sends nothing itself.
LEMMA WorkerStepTypes ==
    ASSUME TypeOK, MetaTypes', WorkerTypes', WorkerFrame
    PROVE  TypeOK'
  BY FrameTypes DEF TypeOK, WorkerFrame

\* The steps of a worker that does not send keep the types.
LEMMA WorkerTypesStep ==
    ASSUME TypeOK, NEW s \in Streams,
           \/ WorkerAnswered(s) \/ WorkerFailed(s) \/ WorkerRead(s) \/ WorkerTop(s)
           \/ WorkerDelta(s) \/ WorkerUsage(s) \/ WorkerFinish(s) \/ WorkerDone(s)
           \/ WorkerComplete(s) \/ WorkerBadFrame(s) \/ WorkerDrained(s)
    PROVE  TypeOK'
  <1> USE Names, FrameTypes, WorkerMoves, WorkerEmits, WorkerMayLeave
  <1>t. MetaTypes /\ WorkerTypes
    BY DEF TypeOK
  <1>1. CASE WorkerAnswered(s)
    BY <1>1, <1>t, WorkerStepTypes DEF WorkerAnswered
  <1>2. CASE WorkerFailed(s)
    BY <1>2, <1>t, WorkerStepTypes DEF WorkerFailed
  <1>3. CASE WorkerRead(s)
    BY <1>3, <1>t, WorkerStepTypes DEF WorkerRead
  <1>4. CASE WorkerTop(s)
    <2>1. WGo(s, "exit") \/ WGo(s, "read")
      BY <1>4 DEF WorkerTop
    <2>2. QED
      BY <1>4, <1>t, <2>1, WorkerStepTypes DEF WorkerTop
  <1>5. CASE WorkerDelta(s)
    <2>1. PICK d \in DeltaTypes : /\ answer' = [answer EXCEPT ![s] = Append(@, d)]
                                  /\ Emit(s, d, "frames")
      BY <1>5 DEF WorkerDelta
    <2>2. WorkerTypes'
      BY <1>5, <1>t, <2>1 DEF WorkerDelta
    <2>3. answer' \in [Streams -> Seq(DeltaTypes)]
      BY <1>t, <2>1, CountTypes
    <2>4. MetaTypes'
      BY <1>5, <1>t, <2>1, <2>3 DEF WorkerDelta, MetaTypes
    <2>5. QED
      BY <1>5, <2>2, <2>4, WorkerStepTypes DEF WorkerDelta
  <1>6. CASE WorkerUsage(s)
    <2>1. MetaTypes'
      BY <1>6, <1>t DEF WorkerUsage, MetaTypes
    <2>2. QED
      BY <1>6, <1>t, <2>1, WorkerStepTypes DEF WorkerUsage
  <1>7. CASE WorkerFinish(s)
    <2>1. WorkerTypes'
      BY <1>7, <1>t DEF WorkerFinish, WorkerTypes
    <2>2. QED
      BY <1>7, <1>t, <2>1, WorkerStepTypes DEF WorkerFinish
  <1>8. CASE WorkerDone(s)
    <2>1. \/ Emit(s, "error", "exit") \/ Emit(s, "response.completed", "exit")
          \/ Emit(s, "usage", "complete")
      BY <1>8 DEF WorkerDone
    <2>2. WorkerTypes'
      BY <1>8, <1>t, <2>1 DEF WorkerDone
    <2>3. QED
      BY <1>8, <1>t, <2>2, WorkerStepTypes DEF WorkerDone
  <1>9. CASE WorkerComplete(s)
    BY <1>9, <1>t, WorkerStepTypes DEF WorkerComplete
  <1>10. CASE WorkerBadFrame(s)
    BY <1>10, <1>t, WorkerStepTypes DEF WorkerBadFrame
  <1>11. CASE WorkerDrained(s)
    BY <1>11, <1>t, WorkerStepTypes DEF WorkerDrained
  <1>12. QED
    BY <1>1, <1>2, <1>3, <1>4, <1>5, <1>6, <1>7, <1>8, <1>9, <1>10, <1>11

\* A thread that waits for room waits with an event.
LEMMA SenderTypesStep ==
    ASSUME TypeOK, NEW s \in Streams, Sending(s),
           \/ WorkerSend(s) \/ WorkerPut(s)
           \/ CancelThreadSend(s) \/ CancelThreadPut(s)
    PROVE  TypeOK'
  <1> USE Names, FrameTypes
  <1>t. MetaTypes /\ ChannelTypes /\ WorkerTypes /\ CancelTypes
    BY DEF TypeOK
  <1>1. CASE WorkerSend(s)
    <2>1. MetaTypes' /\ ChannelTypes'
      BY <1>1, <1>t, SendTypes DEF WorkerSend, WorkerTypes
    <2>2. after[s] \in WorkerPositions
      BY <1>t DEF WorkerTypes
    <2>3. \E p \in WorkerPositions : WGo(s, p)
      BY <1>1, <2>2 DEF WorkerSend
    <2>4. WorkerTypes'
      BY <1>1, <1>t, <2>3, WorkerMoves DEF WorkerSend
    <2>5. QED
      BY <1>1, <2>1, <2>4 DEF WorkerSend, TypeOK
  <1>2. CASE WorkerPut(s)
    <2>1. ChannelTypes'
      BY <1>2, <1>t, PutTypes DEF WorkerPut, Sending
    <2>2. after[s] \in WorkerPositions
      BY <1>t DEF WorkerTypes
    <2>3. WorkerTypes'
      BY <1>2, <1>t, <2>2, WorkerMoves DEF WorkerPut
    <2>4. MetaTypes'
      BY <1>2, <1>t DEF WorkerPut
    <2>5. QED
      BY <1>2, <2>1, <2>3, <2>4 DEF WorkerPut, TypeOK
  <1>3. CASE CancelThreadSend(s)
    <2>1. MetaTypes' /\ ChannelTypes'
      BY <1>3, <1>t, SendTypes DEF CancelThreadSend
    <2>2. CancelTypes'
      <3>1. cancels' = [cancels EXCEPT ![s] = @ - 1] /\ cancels[s] > 0
        BY <1>3 DEF CancelThreadSend
      <3>2. cancels' \in [Streams -> Nat]
        BY <1>t, <3>1, CountTypes
      <3>3. QED
        BY <1>3, <1>t, <3>2 DEF CancelThreadSend, CancelTypes
    <2>3. QED
      BY <1>3, <2>1, <2>2 DEF CancelThreadSend, TypeOK
  <1>4. CASE CancelThreadPut(s)
    <2>1. ChannelTypes'
      BY <1>4, <1>t, PutTypes DEF CancelThreadPut, Sending
    <2>2. QED
      BY <1>4, <2>1 DEF CancelThreadPut, TypeOK
  <1>5. QED
    BY <1>1, <1>2, <1>3, <1>4

\* A call that finds its stream keeps the types.
LEMMA BeginTypes ==
    ASSUME TypeOK, NEW c \in Callers, NEW op, NEW p \in Positions, Begin(c, op, p)
    PROVE  TypeOK'
  <1>1. CallerTypes'
    BY CallerMoves DEF Begin, TypeOK
  <1>2. QED
    BY <1>1, FrameTypes DEF Begin, TypeOK

\* So does the start of every call,
LEMMA CallTypesStep ==
    ASSUME TypeOK, NEW c \in Callers, Calls(c)
    PROVE  TypeOK'
  <1> USE Names, FrameTypes
  <1>t. /\ SessionTypes /\ RequestTypes /\ MetaTypes /\ CancelTypes /\ WorkerTypes
        /\ CallerTypes
    BY DEF TypeOK
  <1>1. CASE Open(c)
    <2>1. PICK s \in Streams :
             /\ pooled' = [pooled EXCEPT ![s] = TRUE]
             /\ opened' = [opened EXCEPT ![s] = revision]
             /\ base' = [base EXCEPT ![s] = history]
             /\ WGo(s, "request") /\ UNCHANGED <<emitting, after, finished>>
      BY <1>1 DEF Open
    <2>2. RequestTypes'
      BY <1>t, <2>1 DEF RequestTypes, SessionTypes
    <2>3. WorkerTypes'
      BY <1>t, <2>1, WorkerMoves
    <2>4. QED
      BY <1>1, <2>2, <2>3 DEF Open, TypeOK
  <1>2. CASE BeginNext(c) \/ BeginTimed(c) \/ BeginCommit(c)
    BY <1>2, BeginTypes DEF BeginNext, BeginTimed, BeginCommit
  <1>3. CASE Cancel(c)
    <2>1. CancelTypes'
      <3>1. PICK s \in Streams : /\ cancelled' = [cancelled EXCEPT ![s] = TRUE]
                                 /\ cancels' = [cancels EXCEPT ![s] = @ + 1]
        BY <1>3 DEF Cancel
      <3>2. cancels' \in [Streams -> Nat]
        BY <1>t, <3>1, CountTypes
      <3>3. QED
        BY <1>t, <3>1, <3>2 DEF CancelTypes
    <2>2. QED
      BY <1>3, <2>1 DEF Cancel, TypeOK
  <1>4. CASE Abort(c)
    <2>1. MetaTypes'
      BY <1>4, <1>t DEF Abort, MetaTypes
    <2>2. QED
      BY <1>4, <2>1 DEF Abort, TypeOK
  <1>5. CASE CloseRemove(c)
    <2>1. CallerTypes'
      BY <1>5, <1>t, CallerMoves DEF CloseRemove
    <2>2. RequestTypes'
      BY <1>5, <1>t DEF CloseRemove, RequestTypes
    <2>3. QED
      BY <1>5, <2>1, <2>2 DEF CloseRemove, TypeOK
  <1>6. CASE ChatBegin(c)
    <2>1. CallerTypes'
      BY <1>6, <1>t, CallerMoves DEF ChatBegin
    <2>2. SessionTypes'
      BY <1>6, <1>t DEF ChatBegin, SessionTypes
    <2>3. QED
      BY <1>6, <2>1, <2>2 DEF ChatBegin, SessionFrame, TypeOK
  <1>7. CASE AppendHistory(c)
    <2>1. SessionTypes'
      BY <1>7, <1>t, EntryTypes, RewriteTypes DEF AppendHistory, SessionTypes
    <2>2. QED
      BY <1>7, <2>1 DEF AppendHistory, SessionFrame, TypeOK
  <1>8. CASE ClearHistory(c)
    <2>1. SessionTypes'
      BY <1>8, <1>t, EntryTypes, RewriteTypes DEF ClearHistory, SessionTypes
    <2>2. QED
      BY <1>8, <2>1 DEF ClearHistory, SessionFrame, TypeOK
  <1>9. CASE CloseSession(c)
    <2>1. SessionTypes'
      BY <1>9, <1>t DEF CloseSession, SessionTypes
    <2>2. QED
      BY <1>9, <2>1 DEF CloseSession, SessionFrame, TypeOK
  <1>10. QED
    BY <1>1, <1>2, <1>3, <1>4, <1>5, <1>6, <1>7, <1>8, <1>9 DEF Calls

\* and its continuation, which knows its stream.
LEMMA ContinueTypesStep ==
    ASSUME TypeOK, NEW c \in Callers, CommitterHolds(c), Continues(c)
    PROVE  TypeOK'
  <1> USE Names, FrameTypes
  <1>t. /\ SessionTypes /\ RequestTypes /\ MetaTypes /\ ChannelTypes /\ CancelTypes
        /\ WorkerTypes /\ CallerTypes
        /\ metaLock \in [Streams -> Callers \cup {None}]
    BY DEF TypeOK
  <1>1. CASE NextCheck(c)
    <2>1. \/ Return(c)
          \/ CGo(c, "recv") /\ UNCHANGED target
          \/ CGo(c, "timed recv") /\ UNCHANGED target
      BY <1>1 DEF NextCheck
    <2>2. CallerTypes'
      BY <1>t, <2>1, CallerReturns, CallerMoves
    <2>3. QED
      BY <1>1, <1>t, <2>2 DEF NextCheck, TypeOK
  <1>2. CASE NextReceive(c)
    <2>1. CallerTypes'
      BY <1>2, <1>t, CallerReturns DEF NextReceive
    <2>2. ChannelTypes'
      <3>1. target[c] \in Streams
        BY <1>2 DEF NextReceive, CommitterHolds
      <3>2. taken' \in [Streams -> Nat]
        BY <1>2, <1>t, <3>1, CountTypes DEF NextReceive
      <3>3. QED
        BY <1>2, <1>t, <3>2 DEF NextReceive, ChannelTypes
    <2>3. QED
      BY <1>2, <1>t, <2>1, <2>2 DEF NextReceive, TypeOK
  <1>3. CASE NextTimeout(c)
    <2>1. CallerTypes'
      BY <1>3, <1>t, CallerReturns DEF NextTimeout
    <2>2. QED
      BY <1>3, <1>t, <2>1 DEF NextTimeout, TypeOK
  <1>4. CASE CommitCheck(c)
    <2>1. \/ CGo(c, "commit write") /\ UNCHANGED target
          \/ Return(c)
      BY <1>4 DEF CommitCheck
    <2>2. CallerTypes'
      BY <1>t, <2>1, CallerReturns, CallerMoves
    <2>3. metaLock' \in [Streams -> Callers \cup {None}]
      BY <1>4, <1>t DEF CommitCheck
    <2>4. QED
      BY <1>4, <1>t, <2>2, <2>3 DEF CommitCheck, TypeOK
  <1>5. CASE CommitWrite(c)
    <2>1. target[c] \in Streams
      BY <1>5 DEF CommitWrite, CommitWriteWhen, CommitterHolds
    <2>2. CallerTypes'
      BY <1>5, <1>t, CallerReturns DEF CommitWrite, CommitWriteWhen
    <2>3. SessionTypes'
      <3>1. history' = Append(history, Entry(target[c])) /\ revision' = revision + 1
        BY <1>5 DEF CommitWrite, CommitWriteWhen
      <3>2. history' \in Seq(Entries)
        BY <1>t, <2>1, <3>1, EntryTypes
      <3>3. revision' \in Nat
        BY <1>t, <2>1, <3>1, CountTypes
      <3>4. QED
        BY <1>5, <1>t, <3>2, <3>3
           DEF CommitWrite, CommitWriteWhen, CommitFrame, SessionTypes
    <2>4. MetaTypes'
      BY <1>5, <1>t, <2>1 DEF CommitWrite, CommitWriteWhen, CommitFrame, MetaTypes
    <2>5. metaLock' \in [Streams -> Callers \cup {None}]
      BY <1>5, <1>t DEF CommitWrite, CommitWriteWhen
    <2>6. QED
      BY <1>5, <1>t, <2>2, <2>3, <2>4, <2>5
         DEF CommitWrite, CommitWriteWhen, CommitFrame, TypeOK
  <1>6. CASE CommitRefused(c)
    <2>1. CallerTypes'
      BY <1>6, <1>t, CallerReturns DEF CommitRefused
    <2>2. SessionTypes' /\ MetaTypes'
      BY <1>6, <1>t DEF CommitRefused, CommitFrame, SessionTypes, MetaTypes
    <2>3. metaLock' \in [Streams -> Callers \cup {None}]
      BY <1>6, <1>t DEF CommitRefused
    <2>4. QED
      BY <1>6, <1>t, <2>1, <2>2, <2>3 DEF CommitRefused, CommitFrame, TypeOK
  <1>7. CASE CloseCancel(c)
    <2>1. target[c] \in Streams
      BY <1>7 DEF CloseCancel, CommitterHolds
    <2>2. CallerTypes'
      BY <1>7, <1>t, CallerReturns DEF CloseCancel
    <2>3. CancelTypes'
      BY <1>7, <1>t, <2>1 DEF CloseCancel, CancelTypes, MetaTypes
    <2>4. QED
      BY <1>7, <1>t, <2>2, <2>3 DEF CloseCancel, TypeOK
  <1>8. CASE ChatAnswered(c)
    <2>1. CallerTypes'
      BY <1>8, <1>t, CallerReturns DEF ChatAnswered
    <2>2. SessionTypes'
      BY <1>8, <1>t, EntryTypes, RewriteTypes DEF ChatAnswered, SessionTypes
    <2>3. QED
      BY <1>8, <1>t, <2>1, <2>2 DEF ChatAnswered, SessionFrame, TypeOK
  <1>9. CASE ChatFailed(c)
    <2>1. CallerTypes'
      BY <1>9, <1>t, CallerReturns DEF ChatFailed
    <2>2. SessionTypes'
      BY <1>9, <1>t DEF ChatFailed, SessionTypes
    <2>3. QED
      BY <1>9, <1>t, <2>1, <2>2 DEF ChatFailed, SessionFrame, TypeOK
  <1>10. QED
    BY <1>1, <1>2, <1>3, <1>4, <1>5, <1>6, <1>7, <1>8, <1>9 DEF Continues

-----------------------------------------------------------------------------
(* The order of events.                                                     *)

\* EventInv, without the types, of one stream.
EventsOf(s) ==
    /\ Sending(s) /\ TerminalKnown(s)
    /\ \A i \in DOMAIN events[s] :
          /\ events[s][i].seq = i
          /\ events[s][i].type \in TerminalTypes =>
                /\ i = Len(events[s])
                /\ sendLock[s] = "free"
                /\ status[s] = StatusAfter(events[s][i].type)

\* EventInv is the invariant of each stream, and the types.
LEMMA EventParts == EventInv <=> TypeOK /\ \A s \in Streams : EventsOf(s)
  BY DEF EventInv, EventsOf, EventsGapless, TerminalOnceAndLast

\* A stream nobody sends on keeps it.
EventsSame(s) ==
    /\ sendLock'[s] = sendLock[s] /\ outgoing'[s] = outgoing[s]
    /\ events'[s] = events[s] /\ nextSeq'[s] = nextSeq[s]
    /\ terminal'[s] = terminal[s] /\ status'[s] = status[s]
    /\ wpc'[s] = "put" => wpc[s] = "put"

LEMMA EventsKept ==
    ASSUME NEW s \in Streams, EventsOf(s), EventsSame(s)
    PROVE  EventsOf(s)'
  BY DEF EventsOf, EventsSame, Sending, TerminalKnown

\* A worker that is not sending: where it may be, and where it goes.
WorkerMoved(s) ==
    /\ wpc[s] \in {"request", "top", "read", "frames", "complete"}
    /\ wpc'[s] \notin {"none", "put"}
    /\ wpc'[s] = "emit" /\ emitting'[s] = "response.completed" => after'[s] = "exit"
    /\ \A t \in Streams \ {s} : /\ wpc'[t] = wpc[t] /\ emitting'[t] = emitting[t]
                                /\ after'[t] = after[t]
    /\ UNCHANGED <<status, terminal, nextSeq, fate>>
    /\ WorkerFrame

\* How a move of the worker, without an event or with one, meets WorkerMoved.
LEMMA GoMoves ==
    ASSUME WorkerTypes, NEW s \in Streams, NEW p, WGo(s, p), p \notin {"none", "put", "emit"},
           UNCHANGED <<emitting, after>>
    PROVE  /\ wpc'[s] \notin {"none", "put"}
           /\ wpc'[s] = "emit" /\ emitting'[s] = "response.completed" => after'[s] = "exit"
           /\ \A t \in Streams \ {s} : /\ wpc'[t] = wpc[t] /\ emitting'[t] = emitting[t]
                                       /\ after'[t] = after[t]
  BY DEF WorkerTypes, WGo

LEMMA EmitMoves ==
    ASSUME WorkerTypes, NEW s \in Streams, NEW type, NEW p, Emit(s, type, p),
           type = "response.completed" => p = "exit"
    PROVE  /\ wpc'[s] \notin {"none", "put"}
           /\ wpc'[s] = "emit" /\ emitting'[s] = "response.completed" => after'[s] = "exit"
           /\ \A t \in Streams \ {s} : /\ wpc'[t] = wpc[t] /\ emitting'[t] = emitting[t]
                                       /\ after'[t] = after[t]
  BY DEF WorkerTypes, WGo, Emit

\* Every step of a worker that does not send is such a move.
LEMMA WorkerMovesOn ==
    ASSUME TypeOK, NEW s \in Streams,
           \/ WorkerAnswered(s) \/ WorkerFailed(s) \/ WorkerRead(s) \/ WorkerTop(s)
           \/ WorkerDelta(s) \/ WorkerUsage(s) \/ WorkerFinish(s) \/ WorkerDone(s)
           \/ WorkerComplete(s) \/ WorkerBadFrame(s) \/ WorkerDrained(s)
    PROVE  WorkerMoved(s)
  <1>t. WorkerTypes
    BY DEF TypeOK
  <1>1. CASE WorkerAnswered(s)
    BY <1>t, <1>1, GoMoves, EmitMoves
       DEF WorkerAnswered, UnlessCancelled, WorkerMoved, meta
  <1>2. CASE WorkerFailed(s)
    BY <1>t, <1>2, GoMoves, EmitMoves
       DEF WorkerFailed, UnlessCancelled, WorkerMoved, meta
  <1>3. CASE WorkerRead(s)
    BY <1>t, <1>3, GoMoves DEF WorkerRead, WorkerMoved, meta
  <1>4. CASE WorkerTop(s)
    BY <1>t, <1>4, GoMoves DEF WorkerTop, WorkerMoved, meta
  <1>5. CASE WorkerDelta(s)
    <2>1. PICK d \in DeltaTypes : Emit(s, d, "frames")
      BY <1>5 DEF WorkerDelta
    <2>2. d # "response.completed"
      BY DEF DeltaTypes
    <2>3. QED
      BY <1>t, <1>5, <2>1, <2>2, EmitMoves DEF WorkerDelta, WorkerMoved
  <1>6. CASE WorkerUsage(s)
    BY <1>t, <1>6, EmitMoves DEF WorkerUsage, WorkerMoved
  <1>7. CASE WorkerFinish(s)
    BY <1>t, <1>7 DEF WorkerFinish, WorkerMoved, meta
  <1>8. CASE WorkerDone(s)
    BY <1>t, <1>8, EmitMoves DEF WorkerDone, WorkerMoved, meta
  <1>9. CASE WorkerComplete(s)
    BY <1>t, <1>9, EmitMoves DEF WorkerComplete, WorkerMoved, meta
  <1>10. CASE WorkerBadFrame(s)
    BY <1>t, <1>10, EmitMoves DEF WorkerBadFrame, WorkerMoved, meta
  <1>11. CASE WorkerDrained(s)
    BY <1>t, <1>11, GoMoves DEF WorkerDrained, WorkerMoved, meta
  <1>12. QED
    BY <1>1, <1>2, <1>3, <1>4, <1>5, <1>6, <1>7, <1>8, <1>9, <1>10, <1>11

\* The calls: none of them sends, and none but open moves a worker.
LEMMA CallsSendNothing ==
    ASSUME NEW c \in Callers, Calls(c) \/ Continues(c)
    PROVE  /\ UNCHANGED <<sendLock, outgoing, events, status, terminal, nextSeq, answer,
                         emitting, after, finished>>
           /\ ~Open(c) => UNCHANGED wpc
  <1> USE DEF meta, channel, worker
  <1>1. CASE Open(c)
    BY <1>1 DEF Open
  <1>2. CASE BeginNext(c) \/ BeginTimed(c) \/ BeginCommit(c)
    BY <1>2 DEF BeginNext, BeginTimed, BeginCommit, Begin
  <1>3. CASE Cancel(c) \/ Abort(c) \/ CloseRemove(c)
    BY <1>3 DEF Cancel, Abort, CloseRemove
  <1>4. CASE ChatBegin(c) \/ AppendHistory(c) \/ ClearHistory(c) \/ CloseSession(c)
    BY <1>4 DEF ChatBegin, AppendHistory, ClearHistory, CloseSession, SessionFrame
  <1>5. CASE NextCheck(c) \/ NextReceive(c) \/ NextTimeout(c)
    BY <1>5 DEF NextCheck, NextReceive, NextTimeout
  <1>6. CASE CommitCheck(c) \/ CommitWrite(c) \/ CommitRefused(c)
    BY <1>6 DEF CommitCheck, CommitWrite, CommitWriteWhen, CommitRefused, CommitFrame
  <1>7. CASE CloseCancel(c) \/ ChatAnswered(c) \/ ChatFailed(c)
    BY <1>7 DEF CloseCancel, ChatAnswered, ChatFailed, SessionFrame
  <1>8. QED
    BY <1>1, <1>2, <1>3, <1>4, <1>5, <1>6, <1>7 DEF Calls, Continues

\* So the calls keep the order of the events.
LEMMA CallsKeepEvents ==
    ASSUME TypeOK, NEW c \in Callers, Calls(c) \/ Continues(c), NEW s \in Streams
    PROVE  EventsSame(s)
  <1>1. wpc'[s] = "put" => wpc[s] = "put"
    <2>1. CASE Open(c)
      BY <2>1 DEF Open, WGo, TypeOK, WorkerTypes
    <2>2. CASE ~Open(c)
      BY <2>2, CallsSendNothing
    <2>3. QED
      BY <2>1, <2>2
  <1>2. QED
    BY <1>1, CallsSendNothing DEF EventsSame

\* send_event on one stream is nothing to the others.
LEMMA OthersKeepEvents ==
    ASSUME TypeOK, NEW s \in Streams, NEW t \in Streams \ {s},
           \/ WorkerSend(s) \/ WorkerPut(s)
           \/ CancelThreadSend(s) \/ CancelThreadPut(s)
    PROVE  EventsSame(t)
  <1>t. MetaTypes /\ ChannelTypes /\ WorkerTypes
    BY DEF TypeOK
  <1>1. CASE WorkerSend(s)
    <2>1. SendEvent(s, emitting[s], "worker") /\ wpc'[t] = wpc[t]
      BY <1>1, <1>t DEF WorkerSend, WGo, WorkerTypes
    <2>2. QED
      BY <2>1, <1>t DEF SendEvent, Build, EventsSame, MetaTypes, ChannelTypes
  <1>2. CASE WorkerPut(s)
    BY <1>2, <1>t DEF WorkerPut, Put, WGo, EventsSame, meta, ChannelTypes, WorkerTypes
  <1>3. CASE CancelThreadSend(s)
    <2>1. SendEvent(s, "cancelled", "canceller") /\ UNCHANGED wpc
      BY <1>3 DEF CancelThreadSend, worker
    <2>2. QED
      BY <2>1, <1>t DEF SendEvent, Build, EventsSame, MetaTypes, ChannelTypes
  <1>4. CASE CancelThreadPut(s)
    BY <1>4, <1>t DEF CancelThreadPut, Put, EventsSame, meta, worker, ChannelTypes
  <1>5. QED
    BY <1>1, <1>2, <1>3, <1>4

\* The event built bears the next number, and no terminal event came before.
LEMMA SendKeepsEvents ==
    ASSUME MetaTypes, ChannelTypes, NEW s \in Streams, EventsOf(s),
           NEW type \in EventTypes, NEW who \in {"worker", "canceller"},
           SendEvent(s, type, who),
           IF terminal[s] THEN wpc'[s] # "put"
           ELSE wpc'[s] = "put" => who = "worker"
    PROVE  EventsOf(s)'
  <1>1. CASE terminal[s]
    <2>1. EventsSame(s)
      BY <1>1 DEF SendEvent, EventsSame
    <2>2. QED
      BY <2>1, EventsKept
  <1>2. CASE ~terminal[s]
    <2>1. /\ outgoing'[s] = [seq |-> nextSeq[s], type |-> type]
          /\ nextSeq'[s] = nextSeq[s] + 1
          /\ sendLock'[s] = who
          /\ type \in TerminalTypes => terminal'[s] /\ status'[s] = StatusAfter(type)
          /\ events' = events
      BY <1>2 DEF SendEvent, Build, MetaTypes, ChannelTypes
    <2>2. nextSeq[s] = Len(events[s]) + 1 /\ nextSeq[s] \in Nat \ {0}
      BY DEF SendEvent, Unlocked, EventsOf, Sending, MetaTypes
    <2>3. Len(events[s]) \in Nat
      BY DEF ChannelTypes
    <2>4. outgoing'[s] \in Events
      BY <2>1, <2>2 DEF Events
    <2>5. Sending(s)'
      BY <1>2, <2>1, <2>2, <2>3, <2>4 DEF Sending
    <2>6. \A i \in DOMAIN events[s] :
             events[s][i].seq = i /\ events[s][i].type \notin TerminalTypes
      BY <1>2 DEF EventsOf, TerminalKnown
    <2>7. TerminalKnown(s)'
      <3>1. outgoing'[s].type = type
        BY <2>1
      <3>2. outgoing'[s].type \in TerminalTypes =>
               terminal'[s] /\ status'[s] = StatusAfter(outgoing'[s].type)
        BY <2>1, <3>1
      <3>3. \A i \in DOMAIN events'[s] : events'[s][i].type \notin TerminalTypes
        BY <2>1, <2>6
      <3>4. QED
        BY <3>2, <3>3 DEF TerminalKnown
    <2>8. QED
      BY <2>1, <2>5, <2>6, <2>7 DEF EventsOf
  <1>3. QED
    BY <1>1, <1>2

\* The event put is the next one; were it not the first terminal one, the
\* send lock would be free.
LEMMA PutKeepsEvents ==
    ASSUME ChannelTypes, NEW s \in Streams, EventsOf(s), sendLock[s] # "free", Put(s),
           UNCHANGED <<status, terminal, nextSeq>>, wpc'[s] # "put"
    PROVE  EventsOf(s)'
  <1>1. /\ events[s] \in Seq(Events) /\ outgoing[s] \in Events
        /\ events'[s] = Append(events[s], outgoing[s])
        /\ sendLock'[s] = "free"
    BY DEF Put, ChannelTypes, EventsOf, Sending
  <1> DEFINE n == Len(events[s])
  <1>2. /\ n \in Nat /\ Len(events'[s]) = n + 1
        /\ DOMAIN events[s] = 1..n /\ DOMAIN events'[s] = 1..(n + 1)
        /\ \A i \in 1..n : events'[s][i] = events[s][i]
        /\ events'[s][n + 1] = outgoing[s]
    BY <1>1
  <1>3. \A i \in 1..n : events[s][i].seq = i /\ events[s][i].type \notin TerminalTypes
    BY <1>2 DEF EventsOf
  <1>4. outgoing[s].seq = n + 1 /\ nextSeq[s] = n + 2
    BY DEF EventsOf, Sending
  <1>5. outgoing[s].type \in TerminalTypes =>
           terminal[s] /\ status[s] = StatusAfter(outgoing[s].type)
    BY DEF EventsOf, TerminalKnown
  <1>6. Sending(s)'
    BY <1>1, <1>2, <1>4 DEF Sending
  <1>7. \A i \in DOMAIN events'[s] :
           /\ events'[s][i].seq = i
           /\ events'[s][i].type \in TerminalTypes => i = n + 1
    BY <1>2, <1>3, <1>4
  <1>8. TerminalKnown(s)'
    <2>1. ASSUME NEW i \in DOMAIN events'[s], events'[s][i].type \in TerminalTypes
          PROVE  terminal'[s]
      <3>1. i = n + 1
        BY <1>7, <2>1
      <3>2. events'[s][i] = outgoing[s]
        BY <3>1, <1>2
      <3>3. terminal[s]
        BY <2>1, <3>2, <1>5
      <3>4. QED
        BY <3>3
    <2>2. QED
      BY <1>1, <2>1 DEF TerminalKnown
  <1>9. QED
    BY <1>1, <1>2, <1>5, <1>6, <1>7, <1>8 DEF EventsOf

\* A thread that sends on a stream keeps its events in order.
LEMMA SendersKeepEvents ==
    ASSUME TypeOK, NEW s \in Streams, EventsOf(s),
           \/ WorkerSend(s) \/ WorkerPut(s)
           \/ CancelThreadSend(s) \/ CancelThreadPut(s)
    PROVE  EventsOf(s)'
  <1>t. MetaTypes /\ ChannelTypes /\ WorkerTypes
    BY DEF TypeOK
  <1>g. \A p : WGo(s, p) => wpc'[s] = p
    BY <1>t DEF WGo, WorkerTypes
  <1>a. after[s] # "put" /\ emitting[s] \in EventTypes
    BY <1>t DEF WorkerTypes
  <1>1. CASE WorkerSend(s)
    <2>1. IF terminal[s] THEN wpc'[s] # "put" ELSE wpc'[s] = "put" => "worker" = "worker"
      BY <1>1, <1>g, <1>a DEF WorkerSend
    <2>2. SendEvent(s, emitting[s], "worker")
      BY <1>1 DEF WorkerSend
    <2>3. QED
      BY <1>t, <1>a, <2>1, <2>2, SendKeepsEvents
  <1>2. CASE WorkerPut(s)
    <2>1. wpc'[s] # "put" /\ sendLock[s] = "worker"
      BY <1>2, <1>g, <1>a DEF WorkerPut, EventsOf, Sending
    <2>2. Put(s) /\ UNCHANGED <<status, terminal, nextSeq>>
      BY <1>2 DEF WorkerPut, meta
    <2>3. QED
      BY <1>t, <2>1, <2>2, PutKeepsEvents
  <1>3. CASE CancelThreadSend(s)
    <2>1. SendEvent(s, "cancelled", "canceller") /\ UNCHANGED wpc
      BY <1>3 DEF CancelThreadSend, worker
    <2>2. wpc[s] # "put"
      BY <2>1 DEF SendEvent, Unlocked, EventsOf, Sending
    <2>3. IF terminal[s] THEN wpc'[s] # "put"
          ELSE wpc'[s] = "put" => "canceller" = "worker"
      BY <2>1, <2>2
    <2>4. QED
      BY <1>t, <2>1, <2>3, Names, SendKeepsEvents
  <1>4. CASE CancelThreadPut(s)
    <2>1. Put(s) /\ UNCHANGED <<status, terminal, nextSeq>> /\ UNCHANGED wpc
      BY <1>4 DEF CancelThreadPut, meta, worker
    <2>2. wpc'[s] # "put" /\ sendLock[s] # "free"
      BY <1>4, <2>1 DEF CancelThreadPut, EventsOf, Sending
    <2>3. QED
      BY <1>t, <2>1, <2>2, PutKeepsEvents
  <1>5. QED
    BY <1>1, <1>2, <1>3, <1>4

\* The disjuncts of Next, sorted by what they do to the events.
LEMMA Steps ==
    ASSUME Next
    PROVE  \/ \E s \in Streams :
                 \/ WorkerAnswered(s) \/ WorkerFailed(s) \/ WorkerRead(s)
                 \/ WorkerTop(s) \/ WorkerDelta(s) \/ WorkerUsage(s)
                 \/ WorkerFinish(s) \/ WorkerDone(s) \/ WorkerComplete(s)
                 \/ WorkerBadFrame(s) \/ WorkerDrained(s)
           \/ \E s \in Streams : \/ WorkerSend(s) \/ WorkerPut(s)
                                 \/ CancelThreadSend(s) \/ CancelThreadPut(s)
           \/ \E c \in Callers : Calls(c) \/ Continues(c)
  BY DEF Next, Provider, WorkerRuns, CancelThread

\* Every step keeps the events of every stream in order.
LEMMA EventsStep ==
    ASSUME TypeOK, \A s \in Streams : EventsOf(s), [Next]_vars
    PROVE  \A s \in Streams : EventsOf(s)'
  <1> SUFFICES ASSUME NEW t \in Streams PROVE EventsOf(t)'
    OBVIOUS
  <1>1. ASSUME NEW s \in Streams,
               \/ WorkerAnswered(s) \/ WorkerFailed(s) \/ WorkerRead(s)
               \/ WorkerTop(s) \/ WorkerDelta(s) \/ WorkerUsage(s)
               \/ WorkerFinish(s) \/ WorkerDone(s) \/ WorkerComplete(s)
               \/ WorkerBadFrame(s) \/ WorkerDrained(s)
        PROVE  EventsOf(t)'
    <2>1. WorkerMoved(s)
      BY <1>1, WorkerMovesOn
    <2>2. EventsSame(t)
      BY <2>1 DEF WorkerMoved, WorkerFrame, channel, EventsSame
    <2>3. QED
      BY <2>2, EventsKept
  <1>2. ASSUME NEW s \in Streams,
               \/ WorkerSend(s) \/ WorkerPut(s)
               \/ CancelThreadSend(s) \/ CancelThreadPut(s)
        PROVE  EventsOf(t)'
    <2>1. CASE t = s
      BY <1>2, <2>1, SendersKeepEvents
    <2>2. CASE t # s
      <3>1. EventsSame(t)
        BY <1>2, <2>2, OthersKeepEvents
      <3>2. QED
        BY <3>1, EventsKept
    <2>3. QED
      BY <2>1, <2>2
  <1>3. ASSUME NEW c \in Callers, Calls(c) \/ Continues(c)
        PROVE  EventsOf(t)'
    <2>1. EventsSame(t)
      BY <1>3, CallsKeepEvents
    <2>2. QED
      BY <2>1, EventsKept
  <1>4. CASE UNCHANGED vars
    <2>1. EventsSame(t)
      BY <1>4 DEF vars, meta, channel, worker, EventsSame
    <2>2. QED
      BY <2>1, EventsKept
  <1>5. QED
    BY <1>1, <1>2, <1>3, <1>4, Steps

\* They are so at the start, when there are none.
LEMMA InitEvents == Init => \A s \in Streams : EventsOf(s)
  <1> SUFFICES ASSUME Init, NEW s \in Streams PROVE EventsOf(s)
    OBVIOUS
  <1>1. /\ sendLock[s] = "free" /\ events[s] = <<>> /\ nextSeq[s] = 1
        /\ wpc[s] = "none"
    BY DEF Init
  <1>2. QED
    BY <1>1 DEF EventsOf, Sending, TerminalKnown

-----------------------------------------------------------------------------
(* Commit.                                                                  *)

\* What a caller may change while others hold a stream's metadata: neither
\* the lock, nor what commit or abort decided.
CallerLeavesHeld(c) ==
    /\ \A d \in Callers \ {c} : pc'[d] = pc[d] /\ target'[d] = target[d]
    /\ \A s \in Streams : metaLock[s] \notin {None, c} =>
          metaLock'[s] = metaLock[s] /\ fate'[s] = fate[s]

\* A decision: a commit's, which has checked the metadata, or an abort.
Decided(s) == \/ fate'[s] = fate[s] \/ fate'[s] = "aborted"
              \/ status[s] = "completed"

\* A caller moves itself only,
LEMMA GoAlone ==
    ASSUME CallerTypes, NEW c \in Callers, NEW p, CGo(c, p),
           \/ UNCHANGED target \/ \E s : target' = [target EXCEPT ![c] = s]
    PROVE  /\ \A d \in Callers \ {c} : pc'[d] = pc[d] /\ target'[d] = target[d]
           /\ pc'[c] = p
  BY DEF CallerTypes, CGo

\* and has nothing to hold once it has returned.
LEMMA ReturnAlone ==
    ASSUME CallerTypes, NEW c \in Callers, Return(c)
    PROVE  /\ \A d \in Callers \ {c} : pc'[d] = pc[d] /\ target'[d] = target[d]
           /\ CommitterHolds(c)'
  <1>1. pc'[c] = "idle"
    BY GoAlone DEF Return
  <1>2. \A d \in Callers \ {c} : pc'[d] = pc[d] /\ target'[d] = target[d]
    BY GoAlone DEF Return
  <1>3. QED
    BY <1>1, <1>2 DEF CommitterHolds

\* A call that starts finds the metadata unlocked or leaves it alone.
LEMMA CallsRespectHolders ==
    ASSUME TypeOK, NEW c \in Callers, CommitterHolds(c), Calls(c)
    PROVE  /\ CallerLeavesHeld(c) /\ CommitterHolds(c)'
           /\ \A s \in Streams : Decided(s)
  <1> USE DEF meta, caller, CallerLeavesHeld, Decided
  <1>t. CallerTypes /\ MetaTypes /\ metaLock \in [Streams -> Callers \cup {None}]
    BY DEF TypeOK
  <1>i. Calls(c) => pc[c] = "idle"
    BY DEF Calls, Open, BeginNext, BeginTimed, BeginCommit, Begin, Cancel, Abort,
           CloseRemove, ChatBegin, AppendHistory, ClearHistory, CloseSession, Starts
  <1>u. UNCHANGED caller => CommitterHolds(c)'
    BY <1>i DEF CommitterHolds
  <1>1. CASE Open(c)
    BY <1>1, <1>t, <1>u DEF Open
  <1>2. ASSUME NEW op, NEW p \in {"check", "timed check", "commit"}, Begin(c, op, p)
        PROVE  /\ CallerLeavesHeld(c) /\ CommitterHolds(c)'
               /\ \A s \in Streams : Decided(s)
    <2>1. PICK s \in Streams : CGo(c, p) /\ target' = [target EXCEPT ![c] = s]
      BY <1>2 DEF Begin
    <2>2. pc'[c] = p /\ target'[c] = s
      BY <1>t, <2>1 DEF CGo, CallerTypes
    <2>3. CommitterHolds(c)'
      BY <2>2 DEF CommitterHolds
    <2>4. QED
      BY <1>2, <1>t, <2>1, <2>3, GoAlone DEF Begin
  <1>3. CASE BeginNext(c) \/ BeginTimed(c) \/ BeginCommit(c)
    BY <1>2, <1>3 DEF BeginNext, BeginTimed, BeginCommit
  <1>4. CASE Cancel(c)
    BY <1>4, <1>t, <1>u DEF Cancel
  <1>5. CASE Abort(c)
    BY <1>5, <1>t, <1>u DEF Abort, MetaTypes
  <1>6. CASE CloseRemove(c)
    <2>1. PICK s \in Streams : CGo(c, "closing") /\ target' = [target EXCEPT ![c] = s]
      BY <1>6 DEF CloseRemove
    <2>2. pc'[c] = "closing" /\ target'[c] = s
      BY <1>t, <2>1 DEF CGo, CallerTypes
    <2>3. CommitterHolds(c)'
      BY <2>2 DEF CommitterHolds
    <2>4. QED
      BY <1>6, <1>t, <2>1, <2>3, GoAlone DEF CloseRemove
  <1>7. CASE ChatBegin(c)
    <2>1. CommitterHolds(c)'
      <3>1. pc'[c] = "chat"
        BY <1>7, <1>t, GoAlone DEF ChatBegin
      <3>2. QED
        BY <3>1 DEF CommitterHolds
    <2>2. QED
      BY <1>7, <1>t, <2>1, GoAlone DEF ChatBegin, SessionFrame
  <1>8. CASE AppendHistory(c) \/ ClearHistory(c) \/ CloseSession(c)
    BY <1>8, <1>t, <1>u DEF AppendHistory, ClearHistory, CloseSession, SessionFrame
  <1>9. QED
    BY <1>1, <1>3, <1>4, <1>5, <1>6, <1>7, <1>8 DEF Calls

\* A call that goes on takes free metadata, or releases its own.
LEMMA ContinuesRespectHolders ==
    ASSUME TypeOK, NEW c \in Callers, CommitterHolds(c), Continues(c)
    PROVE  /\ CallerLeavesHeld(c) /\ CommitterHolds(c)'
           /\ \A s \in Streams : Decided(s)
  <1> USE DEF meta, caller, CallerLeavesHeld, Decided
  <1>t. CallerTypes /\ MetaTypes /\ metaLock \in [Streams -> Callers \cup {None}]
    BY DEF TypeOK
  <1>1. CASE NextCheck(c)
    <2>1. UNCHANGED <<metaLock, fate, status>>
      BY <1>1 DEF NextCheck
    <2>2. \/ Return(c)
          \/ \E p \in {"recv", "timed recv"} : CGo(c, p) /\ UNCHANGED target
      BY <1>1 DEF NextCheck
    <2>3. target[c] \in Streams
      BY <1>1 DEF NextCheck, CommitterHolds
    <2>4. CASE Return(c)
      BY <1>t, <2>1, <2>4, ReturnAlone
    <2>5. ASSUME NEW p \in {"recv", "timed recv"}, CGo(c, p), UNCHANGED target
          PROVE  CallerLeavesHeld(c) /\ CommitterHolds(c)'
      <3>1. pc'[c] = p
        BY <1>t, <2>5, GoAlone
      <3>2. CommitterHolds(c)'
        BY <2>3, <2>5, <3>1 DEF CommitterHolds
      <3>3. QED
        BY <1>t, <2>1, <2>5, <3>2, GoAlone
    <2>6. QED
      BY <2>1, <2>2, <2>4, <2>5
  <1>2. CASE NextReceive(c)
    BY <1>2, <1>t, ReturnAlone DEF NextReceive
  <1>3. CASE NextTimeout(c)
    BY <1>3, <1>t, ReturnAlone DEF NextTimeout
  <1>4. CASE CommitCheck(c)
    <2>1. target[c] \in Streams /\ metaLock[target[c]] = None /\ UNCHANGED meta
      BY <1>4 DEF CommitCheck, CommitterHolds
    <2>2. CASE Committable(target[c])
      <3>1. /\ CGo(c, "commit write") /\ UNCHANGED target
            /\ metaLock' = [metaLock EXCEPT ![target[c]] = c]
        BY <1>4, <2>2 DEF CommitCheck
      <3>2. metaLock'[target[c]] = c /\ pc'[c] = "commit write"
        BY <1>t, <2>1, <3>1, GoAlone
      <3>3. CommitterHolds(c)'
        BY <2>1, <2>2, <3>1, <3>2 DEF CommitterHolds, Committable
      <3>4. QED
        BY <1>t, <2>1, <3>1, <3>3, GoAlone
    <2>3. CASE ~Committable(target[c])
      BY <1>4, <2>1, <2>3, <1>t, ReturnAlone DEF CommitCheck
    <2>4. QED
      BY <2>2, <2>3
  <1>5. CASE CommitWrite(c)
    <2>1. /\ target[c] \in Streams /\ metaLock[target[c]] = c
          /\ status[target[c]] = "completed"
      BY <1>5 DEF CommitWrite, CommitWriteWhen, CommitterHolds, Committable
    <2>2. /\ Return(c)
          /\ fate' = [fate EXCEPT ![target[c]] = "committed"]
          /\ metaLock' = [metaLock EXCEPT ![target[c]] = None]
      BY <1>5 DEF CommitWrite, CommitWriteWhen
    <2>3. \A s \in Streams \ {target[c]} :
             metaLock'[s] = metaLock[s] /\ fate'[s] = fate[s]
      BY <1>t, <2>2 DEF MetaTypes
    <2>4. QED
      BY <1>t, <2>1, <2>2, <2>3, ReturnAlone
  <1>6. CASE CommitRefused(c)
    <2>1. target[c] \in Streams /\ metaLock[target[c]] = c
      BY <1>6 DEF CommitRefused, CommitterHolds
    <2>2. /\ Return(c) /\ UNCHANGED fate
          /\ metaLock' = [metaLock EXCEPT ![target[c]] = None]
      BY <1>6 DEF CommitRefused
    <2>3. QED
      BY <1>t, <2>1, <2>2, ReturnAlone
  <1>7. CASE CloseCancel(c)
    BY <1>7, <1>t, ReturnAlone DEF CloseCancel
  <1>8. CASE ChatAnswered(c) \/ ChatFailed(c)
    BY <1>8, <1>t, ReturnAlone DEF ChatAnswered, ChatFailed, SessionFrame
  <1>9. QED
    BY <1>1, <1>2, <1>3, <1>4, <1>5, <1>6, <1>7, <1>8 DEF Continues

\* A commit about to write goes on holding the metadata it has checked.
LEMMA HoldersStep ==
    ASSUME TypeOK, \A c \in Callers : CommitterHolds(c), [Next]_vars
    PROVE  \A c \in Callers : CommitterHolds(c)'
  <1> SUFFICES ASSUME NEW d \in Callers PROVE CommitterHolds(d)'
    OBVIOUS
  <1> DEFINE held == target[d]
  <1>d. d # None /\ CommitterHolds(d)
    BY NoneAssumption
  <1>k. ASSUME pc'[d] = pc[d], target'[d] = target[d],
               pc[d] = "commit write" =>
                  /\ metaLock'[held] = metaLock[held] /\ status'[held] = status[held]
                  /\ terminal'[held] = terminal[held] /\ fate'[held] = fate[held]
        PROVE  CommitterHolds(d)'
    BY <1>d, <1>k DEF CommitterHolds, Committable
  <1>1. ASSUME NEW s \in Streams,
               \/ WorkerAnswered(s) \/ WorkerFailed(s) \/ WorkerRead(s)
               \/ WorkerTop(s) \/ WorkerDelta(s) \/ WorkerUsage(s)
               \/ WorkerFinish(s) \/ WorkerDone(s) \/ WorkerComplete(s)
               \/ WorkerBadFrame(s) \/ WorkerDrained(s)
        PROVE  CommitterHolds(d)'
    <2>1. WorkerMoved(s)
      BY <1>1, WorkerMovesOn
    <2>2. QED
      BY <1>k, <2>1 DEF WorkerMoved, WorkerFrame, caller
  <1>2. ASSUME NEW s \in Streams,
               \/ WorkerSend(s) \/ WorkerPut(s)
               \/ CancelThreadSend(s) \/ CancelThreadPut(s)
        PROVE  CommitterHolds(d)'
    <2>1. UNCHANGED <<pc, target, metaLock, fate>>
      BY <1>2 DEF WorkerSend, WorkerPut, CancelThreadSend, CancelThreadPut, SendEvent,
                  meta, caller
    <2>2. CASE WorkerPut(s) \/ CancelThreadPut(s)
      BY <1>k, <2>1, <2>2 DEF WorkerPut, CancelThreadPut, meta
    <2>3. CASE WorkerSend(s) \/ CancelThreadSend(s)
      <3>1. metaLock[s] = None
        BY <2>3 DEF WorkerSend, CancelThreadSend, SendEvent, Unlocked
      <3>2. pc[d] = "commit write" => held \in Streams \ {s}
        BY <1>d, <3>1 DEF CommitterHolds
      <3>3. pc[d] = "commit write" => EventsSame(held)
        BY <1>2, <3>2, OthersKeepEvents
      <3>4. QED
        BY <1>k, <2>1, <3>3 DEF EventsSame
    <2>4. QED
      BY <1>2, <2>2, <2>3
  <1>3. ASSUME NEW c \in Callers, Calls(c) \/ Continues(c)
        PROVE  CommitterHolds(d)'
    <2>1. CallerLeavesHeld(c) /\ CommitterHolds(c)'
      BY <1>3, CallsRespectHolders, ContinuesRespectHolders
    <2>2. UNCHANGED <<status, terminal>>
      BY <1>3, CallsSendNothing
    <2>3. CASE d = c
      BY <2>1, <2>3
    <2>4. CASE d # c
      <3>1. pc[d] = "commit write" => held \in Streams /\ metaLock[held] = d
        BY <1>d DEF CommitterHolds
      <3>2. pc[d] = "commit write" =>
               metaLock'[held] = metaLock[held] /\ fate'[held] = fate[held]
        BY <1>d, <2>1, <2>4, <3>1 DEF CallerLeavesHeld
      <3>3. pc'[d] = pc[d] /\ target'[d] = target[d]
        BY <2>1, <2>4 DEF CallerLeavesHeld
      <3>4. QED
        BY <1>k, <2>2, <3>2, <3>3
    <2>5. QED
      BY <2>3, <2>4
  <1>4. CASE UNCHANGED vars
    BY <1>4, <1>k DEF vars, caller, meta
  <1>5. QED
    BY <1>1, <1>2, <1>3, <1>4, Steps

\* A stream that is completed stays so, and its worker sends nothing more.
CompletedSame(s) ==
    /\ wpc'[s] = wpc[s] /\ emitting'[s] = emitting[s] /\ after'[s] = after[s]
    /\ status'[s] = status[s] /\ terminal'[s] = terminal[s]
    /\ Decided(s)

\* What a completed stream is stays so when only its fate is decided.
LEMMA CompletedKept ==
    ASSUME NEW s \in Streams, CompletedIsOver(s), CompletedSame(s)
    PROVE  CompletedIsOver(s)'
  <1>1. fate'[s] = "committed" => status[s] = "completed"
    BY DEF CompletedIsOver, CompletedSame, Decided
  <1>2. QED
    BY <1>1 DEF CompletedIsOver, CompletedSame

\* Sending completes a stream only when its worker goes on to leave.
LEMMA SendersKeepCompleted ==
    ASSUME TypeOK, NEW s \in Streams, CompletedIsOver(s),
           \/ WorkerSend(s) \/ WorkerPut(s)
           \/ CancelThreadSend(s) \/ CancelThreadPut(s)
    PROVE  CompletedIsOver(s)'
  <1>t. MetaTypes /\ WorkerTypes
    BY DEF TypeOK
  <1>g. \A p : WGo(s, p) => wpc'[s] = p
    BY <1>t DEF WGo, WorkerTypes
  <1>a. after[s] # "emit" /\ emitting[s] \in EventTypes
    BY <1>t DEF WorkerTypes
  <1>1. CASE WorkerSend(s)
    <2>1. SendEvent(s, emitting[s], "worker") /\ UNCHANGED <<emitting, after, fate>>
      BY <1>1 DEF WorkerSend, SendEvent
    <2>2. wpc[s] = "emit" /\ wpc'[s] \in {"put", after[s]}
      BY <1>1, <1>g DEF WorkerSend
    <2>3. status[s] # "completed" /\ fate'[s] # "committed"
      BY <2>1, <2>2 DEF CompletedIsOver
    <2>4. CASE terminal[s]
      <3>1. status'[s] = status[s]
        BY <2>1, <2>4 DEF SendEvent
      <3>2. QED
        BY <1>a, <2>1, <2>2, <2>3, <3>1 DEF CompletedIsOver
    <2>5. CASE ~terminal[s]
      <3>1. wpc'[s] = "put"
        BY <1>1, <1>g, <2>5 DEF WorkerSend
      <3>2. Build(s, emitting[s], "worker")
        BY <2>1, <2>5 DEF SendEvent
      <3>3. status'[s] = "completed" => emitting[s] = "response.completed"
        BY <1>t, <2>3, <3>2 DEF Build, StatusAfter, MetaTypes
      <3>4. emitting[s] = "response.completed" => terminal'[s] /\ after[s] = "exit"
        BY <1>t, <2>2, <3>2 DEF Build, MetaTypes, TerminalTypes, CompletedIsOver
      <3>5. QED
        BY <2>1, <2>3, <3>1, <3>3, <3>4 DEF CompletedIsOver
    <2>6. QED
      BY <2>4, <2>5
  <1>2. CASE WorkerPut(s)
    BY <1>2, <1>a, <1>g DEF WorkerPut, meta, CompletedIsOver
  <1>3. CASE CancelThreadSend(s)
    <2>1. SendEvent(s, "cancelled", "canceller")
          /\ UNCHANGED <<wpc, emitting, after, fate>>
      BY <1>3 DEF CancelThreadSend, worker, SendEvent
    <2>2. CASE terminal[s]
      BY <2>1, <2>2, CompletedKept DEF SendEvent, CompletedSame, Decided
    <2>3. CASE ~terminal[s]
      <3>1. status'[s] = "cancelled" /\ fate'[s] # "committed"
        BY <1>t, <2>1, <2>3
           DEF SendEvent, Build, StatusAfter, TerminalTypes, MetaTypes, CompletedIsOver
      <3>2. QED
        BY <2>1, <3>1 DEF CompletedIsOver
    <2>4. QED
      BY <2>2, <2>3
  <1>4. CASE CancelThreadPut(s)
    BY <1>4, CompletedKept DEF CancelThreadPut, meta, worker, CompletedSame, Decided
  <1>5. QED
    BY <1>1, <1>2, <1>3, <1>4

\* A call that changes a stream's completion is open, of a stream without a
\* worker, or a commit that has checked it.
LEMMA CompletedStep ==
    ASSUME TypeOK, \A s \in Streams : CompletedIsOver(s),
           \A c \in Callers : CommitterHolds(c), [Next]_vars
    PROVE  \A s \in Streams : CompletedIsOver(s)'
  <1> SUFFICES ASSUME NEW t \in Streams PROVE CompletedIsOver(t)'
    OBVIOUS
  <1>d. CompletedIsOver(t)
    OBVIOUS
  <1>1. ASSUME NEW s \in Streams,
               \/ WorkerAnswered(s) \/ WorkerFailed(s) \/ WorkerRead(s)
               \/ WorkerTop(s) \/ WorkerDelta(s) \/ WorkerUsage(s)
               \/ WorkerFinish(s) \/ WorkerDone(s) \/ WorkerComplete(s)
               \/ WorkerBadFrame(s) \/ WorkerDrained(s)
        PROVE  CompletedIsOver(t)'
    <2>1. WorkerMoved(s)
      BY <1>1, WorkerMovesOn
    <2>2. CASE t = s
      <3>1. status'[s] # "completed" /\ fate'[s] # "committed"
        BY <1>d, <2>1, <2>2 DEF WorkerMoved, CompletedIsOver
      <3>2. QED
        BY <2>1, <2>2, <3>1 DEF WorkerMoved, CompletedIsOver
    <2>3. CASE t # s
      <3>1. CompletedSame(t)
        BY <2>1, <2>3 DEF WorkerMoved, CompletedSame, Decided
      <3>2. QED
        BY <1>d, <3>1, CompletedKept
    <2>4. QED
      BY <2>2, <2>3
  <1>2. ASSUME NEW s \in Streams,
               \/ WorkerSend(s) \/ WorkerPut(s)
               \/ CancelThreadSend(s) \/ CancelThreadPut(s)
        PROVE  CompletedIsOver(t)'
    <2>1. CASE t = s
      BY <1>d, <1>2, <2>1, SendersKeepCompleted
    <2>2. CASE t # s
      <3>1. EventsSame(t)
        BY <1>2, <2>2, OthersKeepEvents
      <3>2. UNCHANGED <<emitting, after, fate>>
        BY <1>2 DEF WorkerSend, WorkerPut, CancelThreadSend, CancelThreadPut,
                    SendEvent, meta, worker
      <3>3. wpc'[t] = wpc[t]
        BY <1>2, <2>2 DEF WorkerSend, WorkerPut, CancelThreadSend, CancelThreadPut,
                          worker, WGo, TypeOK, WorkerTypes
      <3>4. QED
        BY <1>d, <3>1, <3>2, <3>3, CompletedKept DEF EventsSame, CompletedSame, Decided
    <2>3. QED
      BY <2>1, <2>2
  <1>3. ASSUME NEW c \in Callers, Calls(c) \/ Continues(c)
        PROVE  CompletedIsOver(t)'
    <2>1. Decided(t) /\ UNCHANGED <<status, terminal, emitting, after>>
      BY <1>3, CallsRespectHolders, ContinuesRespectHolders, CallsSendNothing
    <2>2. CASE wpc'[t] = wpc[t]
      BY <1>d, <2>1, <2>2, CompletedKept DEF CompletedSame
    <2>3. CASE wpc'[t] # wpc[t]
      <3>1. Open(c)
        BY <1>3, <2>3, CallsSendNothing
      <3>2. wpc[t] = "none" /\ wpc'[t] = "request"
        BY <2>3, <3>1 DEF Open, WGo, TypeOK, WorkerTypes
      <3>3. QED
        BY <1>d, <2>1, <3>2 DEF CompletedIsOver, Decided
    <2>4. QED
      BY <2>2, <2>3
  <1>4. CASE UNCHANGED vars
    BY <1>d, <1>4, CompletedKept DEF vars, meta, worker, CompletedSame, Decided
  <1>5. QED
    BY <1>1, <1>2, <1>3, <1>4, Steps

\* The session changes only with its revision.
LEMMA CallsRevise ==
    ASSUME NEW c \in Callers, Calls(c) \/ Continues(c)
    PROVE  /\ UNCHANGED <<history, revision>> \/ revision' = revision + 1
           /\ ~Open(c) => UNCHANGED <<opened, base, wpc>>
  <1> USE DEF session, request
  <1>w. ~Open(c) => UNCHANGED wpc
    BY CallsSendNothing
  <1>1. CASE Open(c)
    BY <1>1 DEF Open
  <1>2. CASE BeginNext(c) \/ BeginTimed(c) \/ BeginCommit(c)
    BY <1>2, <1>w DEF BeginNext, BeginTimed, BeginCommit, Begin
  <1>3. CASE Cancel(c) \/ Abort(c) \/ CloseRemove(c)
    BY <1>3, <1>w DEF Cancel, Abort, CloseRemove
  <1>4. CASE ChatBegin(c) \/ AppendHistory(c) \/ ClearHistory(c) \/ CloseSession(c)
    BY <1>4, <1>w
       DEF ChatBegin, AppendHistory, ClearHistory, CloseSession, SessionFrame, Rewrite
  <1>5. CASE NextCheck(c) \/ NextReceive(c) \/ NextTimeout(c)
    BY <1>5, <1>w DEF NextCheck, NextReceive, NextTimeout
  <1>6. CASE CommitCheck(c) \/ CommitWrite(c) \/ CommitRefused(c)
    BY <1>6, <1>w
       DEF CommitCheck, CommitWrite, CommitWriteWhen, CommitRefused, CommitFrame
  <1>7. CASE CloseCancel(c) \/ ChatAnswered(c) \/ ChatFailed(c)
    BY <1>7, <1>w DEF CloseCancel, ChatAnswered, ChatFailed, SessionFrame, Rewrite
  <1>8. QED
    BY <1>1, <1>2, <1>3, <1>4, <1>5, <1>6, <1>7 DEF Calls, Continues

\* No stream's worker comes or goes back to "none", and the session and the
\* requests do not change, but for calls.
LEMMA ThreadsLeaveSession ==
    ASSUME TypeOK, NEW s \in Streams,
           \/ WorkerMoved(s) \/ WorkerSend(s) \/ WorkerPut(s)
           \/ CancelThreadSend(s) \/ CancelThreadPut(s)
    PROVE  /\ UNCHANGED <<history, revision, opened, base>>
           /\ \A t \in Streams : wpc'[t] = "none" <=> wpc[t] = "none"
  <1>t. WorkerTypes
    BY DEF TypeOK
  <1>1. CASE WorkerMoved(s)
    BY <1>1 DEF WorkerMoved, WorkerFrame, session, request
  <1>2. CASE WorkerSend(s)
    <2>1. wpc[s] # "none" /\ \E p \in {"put", after[s]} : WGo(s, p)
      BY <1>2 DEF WorkerSend
    <2>2. QED
      BY <1>2, <1>t, <2>1 DEF WorkerSend, WGo, WorkerTypes, session, request
  <1>3. CASE WorkerPut(s)
    BY <1>3, <1>t DEF WorkerPut, WGo, WorkerTypes, session, request
  <1>4. CASE CancelThreadSend(s) \/ CancelThreadPut(s)
    BY <1>4 DEF CancelThreadSend, CancelThreadPut, worker, session, request
  <1>5. QED
    BY <1>1, <1>2, <1>3, <1>4

\* Every step keeps what an unchanged revision tells.
LEMMA RevisionStep ==
    ASSUME TypeOK, \A s \in Streams : RevisionTells(s), [Next]_vars
    PROVE  \A s \in Streams : RevisionTells(s)'
  <1> SUFFICES ASSUME NEW t \in Streams PROVE RevisionTells(t)'
    OBVIOUS
  <1>d. RevisionTells(t) /\ revision \in Nat /\ opened[t] \in Nat
    BY DEF TypeOK, SessionTypes, RequestTypes
  <1>1. ASSUME NEW s \in Streams,
               \/ WorkerMoved(s) \/ WorkerSend(s) \/ WorkerPut(s)
               \/ CancelThreadSend(s) \/ CancelThreadPut(s)
        PROVE  RevisionTells(t)'
    <2>1. /\ UNCHANGED <<history, revision, opened, base>>
          /\ wpc'[t] = "none" <=> wpc[t] = "none"
      BY <1>1, ThreadsLeaveSession
    <2>2. QED
      BY <1>d, <2>1 DEF RevisionTells
  <1>2. ASSUME NEW c \in Callers, Calls(c) \/ Continues(c)
        PROVE  RevisionTells(t)'
    <2>1. CASE Open(c)
      <3>1. PICK s \in Streams :
               /\ opened' = [opened EXCEPT ![s] = revision]
               /\ base' = [base EXCEPT ![s] = history]
               /\ WGo(s, "request") /\ UNCHANGED <<history, revision>>
        BY <2>1 DEF Open, session
      <3>2. CASE t = s
        <4>1. opened'[t] = revision /\ base'[t] = history
          BY <3>1, <3>2 DEF TypeOK, RequestTypes
        <4>2. QED
          BY <1>d, <3>1, <4>1 DEF RevisionTells
      <3>3. CASE t # s
        <4>1. opened'[t] = opened[t] /\ base'[t] = base[t] /\ wpc'[t] = wpc[t]
          BY <3>1, <3>3 DEF TypeOK, RequestTypes, WorkerTypes, WGo
        <4>2. QED
          BY <1>d, <3>1, <4>1 DEF RevisionTells
      <3>4. QED
        BY <3>2, <3>3
    <2>2. CASE ~Open(c)
      <3>1. UNCHANGED <<opened, base, wpc>>
        BY <1>2, <2>2, CallsRevise
      <3>2. CASE UNCHANGED <<history, revision>>
        BY <1>d, <3>1, <3>2 DEF RevisionTells
      <3>3. CASE revision' = revision + 1
        <4>1. opened'[t] <= revision' /\ opened'[t] # revision'
          BY <1>d, <3>1, <3>3 DEF RevisionTells
        <4>2. QED
          BY <4>1 DEF RevisionTells
      <3>4. QED
        BY <1>2, <3>2, <3>3, CallsRevise
    <2>3. QED
      BY <2>1, <2>2
  <1>3. CASE UNCHANGED vars
    BY <1>d, <1>3 DEF vars, session, request, worker, RevisionTells
  <1>4. QED
    BY <1>1, <1>2, <1>3, Steps, WorkerMovesOn

-----------------------------------------------------------------------------
(* The inductive invariant.                                                 *)

\* CommitInv, part by part.
LEMMA CommitParts ==
    CommitInv <=> /\ TypeOK
                  /\ \A s \in Streams : CompletedIsOver(s)
                  /\ \A s \in Streams : RevisionTells(s)
                  /\ \A c \in Callers : CommitterHolds(c)
  BY DEF CommitInv

\* Its parts hold at the start.
LEMMA InitCommit ==
    Init => /\ \A s \in Streams : CompletedIsOver(s)
            /\ \A s \in Streams : RevisionTells(s)
            /\ \A c \in Callers : CommitterHolds(c)
  <1> SUFFICES ASSUME Init
               PROVE  /\ \A s \in Streams : CompletedIsOver(s)
                      /\ \A s \in Streams : RevisionTells(s)
                      /\ \A c \in Callers : CommitterHolds(c)
    OBVIOUS
  <1>1. ASSUME NEW s \in Streams PROVE CompletedIsOver(s)
    BY DEF Init, CompletedIsOver
  <1>2. ASSUME NEW s \in Streams PROVE RevisionTells(s)
    BY DEF Init, RevisionTells
  <1>3. ASSUME NEW c \in Callers PROVE CommitterHolds(c)
    BY DEF Init, CommitterHolds
  <1>4. QED
    BY <1>1, <1>2, <1>3

\* The types hold after a step because a thread that waits for room waits
\* with an event, and a call that goes on has a stream.
LEMMA TypesStep ==
    ASSUME TypeOK, \A s \in Streams : EventsOf(s),
           \A c \in Callers : CommitterHolds(c), [Next]_vars
    PROVE  TypeOK'
  <1>1. CASE UNCHANGED vars
    <2>1. UNCHANGED metaLock
      BY <1>1 DEF vars
    <2>2. UNCHANGED <<session, request, meta, channel, cancelling, worker, caller>>
      BY <1>1 DEF vars
    <2>3. QED
      BY <2>1, <2>2, FrameTypes DEF TypeOK
  <1>2. ASSUME NEW s \in Streams,
               \/ WorkerSend(s) \/ WorkerPut(s)
               \/ CancelThreadSend(s) \/ CancelThreadPut(s)
        PROVE  TypeOK'
    BY <1>2, SenderTypesStep DEF EventsOf
  <1>3. ASSUME NEW c \in Callers, Calls(c) \/ Continues(c)
        PROVE  TypeOK'
    BY <1>3, CallTypesStep, ContinueTypesStep
  <1>4. QED
    BY <1>1, <1>2, <1>3, Steps, WorkerTypesStep

\* EventInv and CommitInv are inductive together.
THEOREM Invariant == Spec => [](EventInv /\ CommitInv)
  <1>1. Init => EventInv /\ CommitInv
    BY InitTypes, InitEvents, InitCommit, EventParts, CommitParts
  <1>2. EventInv /\ CommitInv /\ [Next]_vars => (EventInv /\ CommitInv)'
    <2> SUFFICES ASSUME EventInv, CommitInv, [Next]_vars
                 PROVE  (EventInv /\ CommitInv)'
      OBVIOUS
    <2>1. /\ TypeOK /\ \A s \in Streams : EventsOf(s)
          /\ \A s \in Streams : CompletedIsOver(s)
          /\ \A s \in Streams : RevisionTells(s)
          /\ \A c \in Callers : CommitterHolds(c)
      BY EventParts, CommitParts
    <2>2. TypeOK'
      BY <2>1, TypesStep
    <2>3. \A s \in Streams : EventsOf(s)'
      BY <2>1, EventsStep
    <2>4. \A s \in Streams : CompletedIsOver(s)'
      BY <2>1, CompletedStep
    <2>5. \A s \in Streams : RevisionTells(s)'
      BY <2>1, RevisionStep
    <2>6. \A c \in Callers : CommitterHolds(c)'
      BY <2>1, HoldersStep
    <2>7. EventInv'
      BY <2>2, <2>3 DEF EventInv, EventsOf, EventsGapless, TerminalOnceAndLast
    <2>8. CommitInv'
      BY <2>2, <2>4, <2>5, <2>6 DEF CommitInv
    <2>9. QED
      BY <2>7, <2>8
  <1>3. QED
    BY <1>1, <1>2, PTL DEF Spec

\* Every variable of llm_ffi.rs's streams keeps its type, whoever sends,
\* reads, cancels, commits or closes (llm_ffi.rs:1261-1313, 1992-2216).
THEOREM TypeCorrect == Spec => []TypeOK
  <1>1. EventInv /\ CommitInv => TypeOK
    BY DEF EventInv
  <1>2. QED
    BY <1>1, Invariant, PTL

\* send_event (llm_ffi.rs:1315-1333): whichever threads send, and however
\* long the queue was full, readers get the events 1, 2, 3, ...
THEOREM EventsNumbered == Spec => []EventsGapless
  <1>1. EventInv /\ CommitInv => EventsGapless
    BY DEF EventInv
  <1>2. QED
    BY <1>1, Invariant, PTL

\* send_event, against the race of the provider's end with cancel's thread
\* (llm_ffi.rs:1315-1342, 2122-2140): one terminal event at most, the last.
THEOREM OneTerminalEvent == Spec => []TerminalOnceAndLast
  <1>1. EventInv /\ CommitInv => TerminalOnceAndLast
    BY DEF EventInv
  <1>2. QED
    BY <1>1, Invariant, PTL

-----------------------------------------------------------------------------
(* The streams implement the ledger.                                        *)

\* Who has asked changes with the workers and the requests only.
LEMMA AskedSame ==
    ASSUME UNCHANGED base,
           \A s \in Streams : wpc'[s] = "none" <=> wpc[s] = "none"
    PROVE  Asked' = Asked
  BY DEF Asked

\* A step that changes nothing the ledger sees is a stutter of it.
LEMMA LedgerStutters ==
    ASSUME UNCHANGED <<history, answer, fate>>, Asked' = Asked
    PROVE  [Ledger!Next]_Ledger!vars
  BY DEF Ledger!vars

\* The worker's deltas are what is heard; it does nothing else to the ledger.
LEMMA ThreadsImplementLedger ==
    ASSUME TypeOK, \A s \in Streams : CompletedIsOver(s), NEW s \in Streams,
           \/ WorkerAnswered(s) \/ WorkerFailed(s) \/ WorkerRead(s) \/ WorkerTop(s)
           \/ WorkerDelta(s) \/ WorkerUsage(s) \/ WorkerFinish(s) \/ WorkerDone(s)
           \/ WorkerComplete(s) \/ WorkerBadFrame(s) \/ WorkerDrained(s)
           \/ WorkerSend(s) \/ WorkerPut(s)
           \/ CancelThreadSend(s) \/ CancelThreadPut(s)
    PROVE  [Ledger!Next]_Ledger!vars
  <1>1. \/ WorkerMoved(s) \/ WorkerSend(s) \/ WorkerPut(s)
        \/ CancelThreadSend(s) \/ CancelThreadPut(s)
    BY WorkerMovesOn
  <1>2. UNCHANGED history /\ Asked' = Asked
    BY <1>1, ThreadsLeaveSession, AskedSame
  <1>3. CASE WorkerDelta(s)
    <2>1. \E d \in DeltaTypes : answer' = [answer EXCEPT ![s] = Append(@, d)]
      BY <1>3 DEF WorkerDelta
    <2>2. wpc[s] = "frames" /\ UNCHANGED fate
      BY <1>3 DEF WorkerDelta
    <2>3. fate[s] # "committed"
      BY <2>2 DEF CompletedIsOver
    <2>4. Asked[s] # <<>>
      BY <2>2 DEF Asked
    <2>5. Ledger!Hear(s)
      BY <1>2, <2>1, <2>2, <2>3, <2>4 DEF Ledger!Hear
    <2>6. QED
      BY <2>5 DEF Ledger!Next
  <1>4. CASE ~WorkerDelta(s)
    <2>1. UNCHANGED <<answer, fate>>
      BY <1>4 DEF WorkerAnswered, WorkerFailed, WorkerRead, WorkerTop, WorkerUsage,
                  WorkerFinish, WorkerDone, WorkerComplete, WorkerBadFrame,
                  WorkerDrained, WorkerSend, WorkerPut, CancelThreadSend,
                  CancelThreadPut, SendEvent, meta
    <2>2. QED
      BY <1>2, <2>1, LedgerStutters
  <1>5. QED
    BY <1>3, <1>4

\* open asks, commit and abort decide, the other calls rewrite the history.
LEMMA CallersImplementLedger ==
    ASSUME TypeOK, \A s \in Streams : CompletedIsOver(s) /\ RevisionTells(s),
           NEW c \in Callers, CommitterHolds(c), Calls(c) \/ Continues(c)
    PROVE  [Ledger!Next]_Ledger!vars
  <1>a. UNCHANGED answer
    BY CallsSendNothing
  <1>b. ~Open(c) => UNCHANGED <<base, wpc>>
    BY CallsRevise
  <1>c. ~Open(c) => Asked' = Asked
    BY <1>b, AskedSame
  <1>r. ASSUME Asked' = Asked, UNCHANGED fate,
               history' \in {Append(history, OtherEntry), <<>>}
        PROVE  [Ledger!Next]_Ledger!vars
    BY <1>a, <1>r DEF OtherEntry, Ledger!Rewrite, Ledger!Next
  <1>1. CASE Open(c)
    <2>1. PICK s \in Streams :
             /\ wpc[s] = "none" /\ WGo(s, "request")
             /\ base' = [base EXCEPT ![s] = history]
             /\ UNCHANGED <<history, fate>>
      BY <1>1 DEF Open, session, meta
    <2>2. Asked[s] = <<>>
      BY <2>1 DEF Asked
    <2>3. Asked' = [Asked EXCEPT ![s] = <<history>>]
      BY <2>1 DEF Asked, WGo, TypeOK, WorkerTypes, RequestTypes
    <2>4. Ledger!Ask(s)
      BY <1>a, <2>1, <2>2, <2>3 DEF Ledger!Ask
    <2>5. QED
      BY <2>4 DEF Ledger!Next
  <1>2. CASE Abort(c) /\ ~Open(c)
    <2>1. PICK s \in Streams :
             /\ fate[s] # "committed" /\ fate' = [fate EXCEPT ![s] = "aborted"]
             /\ UNCHANGED history
      BY <1>2 DEF Abort, session
    <2>2. Ledger!Abort(s)
      BY <1>a, <1>c, <1>2, <2>1 DEF Ledger!Abort
    <2>3. QED
      BY <2>2 DEF Ledger!Next
  <1>3. CASE CommitWrite(c) /\ ~Open(c)
    <2> DEFINE s == target[c]
    <2>1. s \in Streams /\ Committable(s)
      BY <1>3 DEF CommitWrite, CommitWriteWhen, CommitterHolds
    <2>2. fate[s] = "pending" /\ wpc[s] # "none"
      BY <2>1 DEF Committable, CompletedIsOver
    <2>3. Asked[s] = <<history>>
      <3>1. opened[s] = revision
        BY <1>3 DEF CommitWrite, CommitWriteWhen
      <3>2. base[s] = history
        BY <2>1, <2>2, <3>1 DEF RevisionTells
      <3>3. QED
        BY <2>1, <2>2, <3>2 DEF Asked
    <2>4. /\ history' = Append(history, [by |-> s, answer |-> answer[s]])
          /\ fate' = [fate EXCEPT ![s] = "committed"]
      BY <1>3 DEF CommitWrite, CommitWriteWhen, Entry
    <2>5. Ledger!Commit(s)
      BY <1>a, <1>c, <1>3, <2>2, <2>3, <2>4 DEF Ledger!Commit
    <2>6. QED
      BY <2>1, <2>5 DEF Ledger!Next
  <1>4. CASE (ChatAnswered(c) \/ AppendHistory(c) \/ ClearHistory(c)) /\ ~Open(c)
    <2>1. UNCHANGED fate
      BY <1>4 DEF ChatAnswered, AppendHistory, ClearHistory, SessionFrame, meta
    <2>2. history' \in {Append(history, OtherEntry), <<>>}
      BY <1>4 DEF ChatAnswered, AppendHistory, ClearHistory, Rewrite
    <2>3. QED
      BY <1>c, <1>r, <1>4, <2>1, <2>2
  <1>5. CASE /\ ~Open(c)
             /\ \/ BeginNext(c) \/ BeginTimed(c) \/ BeginCommit(c) \/ Cancel(c)
                \/ CloseRemove(c) \/ ChatBegin(c) \/ CloseSession(c)
    <2>1. UNCHANGED <<history, fate>>
      BY <1>5 DEF BeginNext, BeginTimed, BeginCommit, Begin, Cancel, CloseRemove,
                  ChatBegin, CloseSession, SessionFrame, session, meta
    <2>2. Asked' = Asked
      BY <1>c, <1>5
    <2>3. QED
      BY <1>a, <2>1, <2>2, LedgerStutters
  <1>6. CASE /\ ~Open(c)
             /\ \/ NextCheck(c) \/ NextReceive(c) \/ NextTimeout(c)
                \/ CommitCheck(c) \/ CommitRefused(c) \/ CloseCancel(c)
                \/ ChatFailed(c)
    <2>1. UNCHANGED <<history, fate>>
      BY <1>6 DEF NextCheck, NextReceive, NextTimeout, CommitCheck, CommitRefused,
                  CloseCancel, ChatFailed, SessionFrame, session, meta
    <2>2. Asked' = Asked
      BY <1>c, <1>6
    <2>3. QED
      BY <1>a, <2>1, <2>2, LedgerStutters
  <1>7. QED
    BY <1>1, <1>2, <1>3, <1>4, <1>5, <1>6 DEF Calls, Continues

\* commit's compare-and-swap (llm_ffi.rs:2156-2188) on every number of
\* streams and callers: the ledger's promise.
THEOREM StreamsImplementLedger == Spec => ImplementsLedger
  <1>1. Init => Ledger!Init
    <2> SUFFICES ASSUME Init PROVE Ledger!Init
      OBVIOUS
    <2>1. Asked = [s \in Streams |-> <<>>]
      BY DEF Init, Asked
    <2>2. QED
      BY <2>1 DEF Init, Ledger!Init
  <1>2. EventInv /\ CommitInv /\ [Next]_vars => [Ledger!Next]_Ledger!vars
    <2> SUFFICES ASSUME EventInv, CommitInv, [Next]_vars
                 PROVE  [Ledger!Next]_Ledger!vars
      OBVIOUS
    <2>1. /\ TypeOK
          /\ \A s \in Streams : CompletedIsOver(s) /\ RevisionTells(s)
          /\ \A c \in Callers : CommitterHolds(c)
      BY DEF CommitInv
    <2>2. CASE UNCHANGED vars
      <3>1. UNCHANGED <<history, answer, fate, base, wpc>>
        BY <2>2 DEF vars, session, request, meta, worker
      <3>2. QED
        BY <3>1, AskedSame, LedgerStutters
    <2>3. ASSUME NEW c \in Callers, Calls(c) \/ Continues(c)
          PROVE  [Ledger!Next]_Ledger!vars
      BY <2>1, <2>3, CallersImplementLedger
    <2>4. QED
      BY <2>1, <2>2, <2>3, Steps, ThreadsImplementLedger
  <1>3. QED
    BY <1>1, <1>2, Invariant, PTL DEF Spec, ImplementsLedger, Ledger!Spec

(* A stream's end is told.                                                   *)

\* Only an opened stream is cancelled, and the flag means that the end was told,
\* will be by a cancel thread, or that nobody can ask any more; and a worker
\* leaves with a terminal event, or because of the flag.
EndTold(s) ==
    /\ pooled[s] \/ cancelled[s] => wpc[s] # "none"
    /\ cancelled[s] => terminal[s] \/ cancels[s] > 0 \/ ~pooled[s]
    /\ wpc[s] = "emit" /\ after[s] = "exit" => emitting[s] \in TerminalTypes
    /\ wpc[s] = "put" /\ after[s] = "exit" => terminal[s]
    /\ wpc[s] = "exit" => terminal[s] \/ cancelled[s]

\* A close has taken the handle of a stream that was opened.
ClosingTook(c) ==
    pc[c] = "closing" =>
        target[c] \in Streams /\ wpc[target[c]] # "none" /\ ~pooled[target[c]]

EndInv == (\A s \in Streams : EndTold(s)) /\ \A c \in Callers : ClosingTook(c)

EndSame(s) ==
    /\ pooled'[s] = pooled[s] /\ cancelled'[s] = cancelled[s] /\ cancels'[s] = cancels[s]
    /\ terminal'[s] = terminal[s] /\ wpc'[s] = wpc[s] /\ emitting'[s] = emitting[s]
    /\ after'[s] = after[s]

LEMMA EndSameTold ==
    ASSUME NEW s, EndTold(s), EndSame(s) PROVE EndTold(s)'
  BY DEF EndTold, EndSame

LEMMA InitEnds == Init => EndInv
  BY DEF Init, EndInv, EndTold, ClosingTook

\* What a worker's step leaves to the others, and to calls to close.
LEMMA WorkersLeave ==
    ASSUME TypeOK, EndInv, NEW s \in Streams, EndTold(s)', wpc[s] # "none", wpc'[s] # "none",
           \A t \in Streams \ {s} : EndSame(t),
           UNCHANGED <<pooled, pc, target>>
    PROVE  EndInv'
  <1>1. \A t \in Streams : EndTold(t)'
    BY EndSameTold DEF EndInv
  <1>2. ASSUME NEW c \in Callers PROVE ClosingTook(c)'
    <2>1. \A t \in Streams : wpc[t] # "none" => wpc'[t] # "none"
      BY DEF EndSame
    <2>2. QED
      BY <2>1 DEF EndInv, ClosingTook
  <1>3. QED
    BY <1>1, <1>2 DEF EndInv

\* The worker goes somewhere, nothing else.
LEMMA WorkerGoes ==
    ASSUME WorkerTypes, NEW s \in Streams, NEW p, WGo(s, p), UNCHANGED <<emitting, after>>,
           UNCHANGED <<pooled, terminal, cancelled, cancels>>
    PROVE  /\ wpc'[s] = p /\ \A t \in Streams \ {s} : EndSame(t)
           /\ UNCHANGED <<emitting, after, pooled, terminal, cancelled, cancels>>
  BY DEF WorkerTypes, WGo, EndSame

LEMMA WorkerAboutToEmit ==
    ASSUME WorkerTypes, NEW s \in Streams, NEW type, NEW p, Emit(s, type, p),
           UNCHANGED <<pooled, terminal, cancelled, cancels>>
    PROVE  /\ wpc'[s] = "emit" /\ emitting'[s] = type /\ after'[s] = p
           /\ \A t \in Streams \ {s} : EndSame(t)
  BY DEF WorkerTypes, WGo, Emit, EndSame

LEMMA GoTellsEnd ==
    ASSUME TypeOK, EndInv, NEW s \in Streams, wpc[s] # "none",
           NEW p \in {"top", "read", "frames", "exit"}, p = "exit" => cancelled[s],
           WGo(s, p), UNCHANGED <<emitting, after, pooled, terminal, cancelled, cancels>>,
           UNCHANGED <<pc, target>>
    PROVE  EndInv'
  <1>1. WorkerTypes
    BY DEF TypeOK
  <1>2. wpc'[s] = p /\ \A t \in Streams \ {s} : EndSame(t)
    BY <1>1, WorkerGoes
  <1>3. EndTold(s)'
    BY <1>2 DEF EndInv, EndTold
  <1>4. QED
    BY <1>2, <1>3, WorkersLeave

LEMMA EmitTellsEnd ==
    ASSUME TypeOK, EndInv, NEW s \in Streams, wpc[s] # "none",
           NEW type, NEW p, p = "exit" => type \in TerminalTypes,
           Emit(s, type, p), UNCHANGED <<pooled, terminal, cancelled, cancels>>,
           UNCHANGED <<pc, target>>
    PROVE  EndInv'
  <1>1. WorkerTypes
    BY DEF TypeOK
  <1>2. /\ wpc'[s] = "emit" /\ emitting'[s] = type /\ after'[s] = p
        /\ \A t \in Streams \ {s} : EndSame(t)
    BY <1>1, WorkerAboutToEmit
  <1>3. EndTold(s)'
    BY <1>2 DEF EndInv, EndTold
  <1>4. QED
    BY <1>2, <1>3, WorkersLeave

LEMMA WorkersTellEnd ==
    ASSUME TypeOK, EndInv, NEW s \in Streams,
           \/ WorkerAnswered(s) \/ WorkerFailed(s) \/ WorkerRead(s) \/ WorkerTop(s)
           \/ WorkerDelta(s) \/ WorkerUsage(s) \/ WorkerFinish(s) \/ WorkerDone(s)
           \/ WorkerComplete(s) \/ WorkerBadFrame(s) \/ WorkerDrained(s)
    PROVE  EndInv'
  <1>0. WorkerFrame => UNCHANGED <<pooled, cancelled, cancels, pc, target>>
    BY DEF WorkerFrame, request, cancelling, caller
  <1>1. CASE WorkerAnswered(s)
    <2>1. /\ wpc[s] # "none" /\ UnlessCancelled(s, "response.started", "top")
          /\ UNCHANGED <<pooled, terminal, cancelled, cancels, pc, target>>
      BY <1>0, <1>1 DEF WorkerAnswered, meta
    <2>2. QED
      BY <2>1, GoTellsEnd, EmitTellsEnd DEF UnlessCancelled
  <1>2. CASE WorkerFailed(s)
    <2>1. /\ wpc[s] # "none" /\ UnlessCancelled(s, "error", "exit")
          /\ UNCHANGED <<pooled, terminal, cancelled, cancels, pc, target>>
      BY <1>0, <1>2 DEF WorkerFailed, meta
    <2>2. "error" \in TerminalTypes
      BY DEF TerminalTypes
    <2>3. QED
      BY <2>1, <2>2, GoTellsEnd, EmitTellsEnd DEF UnlessCancelled
  <1>3. CASE WorkerRead(s)
    BY <1>0, <1>3, GoTellsEnd DEF WorkerRead, meta
  <1>4. CASE WorkerTop(s)
    BY <1>0, <1>4, GoTellsEnd DEF WorkerTop, meta
  <1>5. CASE WorkerDelta(s)
    BY <1>0, <1>5, EmitTellsEnd DEF WorkerDelta
  <1>6. CASE WorkerUsage(s)
    BY <1>0, <1>6, EmitTellsEnd DEF WorkerUsage
  <1>7. CASE WorkerFinish(s)
    <2>1. UNCHANGED <<pooled, cancelled, cancels, pc, target, terminal, wpc, emitting, after>>
      BY <1>0, <1>7 DEF WorkerFinish, meta
    <2>2. QED
      BY <2>1 DEF EndInv, EndTold, ClosingTook
  <1>8. CASE WorkerDone(s)
    <2>1. "error" \in TerminalTypes /\ "response.completed" \in TerminalTypes
      BY DEF TerminalTypes
    <2>2. QED
      BY <1>0, <1>8, <2>1, EmitTellsEnd DEF WorkerDone, meta
  <1>9. CASE WorkerComplete(s)
    <2>1. "response.completed" \in TerminalTypes
      BY DEF TerminalTypes
    <2>2. QED
      BY <1>0, <1>9, <2>1, EmitTellsEnd DEF WorkerComplete, meta
  <1>10. CASE WorkerBadFrame(s)
    <2>1. "error" \in TerminalTypes
      BY DEF TerminalTypes
    <2>2. QED
      BY <1>0, <1>10, <2>1, EmitTellsEnd DEF WorkerBadFrame, meta
  <1>11. CASE WorkerDrained(s)
    BY <1>0, <1>11, GoTellsEnd DEF WorkerDrained, meta
  <1>12. QED
    BY <1>1, <1>2, <1>3, <1>4, <1>5, <1>6, <1>7, <1>8, <1>9, <1>10, <1>11

\* send_event, by the worker or by a cancel thread.
LEMMA SentEnds ==
    ASSUME MetaTypes, NEW s \in Streams, NEW type, NEW who, SendEvent(s, type, who)
    PROVE  /\ terminal'[s] <=> terminal[s] \/ type \in TerminalTypes
           /\ \A t \in Streams \ {s} : terminal'[t] = terminal[t]
  BY DEF MetaTypes, SendEvent, Build

LEMMA SendersTellEnd ==
    ASSUME TypeOK, EndInv, NEW s \in Streams,
           \/ WorkerSend(s) \/ WorkerPut(s)
           \/ CancelThreadSend(s) \/ CancelThreadPut(s)
    PROVE  EndInv'
  <1>t. WorkerTypes /\ MetaTypes /\ CancelTypes
    BY DEF TypeOK
  <1>1. CASE WorkerSend(s)
    <2>1. /\ wpc[s] = "emit" /\ SendEvent(s, emitting[s], "worker")
          /\ wpc' = [wpc EXCEPT ![s] = IF terminal[s] THEN after[s] ELSE "put"]
          /\ UNCHANGED <<pooled, cancelled, cancels, emitting, after, pc, target>>
      BY <1>1 DEF WorkerSend, WGo, request, cancelling, caller
    <2>2. /\ terminal'[s] <=> terminal[s] \/ emitting[s] \in TerminalTypes
          /\ \A t \in Streams \ {s} : terminal'[t] = terminal[t]
      BY <1>t, <2>1, SentEnds
    <2>3. /\ wpc'[s] = IF terminal[s] THEN after[s] ELSE "put"
          /\ \A t \in Streams \ {s} : wpc'[t] = wpc[t]
          /\ after[s] \in {"top", "frames", "complete", "exit"}
      BY <1>t, <2>1 DEF WorkerTypes
    <2>4. EndTold(s)'
      BY <2>1, <2>2, <2>3 DEF EndInv, EndTold
    <2>5. \A t \in Streams \ {s} : EndSame(t)
      BY <2>1, <2>2, <2>3 DEF EndSame
    <2>6. wpc[s] # "none" /\ wpc'[s] # "none"
      BY <2>1, <2>3
    <2>7. QED
      BY <2>1, <2>4, <2>5, <2>6, WorkersLeave
  <1>2. CASE WorkerPut(s)
    <2>1. /\ wpc[s] = "put" /\ wpc' = [wpc EXCEPT ![s] = after[s]]
          /\ UNCHANGED <<pooled, cancelled, cancels, emitting, after, pc, target, terminal>>
      BY <1>2 DEF WorkerPut, WGo, request, cancelling, caller, meta
    <2>2. /\ wpc'[s] = after[s] /\ \A t \in Streams \ {s} : wpc'[t] = wpc[t]
          /\ after[s] \in {"top", "frames", "complete", "exit"}
      BY <1>t, <2>1 DEF WorkerTypes
    <2>3. EndTold(s)'
      BY <2>1, <2>2 DEF EndInv, EndTold
    <2>4. \A t \in Streams \ {s} : EndSame(t)
      BY <2>1, <2>2 DEF EndSame
    <2>5. wpc[s] # "none" /\ wpc'[s] # "none"
      BY <2>1, <2>2
    <2>6. QED
      BY <2>1, <2>3, <2>4, <2>5, WorkersLeave
  <1>3. CASE CancelThreadSend(s)
    <2>1. /\ SendEvent(s, "cancelled", "canceller") /\ cancels' = [cancels EXCEPT ![s] = @ - 1]
          /\ UNCHANGED <<pooled, cancelled, emitting, after, wpc, pc, target>>
      BY <1>3 DEF CancelThreadSend, request, worker, caller
    <2>2. terminal'[s] /\ \A t \in Streams \ {s} : terminal'[t] = terminal[t]
      BY <1>t, <2>1, SentEnds DEF TerminalTypes
    <2>3. \A t \in Streams \ {s} : cancels'[t] = cancels[t]
      BY <1>t, <2>1 DEF CancelTypes
    <2>4. EndTold(s)'
      BY <2>1, <2>2 DEF EndInv, EndTold
    <2>5. \A t \in Streams \ {s} : EndTold(t)'
      BY <2>1, <2>2, <2>3, EndSameTold DEF EndSame, EndInv
    <2>6. \A c \in Callers : ClosingTook(c)'
      BY <2>1 DEF EndInv, ClosingTook
    <2>7. QED
      BY <2>4, <2>5, <2>6 DEF EndInv
  <1>4. CASE CancelThreadPut(s)
    <2>1. UNCHANGED <<pooled, cancelled, cancels, pc, target, terminal, wpc, emitting, after>>
      BY <1>4 DEF CancelThreadPut, request, meta, cancelling, worker, caller
    <2>2. QED
      BY <2>1 DEF EndInv, EndTold, ClosingTook
  <1>5. QED
    BY <1>1, <1>2, <1>3, <1>4

\* A call that is not about a handle, or that only looks.
LEMMA QuietCallEnd ==
    ASSUME EndInv, NEW c \in Callers,
           UNCHANGED <<pooled, cancelled, cancels, terminal, wpc, emitting, after>>,
           pc'[c] # "closing",
           \A d \in Callers \ {c} : pc'[d] = pc[d] /\ target'[d] = target[d]
    PROVE  EndInv'
  <1>1. \A s \in Streams : EndTold(s)'
    BY DEF EndInv, EndTold
  <1>2. \A d \in Callers : ClosingTook(d)'
    BY DEF EndInv, ClosingTook
  <1>3. QED
    BY <1>1, <1>2 DEF EndInv

\* A call on a handle changes what is known of it.
LEMMA HandleCallEnd ==
    ASSUME EndInv, NEW c \in Callers, NEW s \in Streams, EndTold(s)',
           \A t \in Streams \ {s} : EndSame(t),
           pooled'[s] => pooled[s] \/ wpc[s] = "none", wpc[s] # "none" => wpc'[s] # "none",
           ClosingTook(c)',
           \A d \in Callers \ {c} : pc'[d] = pc[d] /\ target'[d] = target[d]
    PROVE  EndInv'
  <1>1. \A t \in Streams : EndTold(t)'
    BY EndSameTold DEF EndInv
  <1>2. ASSUME NEW d \in Callers \ {c} PROVE ClosingTook(d)'
    <2>1. \A t \in Streams : /\ wpc[t] # "none" => wpc'[t] # "none"
                             /\ pooled'[t] => pooled[t] \/ wpc[t] = "none"
      BY DEF EndSame
    <2>2. QED
      BY <2>1 DEF EndInv, ClosingTook
  <1>3. QED
    BY <1>1, <1>2 DEF EndInv

LEMMA CallsTellEnd ==
    ASSUME TypeOK, EndInv, NEW c \in Callers, Calls(c)
    PROVE  EndInv'
  <1>t. CallerTypes /\ RequestTypes /\ CancelTypes /\ WorkerTypes
    BY DEF TypeOK
  <1>s. /\ UNCHANGED <<terminal, emitting, after>> /\ (~Open(c) => UNCHANGED wpc)
    BY CallsSendNothing
  <1>1. CASE Open(c)
    <2>1. PICK s \in Streams :
            /\ wpc[s] = "none" /\ pooled' = [pooled EXCEPT ![s] = TRUE]
            /\ wpc' = [wpc EXCEPT ![s] = "request"]
            /\ UNCHANGED <<cancelled, cancels, pc, target>> /\ pc[c] = "idle"
      BY <1>1 DEF Open, WGo, Starts, cancelling, caller
    <2>2. /\ pooled'[s] /\ wpc'[s] = "request"
          /\ \A t \in Streams \ {s} : pooled'[t] = pooled[t] /\ wpc'[t] = wpc[t]
      BY <1>t, <2>1 DEF RequestTypes, WorkerTypes
    <2>3. EndTold(s)' /\ \A t \in Streams \ {s} : EndSame(t)
      BY <1>s, <2>1, <2>2 DEF EndInv, EndTold, EndSame
    <2>4. ClosingTook(c)'
      BY <2>1 DEF ClosingTook
    <2>5. QED
      BY <2>1, <2>2, <2>3, <2>4, HandleCallEnd
  <1>2. CASE BeginNext(c) \/ BeginTimed(c) \/ BeginCommit(c)
    <2>1. /\ pc'[c] # "closing"
          /\ \A d \in Callers \ {c} : pc'[d] = pc[d] /\ target'[d] = target[d]
      BY <1>t, <1>2 DEF BeginNext, BeginTimed, BeginCommit, Begin, CGo, CallerTypes
    <2>2. UNCHANGED <<pooled, cancelled, cancels, wpc>>
      BY <1>2 DEF BeginNext, BeginTimed, BeginCommit, Begin, request, cancelling, worker
    <2>3. QED
      BY <1>s, <2>1, <2>2, QuietCallEnd
  <1>3. CASE Cancel(c)
    <2>1. PICK s \in Streams :
            /\ pooled[s] /\ cancelled' = [cancelled EXCEPT ![s] = TRUE]
            /\ cancels' = [cancels EXCEPT ![s] = @ + 1]
            /\ UNCHANGED <<pooled, wpc, pc, target>> /\ pc[c] = "idle"
      BY <1>3 DEF Cancel, Starts, request, worker, caller
    <2>2. /\ cancelled'[s] /\ cancels'[s] = cancels[s] + 1 /\ cancels[s] \in Nat
          /\ \A t \in Streams \ {s} : cancelled'[t] = cancelled[t] /\ cancels'[t] = cancels[t]
      BY <1>t, <2>1 DEF CancelTypes
    <2>3. cancels'[s] > 0
      BY <2>2
    <2>4. EndTold(s)'
      BY <1>s, <2>1, <2>2, <2>3 DEF EndInv, EndTold
    <2>5. \A t \in Streams \ {s} : EndSame(t)
      BY <1>s, <2>1, <2>2 DEF EndSame
    <2>6. ClosingTook(c)'
      BY <2>1 DEF ClosingTook
    <2>7. QED
      BY <2>1, <2>4, <2>5, <2>6, HandleCallEnd
  <1>4. CASE CloseRemove(c)
    <2>1. PICK s \in Streams :
            /\ pooled[s] /\ pooled' = [pooled EXCEPT ![s] = FALSE]
            /\ pc' = [pc EXCEPT ![c] = "closing"] /\ target' = [target EXCEPT ![c] = s]
            /\ UNCHANGED <<cancelled, cancels, wpc>>
      BY <1>4 DEF CloseRemove, CGo, cancelling, worker
    <2>2. ~pooled'[s] /\ \A t \in Streams \ {s} : pooled'[t] = pooled[t]
      BY <1>t, <2>1 DEF RequestTypes
    <2>3. /\ pc'[c] = "closing" /\ target'[c] = s
          /\ \A d \in Callers \ {c} : pc'[d] = pc[d] /\ target'[d] = target[d]
      BY <1>t, <2>1 DEF CallerTypes
    <2>4. wpc[s] # "none"
      BY <2>1 DEF EndInv, EndTold
    <2>5. EndTold(s)' /\ \A t \in Streams \ {s} : EndSame(t)
      BY <1>s, <2>1, <2>2 DEF EndInv, EndTold, EndSame
    <2>6. ClosingTook(c)'
      BY <2>1, <2>2, <2>3, <2>4 DEF ClosingTook
    <2>7. QED
      BY <2>1, <2>2, <2>3, <2>5, <2>6, HandleCallEnd
  <1>5. CASE Abort(c) \/ ChatBegin(c) \/ AppendHistory(c) \/ ClearHistory(c) \/ CloseSession(c)
    <2>1. /\ pc'[c] # "closing"
          /\ \A d \in Callers \ {c} : pc'[d] = pc[d] /\ target'[d] = target[d]
      BY <1>t, <1>5
         DEF Abort, ChatBegin, AppendHistory, ClearHistory, CloseSession, Starts, CGo, caller,
             CallerTypes
    <2>2. UNCHANGED <<pooled, cancelled, cancels, wpc>>
      BY <1>5 DEF Abort, ChatBegin, AppendHistory, ClearHistory, CloseSession, SessionFrame,
                  request, cancelling, worker
    <2>3. QED
      BY <1>s, <2>1, <2>2, QuietCallEnd
  <1>6. QED
    BY <1>1, <1>2, <1>3, <1>4, <1>5 DEF Calls

LEMMA ContinuesTellEnd ==
    ASSUME TypeOK, EndInv, NEW c \in Callers, Continues(c)
    PROVE  EndInv'
  <1>t. CallerTypes /\ CancelTypes
    BY DEF TypeOK
  <1>s. UNCHANGED <<terminal, emitting, after>>
    BY CallsSendNothing
  <1>1. CASE NextCheck(c) \/ NextReceive(c) \/ NextTimeout(c)
    <2>1. /\ pc'[c] # "closing"
          /\ \A d \in Callers \ {c} : pc'[d] = pc[d] /\ target'[d] = target[d]
      BY <1>t, <1>1 DEF NextCheck, NextReceive, NextTimeout, CGo, Return, CallerTypes
    <2>2. UNCHANGED <<pooled, cancelled, cancels, wpc>>
      BY <1>1 DEF NextCheck, NextReceive, NextTimeout, request, cancelling, worker
    <2>3. QED
      BY <1>s, <2>1, <2>2, QuietCallEnd
  <1>2. CASE CommitCheck(c) \/ CommitWrite(c) \/ CommitRefused(c)
    <2>1. /\ pc'[c] # "closing"
          /\ \A d \in Callers \ {c} : pc'[d] = pc[d] /\ target'[d] = target[d]
      BY <1>t, <1>2 DEF CommitCheck, CommitWrite, CommitWriteWhen, CommitRefused, CGo, Return,
                        CallerTypes
    <2>2. UNCHANGED <<pooled, cancelled, cancels, wpc>>
      BY <1>2 DEF CommitCheck, CommitWrite, CommitWriteWhen, CommitRefused, CommitFrame,
                  request, cancelling, worker
    <2>3. QED
      BY <1>s, <2>1, <2>2, QuietCallEnd
  <1>3. CASE ChatAnswered(c) \/ ChatFailed(c)
    <2>1. /\ pc'[c] # "closing"
          /\ \A d \in Callers \ {c} : pc'[d] = pc[d] /\ target'[d] = target[d]
      BY <1>t, <1>3 DEF ChatAnswered, ChatFailed, CGo, Return, CallerTypes
    <2>2. UNCHANGED <<pooled, cancelled, cancels, wpc>>
      BY <1>3 DEF ChatAnswered, ChatFailed, SessionFrame, request, cancelling, worker
    <2>3. QED
      BY <1>s, <2>1, <2>2, QuietCallEnd
  <1>4. CASE CloseCancel(c)
    <2>1. /\ pc[c] = "closing"
          /\ cancelled' = [cancelled EXCEPT ![target[c]] = @ \/ ~terminal[target[c]]]
          /\ UNCHANGED <<pooled, cancels, wpc>>
      BY <1>4 DEF CloseCancel, request, worker
    <2>2. /\ pc'[c] # "closing"
          /\ \A d \in Callers \ {c} : pc'[d] = pc[d] /\ target'[d] = target[d]
      BY <1>t, <1>4 DEF CloseCancel, CGo, Return, CallerTypes
    <2>3. PICK s \in Streams : s = target[c] /\ wpc[s] # "none" /\ ~pooled[s]
      BY <2>1 DEF EndInv, ClosingTook
    <2>4. /\ cancelled[s] => cancelled'[s]
          /\ \A t \in Streams \ {s} : cancelled'[t] = cancelled[t]
      BY <1>t, <2>1, <2>3 DEF CancelTypes
    <2>5. EndTold(s)' /\ \A t \in Streams \ {s} : EndSame(t)
      BY <1>s, <2>1, <2>3, <2>4 DEF EndInv, EndTold, EndSame
    <2>6. ClosingTook(c)'
      BY <2>2 DEF ClosingTook
    <2>7. QED
      BY <2>1, <2>2, <2>3, <2>5, <2>6, HandleCallEnd
  <1>5. QED
    BY <1>1, <1>2, <1>3, <1>4 DEF Continues

\* A worker that leaves has told the end of its stream, a cancel thread is about
\* to, or the handle was closed (llm_ffi.rs:1315-1342, 2122-2140): whoever still
\* reads is not left waiting for an event that nobody sends.
THEOREM EndsAreTold == Spec => []NoSilentEnd
  <1>1. Init => EndInv
    BY InitEnds
  <1>2. TypeOK /\ EndInv /\ [Next]_vars => EndInv'
    <2> SUFFICES ASSUME TypeOK, EndInv, [Next]_vars PROVE EndInv'
      OBVIOUS
    <2>1. CASE UNCHANGED vars
      BY <2>1 DEF vars, request, meta, cancelling, worker, caller, EndInv, EndTold, ClosingTook
    <2>2. QED
      BY <2>1, Steps, WorkersTellEnd, SendersTellEnd, CallsTellEnd, ContinuesTellEnd
  <1>3. TypeOK /\ EndInv => NoSilentEnd
    BY DEF EndInv, EndTold, NoSilentEnd
  <1>4. QED
    BY <1>1, <1>2, <1>3, TypeCorrect, PTL DEF Spec


-----------------------------------------------------------------------------
(* The answer of a completed stream is what was streamed.                    *)

\* A delta that the worker has added to the answer and not yet queued.
UnderWay(s) ==
    \/ wpc[s] = "emit" /\ emitting[s] \in DeltaTypes
    \/ wpc[s] = "put" /\ outgoing[s].type \in DeltaTypes

Delta(s) == IF wpc[s] = "emit" THEN emitting[s] ELSE outgoing[s].type

\* Until the stream ends in another way than well, what its worker has added to
\* the answer is streamed but for the delta that is under way.
AnswerTold(s) ==
    ~terminal[s] \/ status[s] = "completed" =>
        /\ UnderWay(s) =>
              /\ Len(answer[s]) > 0 /\ answer[s][Len(answer[s])] = Delta(s)
              /\ \A n \in Nat : n + 1 = Len(answer[s]) => Streamed(s, n)
        /\ ~UnderWay(s) => \A n \in Nat : n = Len(answer[s]) => Streamed(s, n)

\* Of an ended stream only the event that ends it is still to be queued.
LastIsTerminal(s) ==
    /\ sendLock[s] # "free" /\ terminal[s] => outgoing[s].type \in TerminalTypes
    /\ sendLock[s] = "canceller" => outgoing[s].type = "cancelled"

AnswerInv == \A s \in Streams : AnswerTold(s) /\ LastIsTerminal(s)

\* Deltas end no stream.
LEMMA DeltasGoOn == \A d \in DeltaTypes : d \notin TerminalTypes /\ d # "none"
  BY DEF DeltaTypes, TerminalTypes

LEMMA AnswerStart == Init => AnswerInv
<1> SUFFICES ASSUME Init, NEW s \in Streams PROVE AnswerTold(s) /\ LastIsTerminal(s)
  BY DEF AnswerInv
<1>1. /\ wpc[s] = "none" /\ answer[s] = <<>> /\ events[s] = <<>> /\ sendLock[s] = "free"
  BY DEF Init
<1>2. Streamed(s, 0)
  <2> DEFINE at == [i \in 1..0 |-> 0]
  <2>1. at \in [1..0 -> DOMAIN events[s]]
    OBVIOUS
  <2>2. DOMAIN events[s] = {}
    BY <1>1
  <2> QED
    BY <2>1, <2>2 DEF Streamed
<1> QED
  BY <1>1, <1>2 DEF AnswerTold, LastIsTerminal, UnderWay

\* What a step must leave as it is for nothing to change, on one stream.
AnswerSame(s) ==
    /\ answer'[s] = answer[s] /\ events'[s] = events[s] /\ outgoing'[s] = outgoing[s]
    /\ sendLock'[s] = sendLock[s] /\ terminal'[s] = terminal[s] /\ status'[s] = status[s]

\* A longer answer or a longer list of events has the streamed part it had.
LEMMA StreamedGrows ==
    ASSUME NEW s, NEW n \in Nat, Streamed(s, n),
           events'[s] = events[s], \A i \in 1..n : answer'[s][i] = answer[s][i]
    PROVE  Streamed(s, n)'
<1>1. PICK at \in [1..n -> DOMAIN events[s]] :
        /\ \A i, j \in 1..n : i < j => at[i] < at[j]
        /\ \A e \in DOMAIN events[s] :
              events[s][e].type \in DeltaTypes <=> \E i \in 1..n : at[i] = e
        /\ \A i \in 1..n : answer[s][i] = events[s][at[i]].type
  BY DEF Streamed
<1>2. at \in [1..n -> DOMAIN events'[s]]
  OBVIOUS
<1>3. \A i \in 1..n : answer'[s][i] = events'[s][at[i]].type
  BY <1>1
<1> QED
  BY <1>1, <1>2, <1>3 DEF Streamed

\* An event that is queued is a delta, the next part of the answer, or none.
LEMMA StreamedOther ==
    ASSUME NEW s, NEW n \in Nat, Streamed(s, n), events[s] \in Seq(Events),
           NEW e \in Events, events'[s] = Append(events[s], e), e.type \notin DeltaTypes,
           answer'[s] = answer[s]
    PROVE  Streamed(s, n)'
<1>1. PICK at \in [1..n -> DOMAIN events[s]] :
        /\ \A i, j \in 1..n : i < j => at[i] < at[j]
        /\ \A k \in DOMAIN events[s] :
              events[s][k].type \in DeltaTypes <=> \E i \in 1..n : at[i] = k
        /\ \A i \in 1..n : answer[s][i] = events[s][at[i]].type
  BY DEF Streamed
<1>2. /\ Len(events[s]) \in Nat /\ DOMAIN events[s] = 1..Len(events[s])
      /\ DOMAIN events'[s] = 1..(Len(events[s]) + 1)
      /\ \A k \in DOMAIN events[s] : events'[s][k] = events[s][k]
      /\ events'[s][Len(events[s]) + 1] = e
  OBVIOUS
<1>3. at \in [1..n -> DOMAIN events'[s]]
  BY <1>2
<1>4. \A k \in DOMAIN events'[s] :
        events'[s][k].type \in DeltaTypes <=> \E i \in 1..n : at[i] = k
  <2> TAKE k \in DOMAIN events'[s]
  <2>1. CASE k \in DOMAIN events[s]
    BY <1>1, <1>2, <2>1
  <2>2. CASE k = Len(events[s]) + 1
    <3>1. \A i \in 1..n : at[i] # k
      BY <1>2, <2>2
    <3> QED
      BY <1>2, <2>2, <3>1
  <2> QED
    BY <1>2, <2>1, <2>2
<1>5. \A i \in 1..n : answer'[s][i] = events'[s][at[i]].type
  BY <1>1, <1>2
<1> QED
  BY <1>1, <1>3, <1>4, <1>5 DEF Streamed

LEMMA StreamedDelta ==
    ASSUME NEW s, NEW n \in Nat, Streamed(s, n), events[s] \in Seq(Events),
           NEW e \in Events, events'[s] = Append(events[s], e), e.type \in DeltaTypes,
           answer'[s] = answer[s], answer[s][n + 1] = e.type
    PROVE  Streamed(s, n + 1)'
<1>1. PICK at \in [1..n -> DOMAIN events[s]] :
        /\ \A i, j \in 1..n : i < j => at[i] < at[j]
        /\ \A k \in DOMAIN events[s] :
              events[s][k].type \in DeltaTypes <=> \E i \in 1..n : at[i] = k
        /\ \A i \in 1..n : answer[s][i] = events[s][at[i]].type
  BY DEF Streamed
<1>2. PICK last \in Nat :
        /\ last = Len(events[s]) + 1 /\ DOMAIN events[s] = 1..(last - 1)
        /\ DOMAIN events'[s] = 1..last
        /\ \A k \in DOMAIN events[s] : events'[s][k] = events[s][k]
        /\ events'[s][last] = e
  OBVIOUS
<1>3. PICK to : to = [i \in 1..(n + 1) |-> IF i = n + 1 THEN last ELSE at[i]]
  OBVIOUS
<1>4. to[n + 1] = last /\ \A i \in 1..n : to[i] = at[i] /\ to[i] \in 1..(last - 1)
  BY <1>2, <1>3
<1>5. to \in [1..(n + 1) -> DOMAIN events'[s]]
  BY <1>2, <1>3
<1>m. \A i \in 1..(n + 1) : i = n + 1 \/ i \in 1..n
  OBVIOUS
<1>6. \A i, j \in 1..(n + 1) : i < j => to[i] < to[j]
  <2> TAKE i, j \in 1..(n + 1)
  <2> HAVE i < j
  <2>1. i \in 1..n
    BY <1>m
  <2>2. CASE j = n + 1
    BY <1>2, <1>4, <2>1, <2>2
  <2>3. CASE j \in 1..n
    BY <1>1, <1>4, <2>1, <2>3
  <2> QED
    BY <1>m, <2>2, <2>3
<1>7. \A k \in DOMAIN events'[s] :
        events'[s][k].type \in DeltaTypes <=> \E i \in 1..(n + 1) : to[i] = k
  <2> TAKE k \in DOMAIN events'[s]
  <2>1. CASE k \in 1..(last - 1)
    <3>1. events'[s][k].type \in DeltaTypes <=> \E i \in 1..n : at[i] = k
      BY <1>1, <1>2, <2>1
    <3>2. to[n + 1] # k
      BY <1>4, <2>1
    <3>3. \A i \in 1..(n + 1) : i = n + 1 \/ i \in 1..n
      OBVIOUS
    <3>4. \A i \in 1..n : i \in 1..(n + 1)
      OBVIOUS
    <3> QED
      BY <1>4, <3>1, <3>2, <3>3, <3>4
  <2>2. CASE k = last
    BY <1>2, <1>4, <2>2
  <2> QED
    BY <1>2, <2>1, <2>2
<1>8. \A i \in 1..(n + 1) : answer'[s][i] = events'[s][to[i]].type
  <2> TAKE i \in 1..(n + 1)
  <2>1. CASE i = n + 1
    BY <1>2, <1>4, <2>1
  <2>2. CASE i \in 1..n
    BY <1>1, <1>2, <1>4, <2>2
  <2> QED
    BY <1>m, <2>1, <2>2
<1> QED
  BY <1>5, <1>6, <1>7, <1>8 DEF Streamed

\* An answer is a sequence.
LEMMA AnswerLength ==
    ASSUME MetaTypes, NEW s \in Streams
    PROVE  answer[s] \in Seq(DeltaTypes) /\ Len(answer[s]) \in Nat
<1>1. answer[s] \in Seq(DeltaTypes)
  BY DEF MetaTypes
<1> QED
  BY <1>1

\* A step that leaves a stream alone, or moves its worker without a delta.
LEMMA AnswerKept ==
    ASSUME MetaTypes, NEW s \in Streams, AnswerTold(s), LastIsTerminal(s), AnswerSame(s),
           UnderWay(s)' <=> UnderWay(s), UnderWay(s) => Delta(s)' = Delta(s)
    PROVE  AnswerTold(s)' /\ LastIsTerminal(s)'
<1>1. Len(answer[s]) \in Nat
  BY AnswerLength
<1>2. \A n \in Nat : Streamed(s, n) => Streamed(s, n)'
  BY StreamedGrows DEF AnswerSame
<1>3. LastIsTerminal(s)'
  BY DEF LastIsTerminal, AnswerSame
<1>4. AnswerTold(s)'
  BY <1>2 DEF AnswerTold, AnswerSame
<1> QED
  BY <1>3, <1>4

-----------------------------------------------------------------------------
\* The worker adds a delta to the answer.
LEMMA DeltaAdded ==
    ASSUME TypeOK, NEW s \in Streams, AnswerTold(s), LastIsTerminal(s), WorkerDelta(s)
    PROVE  AnswerTold(s)' /\ LastIsTerminal(s)'
<1>t. MetaTypes /\ WorkerTypes
  BY DEF TypeOK
<1>1. PICK d \in DeltaTypes :
        /\ wpc[s] = "frames" /\ answer' = [answer EXCEPT ![s] = Append(@, d)]
        /\ Emit(s, d, "frames")
        /\ UNCHANGED <<status, terminal, sendLock, outgoing, events>>
  BY DEF WorkerDelta, WorkerFrame, channel
<1>2. wpc'[s] = "emit" /\ emitting'[s] = d
  BY <1>t, <1>1 DEF Emit, WGo, WorkerTypes
<1>3. answer[s] \in Seq(DeltaTypes) /\ Len(answer[s]) \in Nat
  BY <1>t, AnswerLength
<1>4. answer'[s] = Append(answer[s], d)
  BY <1>t, <1>1 DEF MetaTypes
<1>5. /\ Len(answer'[s]) = Len(answer[s]) + 1 /\ answer'[s][Len(answer[s]) + 1] = d
      /\ \A i \in 1..Len(answer[s]) : answer'[s][i] = answer[s][i]
  BY <1>3, <1>4
<1>6. ~UnderWay(s)
  BY <1>1 DEF UnderWay
<1>7. ASSUME ~terminal[s] \/ status[s] = "completed", NEW n \in Nat, n = Len(answer[s])
      PROVE  Streamed(s, n)'
  <2>1. Streamed(s, n)
    BY <1>6, <1>7 DEF AnswerTold
  <2>2. events'[s] = events[s] /\ \A i \in 1..n : answer'[s][i] = answer[s][i]
    BY <1>1, <1>5, <1>7
  <2> QED
    BY <2>1, <2>2, StreamedGrows
<1>8. LastIsTerminal(s)'
  BY <1>1 DEF LastIsTerminal
<1>9. UnderWay(s)' /\ Delta(s)' = d
  BY <1>2 DEF UnderWay, Delta
<1>10. Len(answer'[s]) > 0 /\ Len(answer'[s]) - 1 = Len(answer[s])
       /\ answer'[s][Len(answer'[s])] = d
  BY <1>3, <1>5
<1> QED
  BY <1>1, <1>5, <1>7, <1>8, <1>9, <1>10 DEF AnswerTold

\* The worker's other moves: to where it has nothing to say, or to an event that
\* is no delta.
LEMMA MovedAnswer ==
    ASSUME MetaTypes, WorkerTypes, NEW s \in Streams, AnswerTold(s), LastIsTerminal(s),
           wpc[s] \notin {"emit", "put"}, AnswerSame(s),
           wpc'[s] = "emit" => emitting'[s] \notin DeltaTypes, wpc'[s] # "put"
    PROVE  AnswerTold(s)' /\ LastIsTerminal(s)'
<1>1. ~UnderWay(s) /\ ~UnderWay(s)'
  BY DEF UnderWay
<1> QED
  BY <1>1, AnswerKept

LEMMA WorkersKeepAnswer ==
    ASSUME TypeOK, NEW s \in Streams, AnswerTold(s), LastIsTerminal(s),
           \/ WorkerAnswered(s) \/ WorkerFailed(s) \/ WorkerRead(s) \/ WorkerTop(s)
           \/ WorkerUsage(s) \/ WorkerFinish(s) \/ WorkerDone(s)
           \/ WorkerComplete(s) \/ WorkerBadFrame(s) \/ WorkerDrained(s)
    PROVE  AnswerTold(s)' /\ LastIsTerminal(s)'
<1>t. MetaTypes /\ WorkerTypes
  BY DEF TypeOK
<1>1. AnswerSame(s) /\ wpc[s] \notin {"emit", "put"}
  BY DEF WorkerAnswered, WorkerFailed, WorkerRead, WorkerTop, WorkerUsage, WorkerFinish,
         WorkerDone, WorkerComplete, WorkerBadFrame, WorkerDrained, WorkerFrame, AnswerSame,
         meta, channel
<1>d. \A d \in {"response.started", "error", "usage", "response.completed"} : d \notin DeltaTypes
  BY DEF DeltaTypes
<1>g. ASSUME NEW p, WGo(s, p) PROVE wpc'[s] = p
  BY <1>t, <1>g DEF WGo, WorkerTypes
<1>e. ASSUME NEW type, NEW p, Emit(s, type, p) PROVE wpc'[s] = "emit" /\ emitting'[s] = type
  BY <1>t, <1>e DEF Emit, WGo, WorkerTypes
<1>2. wpc'[s] # "put" /\ (wpc'[s] = "emit" => emitting'[s] \notin DeltaTypes)
  <2>1. CASE WorkerAnswered(s) \/ WorkerFailed(s)
    BY <2>1, <1>d, <1>g, <1>e DEF WorkerAnswered, WorkerFailed, UnlessCancelled
  <2>2. CASE WorkerRead(s) \/ WorkerTop(s) \/ WorkerDrained(s)
    BY <2>2, <1>g DEF WorkerRead, WorkerTop, WorkerDrained
  <2>3. CASE WorkerUsage(s) \/ WorkerDone(s) \/ WorkerComplete(s) \/ WorkerBadFrame(s)
    BY <2>3, <1>d, <1>e DEF WorkerUsage, WorkerDone, WorkerComplete, WorkerBadFrame
  <2>4. CASE WorkerFinish(s)
    BY <2>4 DEF WorkerFinish
  <2> QED
    BY <2>1, <2>2, <2>3, <2>4
<1> QED
  BY <1>t, <1>1, <1>2, MovedAnswer

\* send_event: the delta goes from the worker's hands to those of the sender.
LEMMA SendKeepsAnswer ==
    ASSUME TypeOK, NEW s \in Streams, AnswerTold(s), LastIsTerminal(s), CompletedIsOver(s),
           WorkerSend(s)
    PROVE  AnswerTold(s)' /\ LastIsTerminal(s)'
<1>t. MetaTypes /\ WorkerTypes /\ ChannelTypes
  BY DEF TypeOK
<1>1. /\ wpc[s] = "emit" /\ SendEvent(s, emitting[s], "worker")
      /\ wpc' = [wpc EXCEPT ![s] = IF terminal[s] THEN after[s] ELSE "put"]
      /\ UNCHANGED <<answer, events, emitting>>
  BY DEF WorkerSend, WGo, SendEvent
<1>2. status[s] # "completed" /\ after[s] \notin {"emit", "put"} /\ sendLock[s] = "free"
  BY <1>t, <1>1 DEF CompletedIsOver, WorkerTypes, SendEvent, Unlocked
<1>3. CASE terminal[s]
  <2>1. UNCHANGED <<outgoing, sendLock, terminal, status>>
    BY <1>1, <1>3 DEF SendEvent
  <2> QED
    BY <1>2, <1>3, <2>1 DEF AnswerTold, LastIsTerminal
<1>4. CASE ~terminal[s]
  <2>b. Build(s, emitting[s], "worker")
    BY <1>1, <1>4 DEF SendEvent
  <2>1. /\ wpc'[s] = "put" /\ outgoing'[s].type = emitting[s] /\ sendLock'[s] = "worker"
        /\ terminal'[s] <=> emitting[s] \in TerminalTypes
    <3>1. wpc'[s] = "put"
      BY <1>t, <1>1, <1>4 DEF WorkerTypes
    <3>2. outgoing'[s].type = emitting[s] /\ sendLock'[s] = "worker"
      BY <1>t, <2>b DEF Build, ChannelTypes
    <3>3. terminal'[s] <=> emitting[s] \in TerminalTypes
      BY <1>t, <2>b DEF Build, MetaTypes
    <3> QED
      BY <3>1, <3>2, <3>3
  <2>2. LastIsTerminal(s)'
    BY <2>1 DEF LastIsTerminal
  <2>3. (UnderWay(s)' <=> UnderWay(s)) /\ Delta(s)' = Delta(s)
    BY <1>1, <2>1 DEF UnderWay, Delta
  <2>4. \A n \in Nat : Streamed(s, n) => Streamed(s, n)'
    BY <1>1, StreamedGrows
  <2>5. AnswerTold(s)'
    BY <1>1, <1>4, <2>3, <2>4 DEF AnswerTold
  <2> QED
    BY <2>2, <2>5
<1> QED
  BY <1>3, <1>4

\* The queue takes the event, and with a delta the next part of the answer.
LEMMA PutKeepsAnswer ==
    ASSUME TypeOK, NEW s \in Streams, AnswerTold(s), LastIsTerminal(s), EventsOf(s),
           WorkerPut(s)
    PROVE  AnswerTold(s)' /\ LastIsTerminal(s)'
<1>t. MetaTypes /\ WorkerTypes /\ ChannelTypes
  BY DEF TypeOK
<1>1. /\ wpc[s] = "put" /\ wpc' = [wpc EXCEPT ![s] = after[s]] /\ Put(s)
      /\ UNCHANGED <<answer, status, terminal, emitting>>
  BY DEF WorkerPut, WGo, meta
<1>2. /\ sendLock'[s] = "free" /\ events'[s] = Append(events[s], outgoing[s])
      /\ events[s] \in Seq(Events) /\ wpc'[s] \notin {"emit", "put"}
  BY <1>t, <1>1 DEF Put, ChannelTypes, WorkerTypes
<1>3. outgoing[s] \in Events
  BY <1>1 DEF EventsOf, Sending
<1>4. LastIsTerminal(s)'
  BY <1>2 DEF LastIsTerminal
<1>5. ~UnderWay(s)'
  BY <1>2 DEF UnderWay
<1>6. Len(answer[s]) \in Nat
  BY <1>t, AnswerLength
<1>7. ASSUME ~terminal[s] \/ status[s] = "completed" PROVE Streamed(s, Len(answer[s]))'
  <2>1. PICK n \in Nat : n = Len(answer[s])
    BY <1>6
  <2>2. CASE outgoing[s].type \in DeltaTypes
    <3>1. UnderWay(s) /\ Delta(s) = outgoing[s].type
      BY <1>1, <2>2 DEF UnderWay, Delta
    <3>2. PICK m \in Nat : m + 1 = n
      <4>1. n > 0
        BY <1>7, <2>1, <3>1 DEF AnswerTold
      <4> QED
        BY <4>1
    <3>4. Streamed(s, m) /\ answer[s][m + 1] = outgoing[s].type
      BY <1>7, <2>1, <3>1, <3>2 DEF AnswerTold
    <3>5. Streamed(s, m + 1)'
      BY <1>1, <1>2, <1>3, <2>2, <3>4, StreamedDelta
    <3> QED
      BY <1>1, <2>1, <3>2, <3>5
  <2>3. CASE outgoing[s].type \notin DeltaTypes
    <3>1. ~UnderWay(s)
      BY <1>1, <2>3 DEF UnderWay
    <3>2. Streamed(s, n)
      BY <1>7, <2>1, <3>1 DEF AnswerTold
    <3>3. Streamed(s, n)'
      BY <1>1, <1>2, <1>3, <2>3, <3>2, StreamedOther
    <3> QED
      BY <1>1, <2>1, <3>3
  <2> QED
    BY <2>2, <2>3
<1>8. AnswerTold(s)'
  BY <1>1, <1>5, <1>6, <1>7 DEF AnswerTold
<1> QED
  BY <1>4, <1>8

\* A cancel thread ends the stream in another way, or finds it ended.
LEMMA CancelsKeepAnswer ==
    ASSUME TypeOK, NEW s \in Streams, AnswerTold(s), LastIsTerminal(s), EventsOf(s),
           CancelThreadSend(s) \/ CancelThreadPut(s)
    PROVE  AnswerTold(s)' /\ LastIsTerminal(s)'
<1>t. MetaTypes /\ WorkerTypes /\ ChannelTypes
  BY DEF TypeOK
<1>1. CASE CancelThreadSend(s)
  <2>1. SendEvent(s, "cancelled", "canceller") /\ UNCHANGED <<answer, events, wpc, emitting>>
    BY <1>1 DEF CancelThreadSend, SendEvent, worker
  <2>2. CASE terminal[s]
    <3>1. AnswerSame(s)
      BY <2>1, <2>2 DEF SendEvent, AnswerSame
    <3>2. (UnderWay(s)' <=> UnderWay(s)) /\ Delta(s)' = Delta(s)
      BY <2>1, <3>1 DEF UnderWay, Delta, AnswerSame
    <3> QED
      BY <1>t, <3>1, <3>2, AnswerKept
  <2>3. CASE ~terminal[s]
    <3>b. Build(s, "cancelled", "canceller")
      BY <2>1, <2>3 DEF SendEvent
    <3>1. terminal'[s] /\ status'[s] = "cancelled"
      BY <1>t, <3>b DEF Build, StatusAfter, TerminalTypes, MetaTypes
    <3>3. outgoing'[s].type = "cancelled"
      BY <1>t, <3>b DEF Build, ChannelTypes
    <3>2. "cancelled" \in TerminalTypes
      BY DEF TerminalTypes
    <3> QED
      BY <3>1, <3>2, <3>3 DEF AnswerTold, LastIsTerminal
  <2> QED
    BY <2>2, <2>3
<1>2. CASE CancelThreadPut(s)
  <2>1. sendLock[s] = "canceller" /\ Put(s) /\ UNCHANGED <<answer, terminal, status>>
    BY <1>2 DEF CancelThreadPut, meta
  <2>2. sendLock'[s] = "free"
    BY <1>t, <2>1 DEF Put, ChannelTypes
  <2>3. outgoing[s].type = "cancelled" /\ "cancelled" \in TerminalTypes
    BY <2>1 DEF LastIsTerminal, TerminalTypes
  <2>4. terminal[s] /\ status[s] = StatusAfter("cancelled")
    BY <2>1, <2>3 DEF EventsOf, TerminalKnown
  <2>5. terminal[s] /\ status[s] = "cancelled"
    BY <2>4 DEF StatusAfter
  <2> QED
    BY <2>1, <2>2, <2>5 DEF AnswerTold, LastIsTerminal
<1> QED
  BY <1>1, <1>2

\* What a sender on one stream does to another.
LEMMA OthersKeepAnswer ==
    ASSUME TypeOK, NEW s \in Streams, NEW t \in Streams \ {s}, AnswerTold(t), LastIsTerminal(t),
           \/ WorkerSend(s) \/ WorkerPut(s) \/ CancelThreadSend(s) \/ CancelThreadPut(s)
    PROVE  AnswerTold(t)' /\ LastIsTerminal(t)'
<1>t. MetaTypes /\ WorkerTypes
  BY DEF TypeOK
<1>1. EventsSame(t)
  BY OthersKeepEvents
<1>2. UNCHANGED <<answer, emitting>> /\ wpc'[t] = wpc[t]
  BY <1>t DEF WorkerSend, WorkerPut, CancelThreadSend, CancelThreadPut, SendEvent, meta, worker,
              WGo, WorkerTypes
<1>3. AnswerSame(t)
  BY <1>1, <1>2 DEF EventsSame, AnswerSame
<1>4. (UnderWay(t)' <=> UnderWay(t)) /\ Delta(t)' = Delta(t)
  BY <1>2, <1>3 DEF UnderWay, Delta, AnswerSame
<1> QED
  BY <1>t, <1>3, <1>4, AnswerKept

LEMMA AnswerStep ==
    ASSUME TypeOK, \A s \in Streams : EventsOf(s), \A s \in Streams : CompletedIsOver(s),
           AnswerInv, [Next]_vars
    PROVE  AnswerInv'
<1> SUFFICES ASSUME NEW t \in Streams PROVE AnswerTold(t)' /\ LastIsTerminal(t)'
  BY DEF AnswerInv
<1>t. MetaTypes /\ WorkerTypes
  BY DEF TypeOK
<1>i. AnswerTold(t) /\ LastIsTerminal(t) /\ EventsOf(t) /\ CompletedIsOver(t)
  BY DEF AnswerInv
<1>1. ASSUME NEW s \in Streams,
             \/ WorkerAnswered(s) \/ WorkerFailed(s) \/ WorkerRead(s)
             \/ WorkerTop(s) \/ WorkerDelta(s) \/ WorkerUsage(s)
             \/ WorkerFinish(s) \/ WorkerDone(s) \/ WorkerComplete(s)
             \/ WorkerBadFrame(s) \/ WorkerDrained(s)
      PROVE  AnswerTold(t)' /\ LastIsTerminal(t)'
  <2>1. CASE t = s
    BY <1>1, <1>i, <2>1, DeltaAdded, WorkersKeepAnswer
  <2>2. CASE t # s
    <3>1. WorkerMoved(s)
      BY <1>1, WorkerMovesOn
    <3>2. answer'[t] = answer[t]
      BY <1>t, <1>1, <2>2 DEF WorkerAnswered, WorkerFailed, WorkerRead, WorkerTop, WorkerDelta,
           WorkerUsage, WorkerFinish, WorkerDone, WorkerComplete, WorkerBadFrame,
           WorkerDrained, meta, MetaTypes
    <3>3. AnswerSame(t)
      BY <3>1, <3>2 DEF WorkerMoved, WorkerFrame, channel, AnswerSame
    <3>4. (UnderWay(t)' <=> UnderWay(t)) /\ Delta(t)' = Delta(t)
      BY <2>2, <3>1, <3>3 DEF WorkerMoved, UnderWay, Delta, AnswerSame
    <3> QED
      BY <1>t, <1>i, <3>3, <3>4, AnswerKept
  <2> QED
    BY <2>1, <2>2
<1>2. ASSUME NEW s \in Streams,
             \/ WorkerSend(s) \/ WorkerPut(s) \/ CancelThreadSend(s) \/ CancelThreadPut(s)
      PROVE  AnswerTold(t)' /\ LastIsTerminal(t)'
  <2>1. CASE t = s
    BY <1>2, <1>i, <2>1, SendKeepsAnswer, PutKeepsAnswer, CancelsKeepAnswer
  <2>2. CASE t # s
    BY <1>2, <1>i, <2>2, OthersKeepAnswer
  <2> QED
    BY <2>1, <2>2
<1>3. ASSUME NEW c \in Callers, Calls(c) \/ Continues(c)
      PROVE  AnswerTold(t)' /\ LastIsTerminal(t)'
  <2>1. AnswerSame(t) /\ UNCHANGED emitting
    BY <1>3, CallsSendNothing DEF AnswerSame
  <2>2. wpc'[t] = wpc[t] \/ (wpc[t] = "none" /\ wpc'[t] = "request")
    <3>1. CASE Open(c)
      BY <1>t, <3>1 DEF Open, WGo, WorkerTypes
    <3>2. CASE ~Open(c)
      BY <1>3, <3>2, CallsSendNothing
    <3> QED
      BY <3>1, <3>2
  <2>3. (UnderWay(t)' <=> UnderWay(t)) /\ (UnderWay(t) => Delta(t)' = Delta(t))
    BY <2>1, <2>2 DEF UnderWay, Delta, AnswerSame
  <2> QED
    BY <1>t, <1>i, <2>1, <2>3, AnswerKept
<1>4. CASE UNCHANGED vars
  <2>1. AnswerSame(t) /\ UNCHANGED <<wpc, emitting>>
    BY <1>4 DEF vars, meta, channel, worker, AnswerSame
  <2>2. (UnderWay(t)' <=> UnderWay(t)) /\ Delta(t)' = Delta(t)
    BY <2>1 DEF UnderWay, Delta, AnswerSame
  <2> QED
    BY <1>t, <1>i, <2>1, <2>2, AnswerKept
<1> QED
  BY <1>1, <1>2, <1>3, <1>4, Steps

\* A stream that is completed, and so may be committed, has streamed every part of
\* its answer and no other, in order, whoever cancels it meanwhile
\* (llm_ffi.rs:1261-1313: a delta is accumulated and announced in two steps).
THEOREM AnswersAreStreamed == Spec => []AnswerIsStreamed
<1>1. EventInv /\ CommitInv /\ AnswerInv /\ [Next]_vars => AnswerInv'
  BY AnswerStep, EventParts DEF CommitInv
<1>2. EventInv /\ CommitInv /\ AnswerInv => AnswerIsStreamed
  <2> SUFFICES ASSUME EventInv, CommitInv, AnswerInv, NEW s \in Streams, status[s] = "completed"
               PROVE  Streamed(s, Len(answer[s]))
    BY DEF AnswerIsStreamed
  <2>1. /\ terminal[s] /\ wpc[s] \in {"put", "exit"} /\ AnswerTold(s) /\ LastIsTerminal(s)
        /\ EventsOf(s) /\ MetaTypes
    BY EventParts DEF CommitInv, CompletedIsOver, AnswerInv, TypeOK
  <2>2. ~UnderWay(s)
    BY <2>1, DeltasGoOn DEF UnderWay, LastIsTerminal, EventsOf, Sending
  <2>3. Len(answer[s]) \in Nat
    BY <2>1, AnswerLength
  <2> QED
    BY <2>1, <2>2, <2>3 DEF AnswerTold
<1> QED
  BY <1>1, <1>2, AnswerStart, Invariant, PTL DEF Spec
=============================================================================
