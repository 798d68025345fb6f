----------------------------- MODULE HttpStreams -----------------------------
(* src/src/io/http_stream_ffi.rs: the body of a response, read by a thread   *)
(* and handed out in pieces of whole characters.                             *)
(*                                                                           *)
(* A body is the bytes 1..n with the places where characters end; one byte   *)
(* may be invalid.  Chunks are intervals, so a chunk is known by its last    *)
(* byte.  The socket is external.  One thread reads at a time: two that do   *)
(* would each take a part of a character from the other.                     *)
EXTENDS Callers, Integers, Sequences, FiniteSetsExt

CONSTANTS
    ChunkRoom,      \* CHANNEL_CAP in the code
    BodyLength      \* bound: bytes of a body

ASSUME StreamAssumption == ChunkRoom \in Nat \ {0} /\ BodyLength \in Nat

Bytes == 1..BodyLength

VARIABLES
    hstEnds,        \* where the characters of the body end
    hstBad,         \* its invalid byte, 0 for none
    hstOpen,        \* the handle is in the pool
    hstCancelled,
    hstReader,      \* the thread: position
    hstRead,        \* bytes it has read
    hstQueue,       \* chunks by their last byte, 0 for an error
    hstReceived,    \* bytes received from the queue
    hstGiven,       \* the last byte handed out
    hstPartial,     \* partial_char: bytes kept
    hstFinished,
    hstState,       \* last_state: "data", "timeout", "end" or "error"
    hstError,       \* an error was recorded
    hstThread       \* of each thread: position, the chunk in its hands

hstVars == <<hstEnds, hstBad, hstOpen, hstCancelled, hstReader, hstRead, hstQueue,
             hstReceived, hstGiven, hstPartial, hstFinished, hstState, hstError,
             hstThread>>
hstBody == <<hstEnds, hstBad>>
hstSource == <<hstReader, hstRead>>
hstText == <<hstGiven, hstPartial>>
hstTold == <<hstFinished, hstState, hstError>>

HstInit ==
    /\ hstEnds \in SUBSET Bytes /\ hstBad \in 0..BodyLength
    /\ hstOpen = TRUE /\ hstCancelled = FALSE
    /\ hstReader = "top" /\ hstRead = 0 /\ hstQueue = <<>>
    /\ hstReceived = 0 /\ hstGiven = 0 /\ hstPartial = 0
    /\ hstFinished = FALSE /\ hstState = "data" /\ hstError = FALSE
    /\ hstThread = [t \in Threads |-> [at |-> "idle", from |-> 1, to |-> 0]]

HstAt(t, p) == hstThread[t].at = p

HstGo(t, p) == hstThread' = [hstThread EXCEPT ![t].at = p]

\* The stream, and with it the receiving end of the queue, lives as long as
\* the pool or a call has it.
Lives == hstOpen \/ \E t \in Threads : hstThread[t].at \in {"receive", "decode", "leftover"}

-----------------------------------------------------------------------------
(* The reading thread.                                                       *)
HstTop ==
    /\ hstReader = "top"
    /\ hstReader' = IF hstCancelled THEN "over" ELSE "read"
    /\ UNCHANGED <<hstBody, hstOpen, hstCancelled, hstRead, hstQueue, hstReceived,
                   hstText, hstTold, hstThread>>

\* Some bytes, the end of the body, or an error.
HstReads ==
    /\ hstReader = "read"
    /\ \/ /\ hstRead' \in (hstRead + 1)..BodyLength /\ hstReader' = "send"
       \/ hstRead = BodyLength /\ hstReader' = "over" /\ UNCHANGED hstRead
       \/ hstReader' = "send error" /\ UNCHANGED hstRead
    /\ UNCHANGED <<hstBody, hstOpen, hstCancelled, hstQueue, hstReceived, hstText,
                   hstTold, hstThread>>

\* It waits for room, unless nobody can receive any more.
HstSends ==
    /\ hstReader \in {"send", "send error"}
    /\ \/ /\ Lives /\ Len(hstQueue) < ChunkRoom
          /\ hstQueue' = Append(hstQueue, IF hstReader = "send" THEN hstRead ELSE 0)
          /\ hstReader' = IF hstReader = "send" THEN "top" ELSE "over"
       \/ ~Lives /\ hstReader' = "over" /\ UNCHANGED hstQueue
    /\ UNCHANGED <<hstBody, hstOpen, hstCancelled, hstRead, hstReceived, hstText,
                   hstTold, hstThread>>

-----------------------------------------------------------------------------
(* qi_http_stream_read with recv_chunk.                                      *)
HstCall(t) ==
    /\ HstAt(t, "idle") /\ hstOpen
    /\ \A u \in Threads : HstAt(u, "idle")
    /\ HstGo(t, "receive")
    /\ UNCHANGED <<hstBody, hstOpen, hstCancelled, hstSource, hstQueue, hstReceived,
                   hstText, hstTold>>

HstReceive(t) ==
    /\ HstAt(t, "receive") /\ ~hstFinished /\ hstQueue # <<>>
    /\ hstQueue' = Tail(hstQueue)
    /\ IF Head(hstQueue) = 0
       THEN /\ hstState' = "error" /\ hstError' = TRUE
            /\ HstGo(t, "idle") /\ UNCHANGED hstReceived
       ELSE /\ hstReceived' = Head(hstQueue)
            /\ hstThread' = [hstThread EXCEPT ![t] =
                   [at |-> "decode", from |-> hstReceived + 1, to |-> Head(hstQueue)]]
            /\ UNCHANGED <<hstState, hstError>>
    /\ UNCHANGED <<hstBody, hstOpen, hstCancelled, hstSource, hstText, hstFinished>>

HstTimesOut(t) ==
    /\ HstAt(t, "receive") /\ ~hstFinished /\ hstQueue = <<>>
    /\ hstState' = "timeout"
    /\ HstGo(t, "idle")
    /\ UNCHANGED <<hstBody, hstOpen, hstCancelled, hstSource, hstQueue, hstReceived,
                   hstText, hstFinished, hstError>>

\* The queue is empty and its sender is gone.
HstEnd(t) ==
    /\ HstAt(t, "receive")
    /\ hstFinished \/ (hstQueue = <<>> /\ hstReader = "over")
    /\ hstFinished' = TRUE /\ hstState' = "end"
    /\ HstGo(t, "leftover")
    /\ UNCHANGED <<hstBody, hstOpen, hstCancelled, hstSource, hstQueue, hstReceived,
                   hstText, hstError>>

\* Bytes kept at the end make no character: an error.
HstLeftover(t) ==
    /\ HstAt(t, "leftover")
    /\ IF hstPartial > 0
       THEN hstPartial' = 0 /\ hstState' = "error" /\ hstError' = TRUE
       ELSE UNCHANGED <<hstPartial, hstState, hstError>>
    /\ HstGo(t, "idle")
    /\ UNCHANGED <<hstBody, hstOpen, hstCancelled, hstSource, hstQueue, hstReceived,
                   hstGiven, hstFinished>>

\* The kept bytes and the chunk up to its last whole character are handed out,
\* the rest is kept; an invalid byte spoils them all.
HstDecode(t) ==
    LET last == hstThread[t].to
        first == hstThread[t].from - hstPartial
        whole == Max({first - 1} \cup ((first..last) \cap hstEnds))
    IN  /\ HstAt(t, "decode")
        /\ IF hstBad \in first..last
           THEN /\ hstPartial' = 0 /\ hstState' = "error" /\ hstError' = TRUE
                /\ UNCHANGED hstGiven
           ELSE /\ hstGiven' = IF whole < first THEN hstGiven ELSE whole
                /\ hstPartial' = last - whole
                /\ hstState' = "data" /\ UNCHANGED hstError
        /\ HstGo(t, "idle")
        /\ UNCHANGED <<hstBody, hstOpen, hstCancelled, hstSource, hstQueue,
                       hstReceived, hstFinished>>

\* close: the handle goes, then the thread is told.
HstClose(t) ==
    /\ \/ HstAt(t, "idle") /\ hstOpen /\ hstOpen' = FALSE /\ HstGo(t, "cancel")
          /\ UNCHANGED hstCancelled
       \/ HstAt(t, "cancel") /\ hstCancelled' = TRUE /\ HstGo(t, "idle")
          /\ UNCHANGED hstOpen
    /\ UNCHANGED <<hstBody, hstSource, hstQueue, hstReceived, hstText, hstTold>>

-----------------------------------------------------------------------------
HstNext ==
    \/ HstTop \/ HstReads \/ HstSends
    \/ \E t \in Threads :
          \/ HstCall(t) \/ HstReceive(t) \/ HstTimesOut(t) \/ HstEnd(t)
          \/ HstLeftover(t) \/ HstDecode(t) \/ HstClose(t)

-----------------------------------------------------------------------------
HstTypes ==
    /\ hstEnds \subseteq Bytes /\ hstBad \in 0..BodyLength
    /\ hstOpen \in BOOLEAN /\ hstCancelled \in BOOLEAN
    /\ hstReader \in {"top", "read", "send", "send error", "over"}
    /\ hstRead \in 0..BodyLength /\ hstReceived \in 0..hstRead
    /\ hstQueue \in Seq(0..BodyLength) /\ Len(hstQueue) <= ChunkRoom
    /\ hstGiven \in 0..hstReceived /\ hstPartial \in 0..hstReceived
    /\ hstFinished \in BOOLEAN /\ hstError \in BOOLEAN
    /\ hstState \in {"data", "timeout", "end", "error"}
    /\ \A t \in Threads : hstThread[t].at \in
           {"idle", "receive", "decode", "leftover", "cancel"}

\* "The incomplete character at the end stays for the next read" and "bytes that
\* make no character must be reported: who loses them in silence gets a text
\* without its tail" (http_stream_ffi.rs:331, 341): what was handed out and what
\* is kept is the body so far, and an end without an error is the end of all.
TextIsBody ==
    ~hstError /\ (\A t \in Threads : ~HstAt(t, "decode")) =>
        /\ hstGiven + hstPartial = hstReceived
        /\ hstGiven > 0 => hstGiven \in hstEnds
        /\ hstState = "end" /\ (\A t \in Threads : ~HstAt(t, "leftover"))
              => hstGiven = hstRead /\ (hstCancelled \/ hstRead = BodyLength)
=============================================================================
