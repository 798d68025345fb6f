------------------------------ MODULE WebSockets ------------------------------
(* src/src/io/websocket_ffi.rs and tls_client.rs: one connection in the pool.  *)
(* One thread of the program reads from it, others send, close or take it out  *)
(* of the pool; the peer sends text in one frame or in two, and pings between. *)
(*                                                                            *)
(* A frame is its header and its payload, which need not arrive together.      *)
EXTENDS Callers, Integers, Sequences

CONSTANTS
    SocketRoom,     \* halves of frames the socket holds
    WsMessages      \* bound: texts and pings of the peer

ASSUME WebSocketsAssumption == SocketRoom \in Nat \ {0} /\ WsMessages \in Nat

VARIABLES
    wsTls,          \* 传输::加密
    wsPool,         \* the handle is in the pool
    wsUp,           \* is_connected
    wsCut,          \* the socket was shut down
    wsSendLock,     \* send_lock: None or who has it
    wsConnLock,     \* TLS客户流.conn
    wsAhead,        \* 预读
    wsPipe,         \* the halves of frames that wait in the socket
    wsPeer,         \* texts begun, parts of the last one, pings, the half that
                    \*   is still to come, whether it has gone
    wsThread,       \* of each thread: position, whether its read has a time
                    \*   limit, what it writes, the header it read, the
                    \*   parts it has collected, whether it is collecting
    wsTexts,        \* what reads returned
    wsMissed        \* texts of which a part was collected when the time was up

wsLocks == <<wsSendLock, wsConnLock>>
wsWire == <<wsAhead, wsPipe, wsPeer>>
wsFlags == <<wsPool, wsUp, wsCut>>
wsSeen == <<wsTexts, wsMissed>>
wsVars == <<wsTls, wsFlags, wsLocks, wsWire, wsThread, wsSeen>>

WsIdle == [at |-> "idle", timed |-> FALSE, writes |-> "nothing", header |-> None,
           parts |-> <<>>, collects |-> FALSE]

WsInit ==
    /\ wsTls \in BOOLEAN
    /\ wsPool = TRUE /\ wsUp = TRUE /\ wsCut = FALSE
    /\ wsSendLock = None /\ wsConnLock = None
    /\ wsAhead = <<>> /\ wsPipe = <<>>
    /\ wsPeer = [texts |-> 0, parts |-> 0, pings |-> 0, half |-> None, gone |-> FALSE]
    /\ wsThread = [t \in Threads |-> WsIdle] /\ wsTexts = <<>> /\ wsMissed = {}

WsAt(t, p) == wsThread[t].at = p
WsGoes(t, thread) == wsThread' = [wsThread EXCEPT ![t] = thread]

Reading(t) == wsThread[t].at \in {"wait", "frame", "handle"} \/ wsThread[t].writes = "pong"
                \/ wsThread[t].writes = "close reply"

-----------------------------------------------------------------------------
(* The peer, external.                                                       *)

WsFrames == [kind : {"text", "continuation", "ping", "close"},
             text : 0..WsMessages, part : 1..2, last : BOOLEAN]
WsHalves == [f : WsFrames, half : {"header", "payload"}]

ASSUME NoFrameAssumption == None \notin WsFrames /\ None \notin WsHalves

Frame(kind, text, part, last) == [kind |-> kind, text |-> text, part |-> part, last |-> last]

\* A text is open: its second part is still to be sent.
PeerFrames ==
    LET p == wsPeer
        more == p.texts + p.pings < WsMessages
    IN  (IF p.parts = 0 /\ more
         THEN {Frame("text", p.texts + 1, 1, last) : last \in BOOLEAN} ELSE {})
        \cup (IF p.parts = 1 THEN {Frame("continuation", p.texts, 2, TRUE)} ELSE {})
        \cup (IF more THEN {Frame("ping", 0, 1, TRUE)} ELSE {})
        \cup (IF p.parts = 0 THEN {Frame("close", 0, 1, TRUE)} ELSE {})

\* Only as long as somebody may read it.
Delivers ==
    /\ ~wsPeer.gone /\ ~wsCut /\ (wsPool \/ \E t \in Threads : Reading(t))
    /\ Len(wsPipe) < SocketRoom

PeerSends ==
    /\ Delivers /\ wsPeer.half = None
    /\ \E f \in PeerFrames :
          /\ wsPipe' = Append(wsPipe, [f |-> f, half |-> "header"])
          /\ wsPeer' = [wsPeer EXCEPT
                !.half = f,
                !.texts = IF f.kind = "text" THEN @ + 1 ELSE @,
                !.parts = IF f.kind = "text" /\ ~f.last THEN 1
                          ELSE IF f.kind = "ping" THEN @ ELSE 0,
                !.pings = IF f.kind = "ping" THEN @ + 1 ELSE @]
    /\ UNCHANGED <<wsTls, wsFlags, wsLocks, wsAhead, wsThread, wsSeen>>

\* The rest of a frame; after a close frame the peer sends no more.
PeerSendsRest ==
    /\ Delivers /\ wsPeer.half # None
    /\ wsPipe' = Append(wsPipe, [f |-> wsPeer.half, half |-> "payload"])
    /\ wsPeer' = [wsPeer EXCEPT !.half = None, !.gone = wsPeer.half.kind = "close"]
    /\ UNCHANGED <<wsTls, wsFlags, wsLocks, wsAhead, wsThread, wsSeen>>

PeerGoes ==
    /\ ~wsPeer.gone /\ wsPeer' = [wsPeer EXCEPT !.gone = TRUE]
    /\ UNCHANGED <<wsTls, wsFlags, wsLocks, wsAhead, wsPipe, wsThread, wsSeen>>

-----------------------------------------------------------------------------
(* qi_websocket_recv_text and qi_websocket_recv_text_timeout; one thread is   *)
(* the connection's reading loop (websocket_ffi.rs:87).                       *)
Again(thread) == [thread EXCEPT !.at = IF thread.timed THEN "wait" ELSE "frame",
                                !.writes = "nothing", !.header = None]

WsReceive(t, timed) ==
    /\ WsAt(t, "idle") /\ wsPool /\ \A u \in Threads : ~Reading(u)
    /\ WsGoes(t, Again([WsIdle EXCEPT !.timed = timed]))
    /\ UNCHANGED <<wsTls, wsFlags, wsLocks, wsWire, wsSeen>>

\* What a read of the socket brings: one half, or with TLS any number of them.
Pumped(n) == IF wsTls THEN n \in 1..Len(wsPipe) /\ wsConnLock = None
             ELSE n = 1 /\ wsPipe # <<>>

\* 等待可读: what the look took from the socket is put back in front.
WsSees(t) ==
    /\ WsAt(t, "wait") /\ WsGoes(t, [wsThread[t] EXCEPT !.at = "frame"])
    /\ \/ /\ wsAhead # <<>> /\ UNCHANGED <<wsAhead, wsPipe>>
       \/ \E n \in 1..Len(wsPipe) :
             /\ wsAhead = <<>> /\ Pumped(n)
             /\ wsAhead' = SubSeq(wsPipe, 1, n)
             /\ wsPipe' = SubSeq(wsPipe, n + 1, Len(wsPipe))
    /\ UNCHANGED <<wsTls, wsFlags, wsLocks, wsPeer, wsSeen>>

\* The parts collected so far are dropped.
WsTimesOut(t) ==
    /\ WsAt(t, "wait") /\ wsAhead = <<>> /\ wsPipe = <<>> /\ ~wsPeer.gone /\ ~wsCut
    /\ wsMissed' = wsMissed \cup {p.text : p \in {wsThread[t].parts[i] :
                                              i \in DOMAIN wsThread[t].parts}}
    /\ WsGoes(t, WsIdle)
    /\ UNCHANGED <<wsTls, wsFlags, wsLocks, wsWire, wsTexts>>

\* Half a frame is in hand: the header first, then the whole.
Took(t, h) ==
    LET thread == wsThread[t]
    IN  IF thread.header = None THEN [thread EXCEPT !.header = h]
        ELSE [thread EXCEPT !.at = "handle"]

\* 读满: first what was kept, then the socket; TLS keeps what it has too much.
WsReads(t) ==
    /\ WsAt(t, "frame")
    /\ \/ /\ wsAhead # <<>> /\ WsGoes(t, Took(t, wsAhead[1]))
          /\ wsAhead' = Tail(wsAhead) /\ UNCHANGED wsPipe
       \/ \E n \in 1..Len(wsPipe) :
             /\ wsAhead = <<>> /\ Pumped(n) /\ WsGoes(t, Took(t, wsPipe[1]))
             /\ wsAhead' = SubSeq(wsPipe, 2, n)
             /\ wsPipe' = SubSeq(wsPipe, n + 1, Len(wsPipe))
    /\ UNCHANGED <<wsTls, wsFlags, wsLocks, wsPeer, wsSeen>>

\* The peer has gone, or a close here has cut the socket.
WsReadFails(t) ==
    /\ wsThread[t].at \in {"wait", "frame"}
    /\ wsAhead = <<>> /\ wsPipe = <<>> /\ (wsPeer.gone \/ wsCut)
    /\ WsGoes(t, [wsThread[t] EXCEPT !.at = "cut", !.writes = "close reply"])
    /\ UNCHANGED <<wsTls, wsFlags, wsLocks, wsWire, wsSeen>>

Returns(t, text) == wsTexts' = Append(wsTexts, text) /\ WsGoes(t, WsIdle)

\* Wrong variant: a text's first frame is the text.
WsTextFirstOnly(t, f) == Returns(t, <<f>>)

\* 处理一帧: a text in one frame, or its first part.
WsText(t, f) ==
    \/ f.last /\ Returns(t, <<f>>)
    \/ /\ ~f.last /\ UNCHANGED wsTexts
       /\ WsGoes(t, Again([wsThread[t] EXCEPT !.parts = <<f>>, !.collects = TRUE]))

\* A part nobody has begun is passed over.
WsContinuation(t, f) ==
    LET parts == Append(wsThread[t].parts, f)
    IN  IF ~wsThread[t].collects THEN WsGoes(t, Again(wsThread[t])) /\ UNCHANGED wsTexts
        ELSE IF f.last THEN Returns(t, parts)
        ELSE WsGoes(t, Again([wsThread[t] EXCEPT !.parts = parts])) /\ UNCHANGED wsTexts

WsHandles(t) ==
    LET f == wsThread[t].header.f
        writes(what) == /\ WsGoes(t, [wsThread[t] EXCEPT !.at = "lock", !.writes = what])
                        /\ UNCHANGED wsTexts
    IN  /\ WsAt(t, "handle")
        /\ \/ f.kind = "ping" /\ writes("pong")
           \/ f.kind = "close" /\ writes("close reply")
           \/ f.kind = "text" /\ WsText(t, f)
           \/ f.kind = "continuation" /\ WsContinuation(t, f)
        /\ UNCHANGED <<wsTls, wsFlags, wsLocks, wsWire, wsMissed>>

-----------------------------------------------------------------------------
(* Writing: send_frame with send_lock, and with TLS the state's lock, too.    *)
WsSend(t) ==
    /\ WsAt(t, "idle") /\ wsPool
    /\ WsGoes(t, [WsIdle EXCEPT !.at = "lock", !.writes = "text"])
    /\ UNCHANGED <<wsTls, wsFlags, wsLocks, wsWire, wsSeen>>

WsClose(t) ==
    /\ WsAt(t, "idle") /\ wsPool /\ wsPool' = FALSE
    /\ WsGoes(t, [WsIdle EXCEPT !.at = "lock", !.writes = "close"])
    /\ UNCHANGED <<wsTls, wsUp, wsCut, wsLocks, wsWire, wsSeen>>

WsUnregister(t) ==
    /\ WsAt(t, "idle") /\ wsPool /\ wsPool' = FALSE
    /\ UNCHANGED <<wsTls, wsUp, wsCut, wsLocks, wsWire, wsThread, wsSeen>>

WsLocks(t) ==
    /\ WsAt(t, "lock") /\ wsSendLock = None /\ wsSendLock' = t
    /\ WsGoes(t, [wsThread[t] EXCEPT !.at = IF wsTls THEN "seal" ELSE "write"])
    /\ UNCHANGED <<wsTls, wsFlags, wsConnLock, wsWire, wsSeen>>

WsSeals(t) ==
    /\ WsAt(t, "seal") /\ wsConnLock = None /\ wsConnLock' = t
    /\ WsGoes(t, [wsThread[t] EXCEPT !.at = "write"])
    /\ UNCHANGED <<wsTls, wsFlags, wsSendLock, wsWire, wsSeen>>

\* The write waits for the peer to read, or fails; it keeps both locks until then.
WsWrites(t) ==
    /\ WsAt(t, "write")
    /\ \E written \in BOOLEAN :
          /\ written => ~wsCut
          /\ ~written => wsCut \/ wsPeer.gone
          /\ wsUp' = (wsUp /\ ~(written /\ wsThread[t].writes \in {"close", "close reply"}))
    /\ wsSendLock' = None /\ wsConnLock' = None
    /\ WsGoes(t, CASE wsThread[t].writes = "pong" -> Again(wsThread[t])
                   [] wsThread[t].writes = "text" -> WsIdle
                   [] OTHER -> [wsThread[t] EXCEPT !.at = "cut"])
    /\ UNCHANGED <<wsTls, wsPool, wsCut, wsAhead, wsPipe, wsPeer, wsSeen>>

\* 切断, with TLS under the state's lock, and the reader's 摘除WS.
WsCuts(t) ==
    /\ WsAt(t, "cut") /\ wsConnLock = None
    /\ wsUp' = FALSE /\ wsCut' = TRUE /\ wsPool' = FALSE
    /\ WsGoes(t, WsIdle)
    /\ UNCHANGED <<wsTls, wsLocks, wsWire, wsSeen>>

WsRuns(t) ==
    \/ WsSees(t) \/ WsReads(t) \/ WsReadFails(t) \/ WsHandles(t)
    \/ WsLocks(t) \/ WsSeals(t) \/ WsWrites(t) \/ WsCuts(t)

WsNext ==
    \/ \E t \in Threads :
          \/ \E timed \in BOOLEAN : WsReceive(t, timed)
          \/ WsSend(t) \/ WsClose(t) \/ WsUnregister(t) \/ WsTimesOut(t) \/ WsRuns(t)
    \/ PeerSends \/ PeerSendsRest \/ PeerGoes

-----------------------------------------------------------------------------
WsTypes ==
    /\ {wsTls, wsPool, wsUp, wsCut} \subseteq BOOLEAN
    /\ wsSendLock \in Threads \cup {None} /\ wsConnLock \in Threads \cup {None}
    /\ Len(wsPipe) <= SocketRoom /\ wsMissed \subseteq 1..WsMessages
    /\ wsPeer.texts + wsPeer.pings \in 0..WsMessages

\* What a read returns is one text of the peer, whole ("half a message is not
\* used as a whole one", websocket_ffi.rs:1089), in the order they were sent;
\* only one whose parts lay on both sides of a time limit is passed over,
\* whatever pings, sends and closes come between.  No time limit, and nothing
\* read too early, makes a payload be taken for a header.
TextsWhole ==
    /\ \A t \in Threads :
          wsThread[t].header # None => wsThread[t].header.half = "header"
    /\ \A i \in DOMAIN wsTexts :
          LET text == wsTexts[i]
          IN  /\ text[Len(text)].last
              /\ \A j \in DOMAIN text : text[j].part = j /\ text[j].text = text[1].text
    /\ \A i \in DOMAIN wsTexts, m \in 1..WsMessages :
          /\ m < wsTexts[i][1].text
          /\ \A k \in 1..(i - 1) : wsTexts[k][1].text # m
          => m \in wsMissed
    /\ \A i, k \in DOMAIN wsTexts : i < k => wsTexts[i][1].text < wsTexts[k][1].text
=============================================================================
