------------------------------ MODULE Listeners ------------------------------
(* src/src/stdlib/signal_ffi.rs and the TCP servers of io/network_ffi.rs: a  *)
(* signal makes the calls return that wait for clients.                      *)
(*                                                                           *)
(* A step is one access to a slot, to the flag or to the table of servers,   *)
(* or a call of the operating system.  A socket is known by its number,      *)
(* which is given away again once it is closed; it is closed when the last   *)
(* of those who keep the listener lets go of it.  The signal's handler runs  *)
(* between any two steps.                                                    *)
EXTENDS Callers, Integers, FiniteSets

CONSTANTS
    Sockets,        \* numbers of sockets
    ListenerSlots,  \* MAX_LISTENER_FDS in the code
    MaxListens      \* bound: listeners made

ASSUME ListenersAssumption ==
    /\ ListenerSlots \in Nat \ {0} /\ MaxListens \in Nat
    /\ None \notin Sockets

VARIABLES
    lisFlag,        \* SHOULD_SHUTDOWN
    lisSlots,       \* LISTENER_FDS
    lisHandler,     \* the handler: its slot, and the number it read there
    lisPool,        \* the socket of each server in the table, or None
    lisKept,        \* threads that keep each socket's listener
    lisDown,        \* sockets that were shut down
    lisListens,
    lisThread       \* of each thread: position, its socket, its slot

lisVars == <<lisFlag, lisSlots, lisHandler, lisPool, lisKept, lisDown, lisListens,
             lisThread>>
lisSystem == <<lisPool, lisKept, lisDown>>

Slots == 1..ListenerSlots

Servers == 1..MaxListens

LisIdle == [at |-> "idle", server |-> 0, socket |-> None, slot |-> 0]

\* The handler before its signal.
NotCalled == [slot |-> 0, socket |-> None]

LisInit ==
    /\ lisFlag = FALSE
    /\ lisSlots = [i \in Slots |-> None] /\ lisHandler = NotCalled
    /\ lisPool = [n \in Servers |-> None] /\ lisKept = [s \in Sockets |-> {}]
    /\ lisDown = {} /\ lisListens = 0
    /\ lisThread = [t \in Threads |-> LisIdle]

LisAt(t, p) == lisThread[t].at = p

Socket(t) == lisThread[t].socket

LisGo(t, p) == lisThread' = [lisThread EXCEPT ![t].at = p]

LisReturns(t) == lisThread' = [lisThread EXCEPT ![t] = LisIdle]

Filed == {lisPool[n] : n \in Servers} \ {None}

Open == Filed \cup {s \in Sockets : lisKept[s] # {}}

\* Who lets go last closes the socket.
Drops(t) ==
    LET s == Socket(t)
    IN  /\ lisKept' = [lisKept EXCEPT ![s] = @ \ {t}]
        /\ lisDown' = IF lisKept[s] = {t} /\ s \notin Filed THEN lisDown \ {s} ELSE lisDown

-----------------------------------------------------------------------------
(* handler: one signal.                                                      *)

LisSignal ==
    /\ lisHandler = NotCalled
    /\ lisFlag' = TRUE
    /\ lisHandler' = [slot |-> 1, socket |-> None]
    /\ UNCHANGED <<lisSlots, lisSystem, lisListens, lisThread>>

\* Wrong variant: the walk ends at the first free slot.
LisLoadsUpToAGap ==
    /\ lisHandler.slot \in Slots /\ lisHandler.socket = None
    /\ lisHandler' = IF lisSlots[lisHandler.slot] = None
                     THEN [lisHandler EXCEPT !.slot = ListenerSlots + 1]
                     ELSE [lisHandler EXCEPT !.socket = lisSlots[lisHandler.slot]]
    /\ UNCHANGED <<lisFlag, lisSlots, lisSystem, lisListens, lisThread>>

LisLoads ==
    /\ lisHandler.slot \in Slots /\ lisHandler.socket = None
    /\ lisHandler' = IF lisSlots[lisHandler.slot] = None
                     THEN [lisHandler EXCEPT !.slot = @ + 1]
                     ELSE [lisHandler EXCEPT !.socket = lisSlots[lisHandler.slot]]
    /\ UNCHANGED <<lisFlag, lisSlots, lisSystem, lisListens, lisThread>>

\* Whatever has the number by now is shut down, if anything has.
LisShuts ==
    /\ lisHandler.socket # None
    /\ lisDown' = lisDown \cup ({lisHandler.socket} \cap Open)
    /\ lisHandler' = [slot |-> lisHandler.slot + 1, socket |-> None]
    /\ UNCHANGED <<lisFlag, lisSlots, lisPool, lisKept, lisListens, lisThread>>

-----------------------------------------------------------------------------
(* qi_network_tcp_listen and qi_network_tcp_server_close.                    *)

LisBind(t) ==
    /\ LisAt(t, "idle") /\ lisListens < MaxListens
    /\ \E s \in Sockets \ Open :
          /\ lisKept' = [lisKept EXCEPT ![s] = {t}]
          /\ lisThread' = [lisThread EXCEPT ![t] =
                [at |-> "register", server |-> lisListens + 1, socket |-> s, slot |-> 1]]
    /\ lisListens' = lisListens + 1
    /\ UNCHANGED <<lisFlag, lisSlots, lisHandler, lisPool, lisDown>>

\* The first slot that is free when it is tried; there may be none.
LisRegister(t) ==
    LET i == lisThread[t].slot
    IN  /\ LisAt(t, "register")
        /\ IF lisSlots[i] = None
           THEN lisSlots' = [lisSlots EXCEPT ![i] = Socket(t)] /\ LisGo(t, "file")
           ELSE /\ UNCHANGED lisSlots
                /\ IF i = ListenerSlots THEN LisGo(t, "file")
                   ELSE lisThread' = [lisThread EXCEPT ![t].slot = i + 1]
        /\ UNCHANGED <<lisFlag, lisHandler, lisSystem, lisListens>>

LisFile(t) ==
    /\ LisAt(t, "file")
    /\ lisPool' = [lisPool EXCEPT ![lisThread[t].server] = Socket(t)]
    /\ lisKept' = [lisKept EXCEPT ![Socket(t)] = {}]
    /\ LisReturns(t)
    /\ UNCHANGED <<lisFlag, lisSlots, lisHandler, lisDown, lisListens>>

\* A server leaves the table, for the thread that goes on with its listener.
LisTakes(t, n, p) ==
    /\ LisAt(t, "idle") /\ lisPool[n] # None
    /\ lisPool' = [lisPool EXCEPT ![n] = None]
    /\ lisKept' = [lisKept EXCEPT ![lisPool[n]] = @ \cup {t}]
    /\ lisThread' = [lisThread EXCEPT ![t] =
          [at |-> p, server |-> n, socket |-> lisPool[n], slot |-> 1]]
    /\ UNCHANGED <<lisFlag, lisSlots, lisHandler, lisDown, lisListens>>

LisClose(t) == \E n \in Servers : LisTakes(t, n, "unregister")

LisUnregister(t) ==
    LET i == lisThread[t].slot
    IN  /\ LisAt(t, "unregister")
        /\ IF lisSlots[i] = Socket(t)
           THEN lisSlots' = [lisSlots EXCEPT ![i] = None] /\ LisGo(t, "drop")
           ELSE /\ UNCHANGED lisSlots
                /\ IF i = ListenerSlots THEN LisGo(t, "drop")
                   ELSE lisThread' = [lisThread EXCEPT ![t].slot = i + 1]
        /\ UNCHANGED <<lisFlag, lisHandler, lisSystem, lisListens>>

LisDrop(t) ==
    /\ LisAt(t, "drop")
    /\ Drops(t) /\ LisReturns(t)
    /\ UNCHANGED <<lisFlag, lisSlots, lisHandler, lisPool, lisListens>>

-----------------------------------------------------------------------------
(* The calls that wait: qi_network_tcp_accept, and qi_runtime_async_serve,   *)
(* which looks at the flag every 100 milliseconds.                           *)

\* A program looks at the flag when it has the server, and then accepts.
LisLook(t) ==
    /\ LisAt(t, "idle") /\ ~lisFlag
    /\ \E n \in Servers :
          /\ lisPool[n] # None
          /\ lisThread' = [lisThread EXCEPT ![t].at = "call", ![t].server = n]
    /\ UNCHANGED <<lisFlag, lisSlots, lisHandler, lisSystem, lisListens>>

\* The listener is kept from here on, whoever closes the server meanwhile.
LisAccept(t) ==
    LET s == lisPool[lisThread[t].server]
    IN  /\ LisAt(t, "call")
        /\ IF s = None THEN UNCHANGED lisKept /\ LisReturns(t)
           ELSE /\ lisKept' = [lisKept EXCEPT ![s] = @ \cup {t}]
                /\ lisThread' = [lisThread EXCEPT ![t].at = "accept", ![t].socket = s]
        /\ UNCHANGED <<lisFlag, lisSlots, lisHandler, lisPool, lisDown, lisListens>>

\* A client comes, or the socket was shut down.
LisAccepted(t) ==
    /\ LisAt(t, "accept") /\ Socket(t) \notin lisDown
    /\ Drops(t) /\ LisReturns(t)
    /\ UNCHANGED <<lisFlag, lisSlots, lisHandler, lisPool, lisListens>>

LisRefused(t) ==
    /\ LisAt(t, "accept") /\ Socket(t) \in lisDown
    /\ Drops(t) /\ LisReturns(t)
    /\ UNCHANGED <<lisFlag, lisSlots, lisHandler, lisPool, lisListens>>

\* A listener nobody accepts on; its number stays in its slot.
LisServe(t) ==
    \E n \in Servers :
        /\ lisPool[n] # None /\ lisKept[lisPool[n]] = {}
        /\ LisTakes(t, n, "serve")

LisServed(t) ==
    /\ LisAt(t, "serve") /\ (lisFlag \/ Socket(t) \in lisDown)
    /\ Drops(t) /\ LisReturns(t)
    /\ UNCHANGED <<lisFlag, lisSlots, lisHandler, lisPool, lisListens>>

LisHandles == LisLoads \/ LisShuts

LisRuns(t) ==
    \/ LisRegister(t) \/ LisFile(t) \/ LisUnregister(t) \/ LisDrop(t) \/ LisAccept(t)
    \/ LisRefused(t) \/ LisServed(t)

LisNext ==
    \/ LisSignal \/ LisHandles
    \/ \E t \in Threads :
          \/ LisBind(t) \/ LisClose(t) \/ LisLook(t) \/ LisServe(t) \/ LisAccepted(t)
          \/ LisRuns(t)

-----------------------------------------------------------------------------
LisTypes ==
    /\ lisSlots \in [Slots -> Sockets \cup {None}]
    /\ lisHandler \in [slot : 0..(ListenerSlots + 1), socket : Sockets \cup {None}]
    /\ lisPool \in [Servers -> Sockets \cup {None}]
    /\ lisKept \in [Sockets -> SUBSET Threads]
    /\ lisDown \subseteq Open
    /\ \A t \in Threads : Socket(t) \in Sockets \cup {None}

\* Who waits for clients, of a server that nobody closes.
AwaitsClients(t) ==
    LisAt(t, "serve") \/ (LisAt(t, "accept") /\ lisPool[lisThread[t].server] # None)

\* "shutdown wakes any thread blocked in accept at once" (signal_ffi.rs:4): who
\* waits for clients returns once the signal came, whether it came before the
\* server's socket was registered, before the call, or during it.
AcceptsEnd == \A t \in Threads : (lisFlag /\ AwaitsClients(t)) ~> ~AwaitsClients(t)
=============================================================================
