------------------------------- MODULE DbPool -------------------------------
(* src/src/stdlib/database/连接池.rs: the pool of connections of one handle *)
(* of a network database, with both kinds of transactions.                  *)
(*                                                                          *)
(* A step is a region under the mutex of the transaction table, or one      *)
(* exchange with the server.  The mutex of the connection-level transaction *)
(* and that of a transaction's slot are variables: they are held while the  *)
(* server answers.  r2d2 and the server are external: a check-out waits for *)
(* an idle connection or times out, and replaces a dead one.                *)
EXTENDS Callers, Integers, FiniteSets

CONSTANTS
    Connections,    \* at most so many are open at a time
    MaxTransactions,\* bound: transactions begun with a handle
    MaxDeaths       \* bound: connections that break

ASSUME DbAssumption == /\ MaxTransactions \in Nat /\ MaxDeaths \in Nat
                       /\ None \notin Connections

Txs == 1..MaxTransactions

VARIABLES
    dbIdle,         \* connections in r2d2's hands
    dbOpen,         \* connections on which the server has a transaction open
    dbDead,         \* connections that are broken
    dbDeaths,
    dbPinned,       \* connection of the connection-level transaction, or None
    dbPinLock,      \* holder of its mutex
    dbTable,        \* transactions in the table
    dbSlot,         \* connection in each transaction's slot, or None
    dbSlotLock,     \* holder of each slot's mutex
    dbTxs,          \* transaction numbers given out
    dbThread        \* of each thread: position, the connection in its hands,
                    \*   its transaction, those it still has to roll back

dbVars == <<dbIdle, dbOpen, dbDead, dbDeaths, dbPinned, dbPinLock, dbTable,
            dbSlot, dbSlotLock, dbTxs, dbThread>>
dbServer == <<dbDead, dbDeaths>>
dbLocks == <<dbPinLock, dbSlotLock>>
dbOwners == <<dbPinned, dbTable, dbSlot, dbTxs>>

DbIdle == [at |-> "idle", conn |-> None, tx |-> 0, sweep |-> {}]

DbInit ==
    /\ dbIdle = Connections /\ dbOpen = {} /\ dbDead = {} /\ dbDeaths = 0
    /\ dbPinned = None /\ dbPinLock = None
    /\ dbTable = {} /\ dbTxs = 0
    /\ dbSlot = [x \in Txs |-> None] /\ dbSlotLock = [x \in Txs |-> None]
    /\ dbThread = [t \in Threads |-> DbIdle]

DbAt(t, p) == dbThread[t].at = p

Conn(t) == dbThread[t].conn

Tx(t) == dbThread[t].tx

DbGo(t, p) == dbThread' = [dbThread EXCEPT ![t].at = p]

DbReturns(t) == dbThread' = [dbThread EXCEPT ![t] = DbIdle]

\* The server drops a broken connection's transaction.
DbBreaks ==
    /\ dbDeaths < MaxDeaths /\ dbDeaths' = dbDeaths + 1
    /\ \E c \in Connections \ dbDead :
          dbDead' = dbDead \cup {c} /\ dbOpen' = dbOpen \ {c}
    /\ UNCHANGED <<dbIdle, dbOwners, dbLocks, dbThread>>

\* A dead connection is replaced when it is checked out.
Borrow(t, next) ==
    \E c \in dbIdle :
        /\ dbIdle' = dbIdle \ {c}
        /\ dbDead' = dbDead \ {c}
        /\ dbThread' = [dbThread EXCEPT ![t].conn = c, ![t].at = next]

DropsConnection(t) == dbIdle' = dbIdle \cup {Conn(t)}

-----------------------------------------------------------------------------
(* Statements outside a transaction: 在钉住或借出的连接上, 执行参数.         *)

DbStatement(t) ==
    /\ DbAt(t, "idle") /\ dbPinLock = None
    /\ \/ /\ dbPinned = None
          /\ DbGo(t, "borrow") /\ UNCHANGED dbPinLock
       \/ /\ dbPinned # None      \* it runs with the mutex held
          /\ dbPinLock' = t /\ DbGo(t, "pinned")
    /\ UNCHANGED <<dbIdle, dbOpen, dbServer, dbOwners, dbSlotLock>>

DbPinnedStatement(t) ==
    /\ DbAt(t, "pinned")
    /\ dbPinLock' = None /\ DbReturns(t)
    /\ UNCHANGED <<dbIdle, dbOpen, dbServer, dbOwners, dbSlotLock>>

DbBorrow(t) ==
    /\ DbAt(t, "borrow")
    /\ Borrow(t, "run")
    /\ UNCHANGED <<dbOpen, dbDeaths, dbOwners, dbLocks>>

DbRun(t) ==
    /\ DbAt(t, "run")
    /\ DropsConnection(t) /\ DbReturns(t)
    /\ UNCHANGED <<dbOpen, dbServer, dbOwners, dbLocks>>

\* No connection becomes idle in time, or none can be opened.
DbTimesOut(t) ==
    /\ \/ DbAt(t, "borrow") /\ UNCHANGED dbPinLock
       \/ DbAt(t, "tx borrow") /\ UNCHANGED dbPinLock
       \/ DbAt(t, "pin borrow") /\ dbPinLock' = None
    /\ DbReturns(t)
    /\ UNCHANGED <<dbIdle, dbOpen, dbServer, dbOwners, dbSlotLock>>

-----------------------------------------------------------------------------
(* The connection-level transaction: 开始连接级事务, 结束连接级事务.         *)

DbPinBegin(t) ==
    /\ DbAt(t, "idle") /\ dbPinLock = None
    /\ dbPinned = None /\ dbTable = {}
    /\ dbPinLock' = t /\ DbGo(t, "pin borrow")
    /\ UNCHANGED <<dbIdle, dbOpen, dbServer, dbOwners, dbSlotLock>>

DbPinBorrow(t) ==
    /\ DbAt(t, "pin borrow")
    /\ Borrow(t, "pin")
    /\ UNCHANGED <<dbOpen, dbDeaths, dbOwners, dbLocks>>

\* BEGIN works, or fails, on a live connection too.
DbPin(t) ==
    /\ DbAt(t, "pin")
    /\ \/ /\ Conn(t) \notin dbDead
          /\ dbOpen' = dbOpen \cup {Conn(t)} /\ dbPinned' = Conn(t)
          /\ UNCHANGED dbIdle
       \/ DropsConnection(t) /\ UNCHANGED <<dbOpen, dbPinned>>
    /\ dbPinLock' = None /\ DbReturns(t)
    /\ UNCHANGED <<dbServer, dbTable, dbSlot, dbTxs, dbSlotLock>>

\* COMMIT or ROLLBACK; if it fails the connection stays pinned.
DbUnpin(t) ==
    /\ DbAt(t, "idle") /\ dbPinLock = None /\ dbPinned # None
    /\ dbPinned \notin dbDead
    /\ dbOpen' = dbOpen \ {dbPinned}
    /\ dbIdle' = dbIdle \cup {dbPinned} /\ dbPinned' = None
    /\ UNCHANGED <<dbServer, dbTable, dbSlot, dbTxs, dbLocks, dbThread>>

-----------------------------------------------------------------------------
(* Transactions with a handle: 开启事务, 事务执行参数, 结束事务.             *)

\* The connection-level transaction is looked for before ...
DbTxBegin(t) ==
    /\ DbAt(t, "idle") /\ dbTxs < MaxTransactions
    /\ dbPinLock = None /\ dbPinned = None
    /\ dbTxs' = dbTxs + 1
    /\ dbThread' = [dbThread EXCEPT ![t].at = "tx borrow", ![t].tx = dbTxs + 1]
    /\ UNCHANGED <<dbIdle, dbOpen, dbServer, dbPinned, dbTable, dbSlot, dbLocks>>

DbTxBorrow(t) ==
    /\ DbAt(t, "tx borrow")
    /\ Borrow(t, "tx open")
    /\ UNCHANGED <<dbOpen, dbDeaths, dbOwners, dbLocks>>

DbTxOpen(t) ==
    /\ DbAt(t, "tx open")
    /\ \/ /\ Conn(t) \notin dbDead
          /\ dbOpen' = dbOpen \cup {Conn(t)}
          /\ DbGo(t, "tx file") /\ UNCHANGED dbIdle
       \/ DropsConnection(t) /\ DbReturns(t) /\ UNCHANGED dbOpen
    /\ UNCHANGED <<dbServer, dbOwners, dbLocks>>

\* ... the transaction is entered, without another look.
DbTxFile(t) ==
    /\ DbAt(t, "tx file")
    /\ dbTable' = dbTable \cup {Tx(t)}
    /\ dbSlot' = [dbSlot EXCEPT ![Tx(t)] = Conn(t)]
    /\ DbReturns(t)
    /\ UNCHANGED <<dbIdle, dbOpen, dbServer, dbPinned, dbTxs, dbLocks>>

\* A statement in a transaction, or its end, takes the slot from the table.
DbTxFind(t) ==
    /\ DbAt(t, "idle")
    /\ \E x \in dbTable :
          \/ /\ dbThread' = [dbThread EXCEPT ![t].at = "tx use", ![t].tx = x]
             /\ UNCHANGED dbTable
          \/ /\ dbThread' = [dbThread EXCEPT ![t].at = "tx end", ![t].tx = x]
             /\ dbTable' = dbTable \ {x}
    /\ UNCHANGED <<dbIdle, dbOpen, dbServer, dbPinned, dbSlot, dbTxs, dbLocks>>

\* The statement runs with the slot's mutex held; an empty slot is refused.
DbTxUse(t) ==
    /\ DbAt(t, "tx use") /\ dbSlotLock[Tx(t)] = None
    /\ IF dbSlot[Tx(t)] = None
       THEN DbReturns(t) /\ UNCHANGED dbSlotLock
       ELSE /\ dbSlotLock' = [dbSlotLock EXCEPT ![Tx(t)] = t]
            /\ DbGo(t, "tx run")
    /\ UNCHANGED <<dbIdle, dbOpen, dbServer, dbOwners, dbPinLock>>

DbTxRun(t) ==
    /\ DbAt(t, "tx run")
    /\ dbSlotLock' = [dbSlotLock EXCEPT ![Tx(t)] = None]
    /\ DbReturns(t)
    /\ UNCHANGED <<dbIdle, dbOpen, dbServer, dbOwners, dbPinLock>>

\* The end takes the connection out of the slot, if a close has not; the slot
\* is on no table then, and its mutex is held to the end.
DbTxTake(t) ==
    LET x == Tx(t)
    IN  /\ DbAt(t, "tx end") /\ dbSlotLock[x] = None
        /\ IF dbSlot[x] = None
           THEN DbReturns(t) /\ UNCHANGED <<dbSlot, dbSlotLock>>
           ELSE /\ dbThread' = [dbThread EXCEPT ![t].at = "tx finish",
                                                ![t].conn = dbSlot[x]]
                /\ dbSlot' = [dbSlot EXCEPT ![x] = None]
                /\ dbSlotLock' = [dbSlotLock EXCEPT ![x] = t]
        /\ UNCHANGED <<dbIdle, dbOpen, dbServer, dbPinned, dbTable, dbTxs, dbPinLock>>

\* COMMIT or ROLLBACK works or fails ...
DbTxFinish(t) ==
    /\ DbAt(t, "tx finish")
    /\ \/ Conn(t) \notin dbDead /\ dbOpen' = dbOpen \ {Conn(t)} /\ DbGo(t, "tx drop")
       \/ UNCHANGED dbOpen /\ DbGo(t, "tx undo")
    /\ UNCHANGED <<dbIdle, dbServer, dbOwners, dbLocks>>

\* Wrong variant: a failed commit is reported and that is all.
DbTxUndoNothing(t) ==
    /\ DbAt(t, "tx undo")
    /\ DbGo(t, "tx drop")
    /\ UNCHANGED <<dbIdle, dbOpen, dbServer, dbOwners, dbLocks>>

\* ... and is followed by a rollback, which works on a live connection.
DbTxUndo(t) ==
    /\ DbAt(t, "tx undo")
    /\ dbOpen' = dbOpen \ {Conn(t)}
    /\ DbGo(t, "tx drop")
    /\ UNCHANGED <<dbIdle, dbServer, dbOwners, dbLocks>>

\* The connection goes back, then the slot's mutex is released.
DbTxDrop(t) ==
    /\ DbAt(t, "tx drop")
    /\ DropsConnection(t)
    /\ dbSlotLock' = [dbSlotLock EXCEPT ![Tx(t)] = None]
    /\ DbReturns(t)
    /\ UNCHANGED <<dbOpen, dbServer, dbOwners, dbPinLock>>

-----------------------------------------------------------------------------
(* 关闭, while calls that have the pool go on with it.                       *)

\* The pinned connection is rolled back and goes back first ...
DbClose(t) ==
    /\ DbAt(t, "idle") /\ dbPinLock = None
    /\ IF dbPinned = None THEN UNCHANGED <<dbOpen, dbIdle>>
       ELSE dbOpen' = dbOpen \ {dbPinned} /\ dbIdle' = dbIdle \cup {dbPinned}
    /\ dbPinned' = None
    /\ DbGo(t, "close")
    /\ UNCHANGED <<dbServer, dbTable, dbSlot, dbTxs, dbLocks>>

DbCloseTable(t) ==
    /\ DbAt(t, "close")
    /\ dbThread' = [dbThread EXCEPT ![t].at = "sweep", ![t].sweep = dbTable]
    /\ dbTable' = {}
    /\ UNCHANGED <<dbIdle, dbOpen, dbServer, dbPinned, dbSlot, dbTxs, dbLocks>>

\* ... then those of the transactions that were in the table.
DbSweep(t) ==
    /\ DbAt(t, "sweep")
    /\ \/ \E x \in dbThread[t].sweep :
             /\ dbSlotLock[x] = None
             /\ dbThread' = [dbThread EXCEPT ![t].sweep = @ \ {x}]
             /\ IF dbSlot[x] = None THEN UNCHANGED <<dbOpen, dbIdle>>
                ELSE dbOpen' = dbOpen \ {dbSlot[x]} /\ dbIdle' = dbIdle \cup {dbSlot[x]}
             /\ dbSlot' = [dbSlot EXCEPT ![x] = None]
       \/ /\ dbThread[t].sweep = {} /\ DbReturns(t)
          /\ UNCHANGED <<dbOpen, dbIdle, dbSlot>>
    /\ UNCHANGED <<dbServer, dbPinned, dbTable, dbTxs, dbLocks>>

DbNext ==
    \/ DbBreaks
    \/ \E t \in Threads :
          \/ DbStatement(t) \/ DbPinnedStatement(t) \/ DbBorrow(t) \/ DbRun(t)
          \/ DbTimesOut(t) \/ DbPinBegin(t) \/ DbPinBorrow(t) \/ DbPin(t)
          \/ DbUnpin(t) \/ DbTxBegin(t) \/ DbTxBorrow(t) \/ DbTxOpen(t)
          \/ DbTxFile(t) \/ DbTxFind(t) \/ DbTxUse(t) \/ DbTxRun(t)
          \/ DbTxTake(t) \/ DbTxFinish(t) \/ DbTxUndo(t) \/ DbTxDrop(t)
          \/ DbClose(t) \/ DbCloseTable(t) \/ DbSweep(t)

-----------------------------------------------------------------------------
DbTypes ==
    /\ dbIdle \cup dbOpen \cup dbDead \subseteq Connections
    /\ dbPinned \in Connections \cup {None}
    /\ dbPinLock \in Threads \cup {None}
    /\ dbTable \subseteq Txs /\ dbTxs \in 0..MaxTransactions
    /\ dbSlot \in [Txs -> Connections \cup {None}]
    /\ dbSlotLock \in [Txs -> Threads \cup {None}]
    /\ \A t \in Threads : Conn(t) \in Connections \cup {None}

\* Where a connection is: each is in one place.
Places(c) ==
    (IF c \in dbIdle THEN 1 ELSE 0) + (IF dbPinned = c THEN 1 ELSE 0)
    + Cardinality({x \in Txs : dbSlot[x] = c})
    + Cardinality({t \in Threads : Conn(t) = c})

ConnectionsKept == \A c \in Connections : Places(c) = 1

\* "A connection that may still be in a transaction must not go back as it is:
\* it would pollute whoever borrows it next" (连接池.rs:333).  Whatever fails,
\* and whoever ends or closes first, an idle connection has no transaction.
IdleConnectionsClean == dbIdle \cap dbOpen = {}
=============================================================================
