------------------------------ MODULE DbHandles ------------------------------
(* src/src/stdlib/database_ffi.rs and database/句柄.rs: handles of databases   *)
(* that are one file with one connection (SQLite), with both kinds of         *)
(* transactions.  DbPool has what lies behind the other handles.              *)
(*                                                                            *)
(* A step is a region under the mutex of CONNECTIONS, of TRANSACTIONS or of   *)
(* one connection.  SQLite is external: a statement, a begin or a commit may  *)
(* fail because another process has the file, and a statement or a commit     *)
(* that fails may roll back what is open (a full disk, an error of the file,  *)
(* OR ROLLBACK).  Writes are told apart by the transaction that made them, if *)
(* it has a handle; programs begin and end transactions by these calls, not   *)
(* by statements.                                                             *)
EXTENDS Callers, Integers

CONSTANTS
    MaxConnects,    \* bound: databases opened
    MaxDbTxs        \* bound: transactions with a handle

ASSUME DbHandlesAssumption ==
    /\ MaxConnects \in Nat /\ MaxDbTxs \in Nat
    /\ None \notin 0..MaxDbTxs

Databases == 1..MaxConnects
DbTxs == 1..MaxDbTxs

\* Writes by statements with parameters that are of no transaction.
Direct == -1

VARIABLES
    dhOpen,         \* handles in CONNECTIONS
    dhMade,
    dhTable,        \* TRANSACTIONS: the handle of each, or 0
    dhTxs,          \* numbers given out
    dhActive,       \* active_transaction: a number, 0 for the connection's own,
                    \*   or None
    dhSql,          \* whether SQLite has a transaction open
    dhPending,      \* whose writes are in it: numbers, or Direct
    dhKept, dhLost, \* whose writes were kept, and whose were rolled back
    dhCommitted,    \* transactions that were committed
    dhFell,         \* those that SQLite rolled back on its own
    dhThread        \* of each thread: position, call, handle, transaction

dhVars == <<dhOpen, dhMade, dhTable, dhTxs, dhActive, dhSql, dhPending, dhKept, dhLost,
            dhCommitted, dhFell, dhThread>>
dhFiles == <<dhOpen, dhMade>>
dhData == <<dhSql, dhPending, dhKept, dhLost, dhCommitted, dhFell>>

DhIdle == [at |-> "idle", call |-> "none", on |-> 0, tx |-> 0]

DhInit ==
    /\ dhOpen = {} /\ dhMade = 0 /\ dhTable = [n \in DbTxs |-> 0] /\ dhTxs = 0
    /\ dhActive = [c \in Databases |-> None] /\ dhSql = [c \in Databases |-> FALSE]
    /\ dhPending = [c \in Databases |-> {}] /\ dhKept = {} /\ dhLost = {}
    /\ dhCommitted = {} /\ dhFell = {} /\ dhThread = [t \in Threads |-> DhIdle]

DhAt(t, p) == dhThread[t].at = p
DhCalls(t, call) == DhAt(t, "run") /\ dhThread[t].call = call
\* Of what it looked up in TRANSACTIONS a thread has only the number.
DhHas(t, c) == dhThread[t].on = c /\ ~DhAt(t, "found")
DhGo(t, p) == dhThread' = [dhThread EXCEPT ![t].at = p]

-----------------------------------------------------------------------------
DhConnect(t) ==
    /\ DhAt(t, "idle") /\ dhMade < MaxConnects
    /\ dhMade' = dhMade + 1 /\ dhOpen' = dhOpen \cup {dhMade'}
    /\ UNCHANGED <<dhTable, dhTxs, dhActive, dhData, dhThread>>

DirectCalls == {"execute", "execute params", "begin", "commit", "rollback", "open"}
TxCalls == {"tx execute", "tx commit", "tx rollback"}

\* connection: from here on the call keeps the connection.
DhLookup(t) ==
    /\ DhAt(t, "idle")
    /\ \E c \in dhOpen, call \in DirectCalls :
          /\ call = "open" => dhTxs < MaxDbTxs
          /\ dhTxs' = IF call = "open" THEN dhTxs + 1 ELSE dhTxs
          /\ dhThread' = [dhThread EXCEPT ![t] =
                [at |-> "run", call |-> call, on |-> c,
                 tx |-> IF call = "open" THEN dhTxs' ELSE 0]]
    /\ UNCHANGED <<dhFiles, dhTable, dhActive, dhData>>

\* transaction looks into one table and then into the other.
DhTxLookup(t) ==
    /\ DhAt(t, "idle")
    /\ \E n \in 1..dhTxs, call \in TxCalls :
          /\ dhTable[n] # 0
          /\ dhThread' = [dhThread EXCEPT ![t] =
                [at |-> "found", call |-> call, on |-> dhTable[n], tx |-> n]]
    /\ UNCHANGED <<dhFiles, dhTable, dhTxs, dhActive, dhData>>

DhTxFinds(t) ==
    /\ DhAt(t, "found")
    /\ dhThread' = [dhThread EXCEPT ![t] =
          IF @.on \in dhOpen THEN [@ EXCEPT !.at = "run"] ELSE DhIdle]
    /\ UNCHANGED <<dhFiles, dhTable, dhTxs, dhActive, dhData>>

-----------------------------------------------------------------------------
(* What SQLite does with connection c.                                       *)

\* It gives up what is open; the transaction on record stays on record.
SqlFalls(c) ==
    /\ dhSql[c] /\ dhSql' = [dhSql EXCEPT ![c] = FALSE]
    /\ dhLost' = dhLost \cup dhPending[c] /\ dhPending' = [dhPending EXCEPT ![c] = {}]
    /\ dhFell' = dhFell \cup ({dhActive[c]} \cap DbTxs)
    /\ UNCHANGED <<dhKept, dhCommitted>>

\* A write, which is `whose`, goes to what is open, or is kept at once; or it fails.
SqlWrites(c, whose) ==
    \/ /\ dhPending' = IF dhSql[c] THEN [dhPending EXCEPT ![c] = @ \cup whose]
                       ELSE dhPending
       /\ dhKept' = IF dhSql[c] THEN dhKept ELSE dhKept \cup (whose \cap DbTxs)
       /\ UNCHANGED <<dhSql, dhLost, dhCommitted, dhFell>>
    \/ UNCHANGED dhData
    \/ SqlFalls(c)

SqlBegins(c) ==
    /\ ~dhSql[c] /\ dhSql' = [dhSql EXCEPT ![c] = TRUE]
    /\ UNCHANGED <<dhPending, dhKept, dhLost, dhCommitted, dhFell>>

\* Commits and roll-backs of what is open, by the transaction n.
SqlEnds(c, n, commits) ==
    /\ dhSql[c] /\ dhSql' = [dhSql EXCEPT ![c] = FALSE]
    /\ dhPending' = [dhPending EXCEPT ![c] = {}]
    /\ IF commits THEN dhKept' = dhKept \cup (dhPending[c] \cap DbTxs) /\ UNCHANGED dhLost
       ELSE dhLost' = dhLost \cup dhPending[c] /\ UNCHANGED dhKept
    /\ dhCommitted' = IF commits THEN dhCommitted \cup ({n} \cap DbTxs) ELSE dhCommitted
    /\ UNCHANGED dhFell

-----------------------------------------------------------------------------
(* Calls on a connection, each under its mutex.                              *)
DhRunFrame == UNCHANGED <<dhFiles, dhTable, dhTxs>>

\* Statements without parameters are part of the connection's own transaction,
\* those with parameters wait for its end.
DhExecute(t) ==
    LET c == dhThread[t].on
    IN  /\ DhCalls(t, "execute") /\ DhGo(t, "leave")
        /\ IF dhActive[c] \notin {None, 0} THEN UNCHANGED dhData
           ELSE SqlWrites(c, {})
        /\ UNCHANGED dhActive /\ DhRunFrame

DhExecuteParams(t) ==
    LET c == dhThread[t].on
    IN  /\ DhCalls(t, "execute params") /\ DhGo(t, "leave")
        /\ IF dhActive[c] # None THEN UNCHANGED dhData ELSE SqlWrites(c, {Direct})
        /\ UNCHANGED dhActive /\ DhRunFrame

\* A transaction's number takes effect once SQLite has begun.
DhBegin(t) ==
    LET c == dhThread[t].on
    IN  /\ DhCalls(t, "begin") /\ DhGo(t, "leave")
        /\ \/ /\ dhActive[c] = None /\ SqlBegins(c)
              /\ dhActive' = [dhActive EXCEPT ![c] = 0]
           \/ UNCHANGED <<dhActive, dhData>>
        /\ DhRunFrame

DhTxOpen(t) ==
    LET c == dhThread[t].on
    IN  /\ DhCalls(t, "open")
        /\ \/ /\ dhActive[c] = None /\ SqlBegins(c) /\ DhGo(t, "file")
              /\ dhActive' = [dhActive EXCEPT ![c] = dhThread[t].tx]
           \/ DhGo(t, "leave") /\ UNCHANGED <<dhActive, dhData>>
        /\ DhRunFrame

DhTxExecute(t) ==
    LET c == dhThread[t].on
    IN  /\ DhCalls(t, "tx execute") /\ DhGo(t, "leave")
        /\ IF dhActive[c] # dhThread[t].tx THEN UNCHANGED dhData
           ELSE SqlWrites(c, {dhThread[t].tx})
        /\ UNCHANGED dhActive /\ DhRunFrame

\* Only the transaction that is open can be ended, and it stays if that fails.
DhEnd(t) ==
    LET c == dhThread[t].on
        commits == dhThread[t].call \in {"commit", "tx commit"}
    IN  /\ DhAt(t, "run")
        /\ dhThread[t].call \in {"commit", "rollback", "tx commit", "tx rollback"}
        /\ \/ /\ dhActive[c] = dhThread[t].tx /\ SqlEnds(c, dhThread[t].tx, commits)
              /\ dhActive' = [dhActive EXCEPT ![c] = None]
              /\ DhGo(t, IF dhThread[t].tx = 0 THEN "leave" ELSE "unfile")
           \/ DhGo(t, "leave") /\ UNCHANGED <<dhActive, dhData>>
           \/ /\ dhActive[c] = dhThread[t].tx /\ commits /\ SqlFalls(c)
              /\ DhGo(t, "leave") /\ UNCHANGED dhActive
        /\ DhRunFrame

\* TRANSACTIONS, afterwards.
DhFile(t) ==
    /\ DhAt(t, "file") /\ DhGo(t, "leave")
    /\ dhTable' = [dhTable EXCEPT ![dhThread[t].tx] = dhThread[t].on]
    /\ UNCHANGED <<dhFiles, dhTxs, dhActive, dhData>>

DhUnfile(t) ==
    /\ DhAt(t, "unfile") /\ DhGo(t, "leave")
    /\ dhTable' = [dhTable EXCEPT ![dhThread[t].tx] = 0]
    /\ UNCHANGED <<dhFiles, dhTxs, dhActive, dhData>>

-----------------------------------------------------------------------------
(* Closing.                                                                  *)
DhClose(t) ==
    /\ DhAt(t, "idle")
    /\ \E c \in dhOpen :
          /\ dhOpen' = dhOpen \ {c}
          /\ dhThread' = [dhThread EXCEPT ![t] = [DhIdle EXCEPT !.at = "close", !.on = c]]
    /\ UNCHANGED <<dhMade, dhTable, dhTxs, dhActive, dhData>>

DhRollsBack(t) ==
    LET c == dhThread[t].on
    IN  /\ DhAt(t, "close")
        /\ IF dhSql[c] THEN SqlEnds(c, 0, FALSE) ELSE UNCHANGED dhData
        /\ dhActive' = [dhActive EXCEPT ![c] = None]
        /\ dhThread' = [dhThread EXCEPT ![t] =
              IF dhActive[c] \in {None, 0} THEN [@ EXCEPT !.at = "leave"]
              ELSE [@ EXCEPT !.at = "unfile", !.tx = dhActive[c]]]
        /\ DhRunFrame

\* Whoever has a closed connection last drops it, and SQLite what is open.
DhLeave(t) ==
    LET c == dhThread[t].on
        last == c \notin dhOpen /\ \A u \in Threads \ {t} : ~DhHas(u, c)
    IN  /\ DhAt(t, "leave")
        /\ IF last /\ dhSql[c] THEN SqlEnds(c, 0, FALSE) ELSE UNCHANGED dhData
        /\ dhThread' = [dhThread EXCEPT ![t] = DhIdle]
        /\ UNCHANGED <<dhFiles, dhTable, dhTxs, dhActive>>

-----------------------------------------------------------------------------
DhNext ==
    \E t \in Threads :
        \/ DhConnect(t) \/ DhLookup(t) \/ DhTxLookup(t) \/ DhTxFinds(t)
        \/ DhExecute(t) \/ DhExecuteParams(t) \/ DhBegin(t) \/ DhTxOpen(t)
        \/ DhTxExecute(t) \/ DhEnd(t) \/ DhFile(t) \/ DhUnfile(t)
        \/ DhClose(t) \/ DhRollsBack(t) \/ DhLeave(t)

-----------------------------------------------------------------------------
DhTypes ==
    /\ dhOpen \subseteq Databases /\ dhMade \in 0..MaxConnects
    /\ dhTable \in [DbTxs -> 0..MaxConnects] /\ dhTxs \in 0..MaxDbTxs
    /\ dhActive \in [Databases -> 0..MaxDbTxs \cup {None}]
    /\ dhSql \in [Databases -> BOOLEAN]
    /\ \A c \in Databases : dhPending[c] \subseteq DbTxs \cup {Direct}
    /\ dhKept \cup dhCommitted \cup dhFell \subseteq DbTxs /\ dhLost \subseteq DbTxs \cup {Direct}
    /\ \A t \in Threads :
          /\ dhThread[t].at \in {"idle", "found", "run", "file", "unfile", "close", "leave"}
          /\ dhThread[t].on \in 0..MaxConnects /\ dhThread[t].tx \in 0..MaxDbTxs

\* "Transaction handles are isolated and roll back" (database_ffi.rs:503): what
\* a transaction wrote is kept if it was committed, and only then, whoever else
\* writes, begins, ends or closes; a direct write with parameters is never part
\* of one.  When SQLite has rolled back on its own the handle is still on record
\* (句柄.rs:178), so that its next writes are kept at once, each by itself;
\* a commit is then refused, and the program told.
TransactionsWhole ==
    /\ dhKept \subseteq dhCommitted \cup dhFell
    /\ dhCommitted \cap (dhLost \cup dhFell) = {}
    /\ Direct \notin dhLost

\* "Closing rolls back what is open and voids its handle" (database_ffi.rs:244):
\* on an open connection the transaction that SQLite has open is the one on
\* record, and the one on record is in the table, but for a call in between; a
\* closed one, once everybody has let go of it, has none open.
TransactionsFiled ==
    \A c \in Databases :
        LET between == {n \in DbTxs : \E t \in Threads :
                           dhThread[t].at \in {"file", "unfile"} /\ dhThread[t].tx = n}
        IN  /\ dhSql[c] => dhActive[c] # None
            /\ c \in dhOpen =>
                  \A n \in DbTxs \ between : dhTable[n] = c <=> dhActive[c] = n
            /\ c \notin dhOpen /\ (\A t \in Threads : ~DhHas(t, c)) => ~dhSql[c]
=============================================================================
