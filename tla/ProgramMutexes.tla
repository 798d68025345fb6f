--------------------------- MODULE ProgramMutexes ---------------------------
(* src/src/stdlib/sync_ffi.rs: mutexes with a handle.  The guard of a held  *)
(* mutex is filed under its handle, so that any thread can drop it.         *)
(*                                                                          *)
(* A step is a region under the mutex of one registry, or the acquisition   *)
(* of the program's mutex itself.                                           *)
EXTENDS Callers, Integers, FiniteSets

CONSTANTS MaxMutexes        \* bound: mutexes created

ASSUME MutexAssumption == MaxMutexes \in Nat

Mutexes == 1..MaxMutexes

VARIABLES
    muxMade,        \* mutexes created
    muxOpen,        \* handles in the mutex registry
    muxHeld,        \* mutexes that are locked; the memory is never freed
    muxFiled,       \* handles with a guard in the guard registry
    muxThread       \* of each thread: position and mutex

muxVars == <<muxMade, muxOpen, muxHeld, muxFiled, muxThread>>

MuxInit ==
    /\ muxMade = 0 /\ muxOpen = {} /\ muxHeld = {} /\ muxFiled = {}
    /\ muxThread = [t \in Threads |-> [at |-> "idle", on |-> 0]]

MuxAt(t, p) == muxThread[t].at = p

MuxGo(t, p) == muxThread' = [muxThread EXCEPT ![t].at = p]

MuxCreate(t) ==
    /\ MuxAt(t, "idle") /\ muxMade < MaxMutexes
    /\ muxMade' = muxMade + 1
    /\ muxOpen' = muxOpen \cup {muxMade + 1}
    /\ UNCHANGED <<muxHeld, muxFiled, muxThread>>

\* lock and trylock look the handle up; an unknown one is refused.
MuxLookup(t) ==
    /\ MuxAt(t, "idle")
    /\ \E m \in muxOpen, p \in {"lock", "try lock"} :
          muxThread' = [muxThread EXCEPT ![t] = [at |-> p, on |-> m]]
    /\ UNCHANGED <<muxMade, muxOpen, muxHeld, muxFiled>>

\* The mutex is acquired first ...
MuxAcquire(t) ==
    LET m == muxThread[t].on
    IN  /\ MuxAt(t, "lock") \/ MuxAt(t, "try lock")
        /\ m \notin muxHeld
        /\ muxHeld' = muxHeld \cup {m}
        /\ MuxGo(t, "file")
        /\ UNCHANGED <<muxMade, muxOpen, muxFiled>>

MuxTryFails(t) ==
    /\ MuxAt(t, "try lock") /\ muxThread[t].on \in muxHeld
    /\ MuxGo(t, "idle")
    /\ UNCHANGED <<muxMade, muxOpen, muxHeld, muxFiled>>

\* Wrong variant: a handle destroyed meanwhile is noticed, and its guard lost.
MuxFileIfOpen(t) ==
    LET m == muxThread[t].on
    IN  /\ MuxAt(t, "file")
        /\ muxFiled' = IF m \in muxOpen THEN muxFiled \cup {m} ELSE muxFiled
        /\ MuxGo(t, "idle")
        /\ UNCHANGED <<muxMade, muxOpen, muxHeld>>

\* ... and its guard is filed afterwards; one that is there already would be
\* replaced and dropped, which unlocks.
MuxFile(t) ==
    LET m == muxThread[t].on
    IN  /\ MuxAt(t, "file")
        /\ muxFiled' = muxFiled \cup {m}
        /\ muxHeld' = IF m \in muxFiled THEN muxHeld \ {m} ELSE muxHeld
        /\ MuxGo(t, "idle")
        /\ UNCHANGED <<muxMade, muxOpen>>

\* Any thread may unlock; without a guard that changes nothing.
MuxUnlock(t) ==
    /\ MuxAt(t, "idle")
    /\ \E m \in muxFiled :
          muxFiled' = muxFiled \ {m} /\ muxHeld' = muxHeld \ {m}
    /\ UNCHANGED <<muxMade, muxOpen, muxThread>>

\* destroy drops the guard, if there is one ...
MuxDestroy(t) ==
    /\ MuxAt(t, "idle")
    /\ \E m \in 1..muxMade :
          /\ muxHeld' = IF m \in muxFiled THEN muxHeld \ {m} ELSE muxHeld
          /\ muxFiled' = muxFiled \ {m}
          /\ muxThread' = [muxThread EXCEPT ![t] = [at |-> "destroy", on |-> m]]
    /\ UNCHANGED <<muxMade, muxOpen>>

\* ... and then the registry's entry.
MuxUnregister(t) ==
    /\ MuxAt(t, "destroy")
    /\ muxOpen' = muxOpen \ {muxThread[t].on}
    /\ MuxGo(t, "idle")
    /\ UNCHANGED <<muxMade, muxHeld, muxFiled>>

MuxNext ==
    \E t \in Threads :
        \/ MuxCreate(t) \/ MuxLookup(t) \/ MuxAcquire(t) \/ MuxTryFails(t)
        \/ MuxFile(t) \/ MuxUnlock(t) \/ MuxDestroy(t) \/ MuxUnregister(t)

MuxSpec == MuxInit /\ [][MuxNext]_muxVars

-----------------------------------------------------------------------------
MuxTypes ==
    /\ muxMade \in 0..MaxMutexes
    /\ muxOpen \subseteq Mutexes /\ muxHeld \subseteq Mutexes
    /\ muxFiled \subseteq Mutexes
    /\ muxThread \in [Threads -> [at : {"idle", "lock", "try lock", "file",
                                        "destroy"},
                                  on : 0..MaxMutexes]]

Filing(m) == {t \in Threads : MuxAt(t, "file") /\ muxThread[t].on = m}

\* "Sole ownership, dropped when it leaves the registry" (sync_ffi.rs:27).  A
\* held mutex has one guard, filed or about to be, and a free one has none:
\* locks, unlocks by other threads and a destroy in any order neither let two
\* threads in nor leave a mutex that nobody can unlock.
GuardsAccounted ==
    \A m \in Mutexes :
        /\ m \in muxHeld <=> (m \in muxFiled \/ Filing(m) # {})
        /\ m \in muxFiled => Filing(m) = {}
        /\ \A t, u \in Filing(m) : t = u
=============================================================================
