------------------------------ MODULE Collector ------------------------------
(* src/src/memory/manager.rs and gc.rs: the tracing collector.  Threads of   *)
(* the program allocate, give back and link objects, and any of them, or the *)
(* thread of executor.rs that does nothing else, collects: all of them with  *)
(* the runtime's read lock only, so the steps below interleave.              *)
(*                                                                           *)
(* A step is one operation on one of the shared tables.  The tables' shards, *)
(* sizes and the statistics are left out; every object has one unit.         *)
EXTENDS Callers, Integers, FiniteSets

CONSTANTS
    Addresses,      \* what the allocator can hand out
    MemoryLimit,    \* max_memory_bytes, in objects
    MaxBirths       \* bound: how many objects one thread allocates; two threads
                    \*   one fewer

ASSUME CollectorAssumption ==
    /\ IsFiniteSet(Addresses) /\ None \notin Addresses
    /\ MemoryLimit \in Nat \ {0} /\ MaxBirths \in Nat

VARIABLES
    gcUsers,        \* the threads that use the memory
    gcRaw,          \* addresses the allocator has handed out
    gcAllocs,       \* allocations
    gcRoots,        \* roots
    gcRefs,         \* references
    gcMarked,       \* marked_objects
    gcInUse,        \* in_use_bytes
    gcBorn,         \* how many were allocated
    gcMine,         \* what the program has as its roots
    gcThread        \* of each thread: position, the object it is allocating,
                    \*   the one it is freeing, whether it collects, what is
                    \*   left to mark, and to free

gcTables == <<gcRaw, gcAllocs, gcRoots, gcRefs, gcMarked, gcInUse>>
gcVars == <<gcUsers, gcTables, gcBorn, gcMine, gcThread>>

GcIdle == [at |-> "idle", ptr |-> None, victim |-> None, collects |-> FALSE,
           work |-> {}, doomed |-> {}]

GcInit ==
    /\ gcUsers \in {{t} : t \in Threads} \cup {Threads}
    /\ gcRaw = {} /\ gcAllocs = {} /\ gcRoots = {} /\ gcMarked = {}
    /\ gcRefs = [a \in Addresses |-> {}] /\ gcInUse = 0
    /\ gcBorn = 0 /\ gcMine = {} /\ gcThread = [t \in Threads |-> GcIdle]

GcAt(t, p) == t \in gcUsers /\ gcThread[t].at = p

\* What can be reached from S.
Reached(S) ==
    {a \in Addresses : \A C \in SUBSET Addresses :
        S \subseteq C /\ (\A c \in C : gcRefs[c] \subseteq C) => a \in C}

\* What the program may use: not what it is giving back.
Held == Reached(gcMine) \ {gcThread[t].victim : t \in {u \in Threads : ~gcThread[u].collects}}

-----------------------------------------------------------------------------
(* MemoryManager::allocate.                                                  *)
GcAllocate(t) ==
    /\ GcAt(t, "idle") /\ gcInUse + 1 <= MemoryLimit
    /\ gcBorn + Cardinality(gcUsers) <= MaxBirths
    /\ gcBorn' = gcBorn + 1
    /\ gcThread' = [gcThread EXCEPT ![t].at = "birth"]
    /\ UNCHANGED <<gcUsers, gcTables, gcMine>>

GcBirth(t) ==
    /\ GcAt(t, "birth")
    /\ \E a \in Addresses \ gcRaw :
          /\ gcRaw' = gcRaw \cup {a} /\ gcAllocs' = gcAllocs \cup {a}
          /\ gcThread' = [gcThread EXCEPT ![t].at = "born", ![t].ptr = a]
    /\ UNCHANGED <<gcUsers, gcRoots, gcRefs, gcMarked, gcInUse, gcBorn, gcMine>>

GcRootsBirth(t) ==
    /\ GcAt(t, "born")
    /\ gcRoots' = gcRoots \cup {gcThread[t].ptr}
    /\ gcThread' = [gcThread EXCEPT ![t].at = "rooted"]
    /\ UNCHANGED <<gcUsers, gcRaw, gcAllocs, gcRefs, gcMarked, gcInUse, gcBorn, gcMine>>

\* begin_mark, mark_phase: the marks of another collection go, too.
BeginMark(t, thread) ==
    /\ gcMarked' = {}
    /\ gcThread' = [gcThread EXCEPT ![t] =
          [thread EXCEPT !.at = "mark", !.collects = TRUE, !.work = gcRoots]]

\* More than 95% in use: this thread collects before it returns.
GcCounts(t) ==
    /\ GcAt(t, "rooted")
    /\ gcRefs' = [gcRefs EXCEPT ![gcThread[t].ptr] = {}]
    /\ gcInUse' = gcInUse + 1
    /\ \/ /\ 100 * gcInUse' > 95 * MemoryLimit
          /\ BeginMark(t, gcThread[t]) /\ UNCHANGED gcMine
       \/ /\ 100 * gcInUse' <= 95 * MemoryLimit
          /\ gcMine' = gcMine \cup {gcThread[t].ptr}
          /\ gcThread' = [gcThread EXCEPT ![t] = GcIdle] /\ UNCHANGED gcMarked
    /\ UNCHANGED <<gcUsers, gcRaw, gcAllocs, gcRoots, gcBorn>>

-----------------------------------------------------------------------------
(* deallocate, and the end of a collected object.                            *)
GcDeallocate(t, a) ==
    /\ GcAt(t, "idle") /\ a \in Held
    /\ gcMine' = gcMine \ {a}
    /\ gcThread' = [gcThread EXCEPT ![t].at = "take", ![t].victim = a]
    /\ UNCHANGED <<gcUsers, gcTables, gcBorn>>

Over(thread) == IF thread.collects THEN [thread EXCEPT !.at = "sweep"] ELSE GcIdle

\* Wrong variant: frees what another has taken out of the table.
GcTakeUnchecked(t) ==
    /\ GcAt(t, "take") /\ gcAllocs' = gcAllocs \ {gcThread[t].victim}
    /\ gcThread' = [gcThread EXCEPT ![t].at = "free"]
    /\ UNCHANGED <<gcUsers, gcRaw, gcRoots, gcRefs, gcMarked, gcInUse, gcBorn, gcMine>>

\* Whoever takes the entry out of the table frees the memory.
GcTake(t) ==
    /\ GcAt(t, "take") /\ gcAllocs' = gcAllocs \ {gcThread[t].victim}
    /\ gcThread' = [gcThread EXCEPT ![t] =
          IF @.victim \in gcAllocs THEN [@ EXCEPT !.at = "free"] ELSE Over(@)]
    /\ UNCHANGED <<gcUsers, gcRaw, gcRoots, gcRefs, gcMarked, gcInUse, gcBorn, gcMine>>

GcFrees(t) ==
    /\ GcAt(t, "free") /\ gcRaw' = gcRaw \ {gcThread[t].victim}
    /\ gcThread' = [gcThread EXCEPT ![t].at = "unroot"]
    /\ UNCHANGED <<gcUsers, gcAllocs, gcRoots, gcRefs, gcMarked, gcInUse, gcBorn, gcMine>>

\* forget_object goes by the address.
GcUnroots(t) ==
    /\ GcAt(t, "unroot") /\ gcRoots' = gcRoots \ {gcThread[t].victim}
    /\ gcThread' = [gcThread EXCEPT ![t].at = "unlink"]
    /\ UNCHANGED <<gcUsers, gcRaw, gcAllocs, gcRefs, gcMarked, gcInUse, gcBorn, gcMine>>

\* Wrong variant: references to the object stay.
GcUnlinksOwn(t) ==
    /\ GcAt(t, "unlink") /\ gcInUse' = gcInUse - 1
    /\ gcRefs' = [gcRefs EXCEPT ![gcThread[t].victim] = {}]
    /\ gcThread' = [gcThread EXCEPT ![t] = Over([@ EXCEPT !.victim = None])]
    /\ UNCHANGED <<gcUsers, gcRaw, gcAllocs, gcRoots, gcMarked, gcBorn, gcMine>>

GcUnlinks(t) ==
    /\ GcAt(t, "unlink") /\ gcInUse' = gcInUse - 1
    /\ gcRefs' = [a \in Addresses |->
          IF a = gcThread[t].victim THEN {} ELSE gcRefs[a] \ {gcThread[t].victim}]
    /\ gcThread' = [gcThread EXCEPT ![t] = Over([@ EXCEPT !.victim = None])]
    /\ UNCHANGED <<gcUsers, gcRaw, gcAllocs, gcRoots, gcMarked, gcBorn, gcMine>>

-----------------------------------------------------------------------------
(* trigger_gc.                                                               *)
GcCollect(t) ==
    /\ GcAt(t, "idle") /\ BeginMark(t, gcThread[t])
    /\ UNCHANGED <<gcUsers, gcRaw, gcAllocs, gcRoots, gcRefs, gcInUse, gcBorn, gcMine>>

\* mark_object; the order of the visits is left open.
GcMarks(t) ==
    /\ GcAt(t, "mark")
    /\ \E o \in gcThread[t].work :
          /\ gcMarked' = gcMarked \cup {o}
          /\ gcThread' = [gcThread EXCEPT ![t].work =
                (@ \ {o}) \cup IF o \in gcMarked THEN {} ELSE gcRefs[o]]
    /\ UNCHANGED <<gcUsers, gcRaw, gcAllocs, gcRoots, gcRefs, gcInUse, gcBorn, gcMine>>

GcSelects(t) ==
    /\ GcAt(t, "mark") /\ gcThread[t].work = {}
    /\ gcThread' = [gcThread EXCEPT ![t].at = "sweep",
                                    ![t].doomed = gcAllocs \ (gcMarked \cup gcRoots)]
    /\ UNCHANGED <<gcUsers, gcTables, gcBorn, gcMine>>

GcSweeps(t) ==
    /\ GcAt(t, "sweep")
    /\ \E v \in gcThread[t].doomed :
          gcThread' = [gcThread EXCEPT ![t].at = "take", ![t].victim = v,
                                       ![t].doomed = @ \ {v}]
    /\ UNCHANGED <<gcUsers, gcTables, gcBorn, gcMine>>

GcEnds(t) ==
    /\ GcAt(t, "sweep") /\ gcThread[t].doomed = {}
    /\ gcMine' = gcMine \cup ({gcThread[t].ptr} \ {None})
    /\ gcThread' = [gcThread EXCEPT ![t] = GcIdle]
    /\ UNCHANGED <<gcUsers, gcTables, gcBorn>>

-----------------------------------------------------------------------------
(* What the program tells the collector.                                     *)
GcAddRoot(t, a) ==
    /\ GcAt(t, "idle") /\ a \in Held
    /\ gcRoots' = gcRoots \cup {a} /\ gcMine' = gcMine \cup {a}
    /\ UNCHANGED <<gcUsers, gcRaw, gcAllocs, gcRefs, gcMarked, gcInUse, gcBorn, gcThread>>

GcRemoveRoot(t, a) ==
    /\ GcAt(t, "idle") /\ a \in Held
    /\ gcRoots' = gcRoots \ {a} /\ gcMine' = gcMine \ {a}
    /\ UNCHANGED <<gcUsers, gcRaw, gcAllocs, gcRefs, gcMarked, gcInUse, gcBorn, gcThread>>

GcAddReference(t, a, b) ==
    /\ GcAt(t, "idle") /\ {a, b} \subseteq Held
    /\ gcRefs' = [gcRefs EXCEPT ![a] = @ \cup {b}]
    /\ UNCHANGED <<gcUsers, gcRaw, gcAllocs, gcRoots, gcMarked, gcInUse, gcBorn, gcMine,
                   gcThread>>

GcClearReferences(t, a) ==
    /\ GcAt(t, "idle") /\ a \in Held
    /\ gcRefs' = [gcRefs EXCEPT ![a] = {}]
    /\ UNCHANGED <<gcUsers, gcRaw, gcAllocs, gcRoots, gcMarked, gcInUse, gcBorn, gcMine,
                   gcThread>>

GcNext == \E t \in Threads :
    \/ GcAllocate(t) \/ GcBirth(t) \/ GcRootsBirth(t) \/ GcCounts(t)
    \/ GcTake(t) \/ GcFrees(t) \/ GcUnroots(t) \/ GcUnlinks(t)
    \/ GcCollect(t) \/ GcMarks(t) \/ GcSelects(t) \/ GcSweeps(t) \/ GcEnds(t)
    \/ \E a \in Addresses :
          \/ GcDeallocate(t, a) \/ GcAddRoot(t, a) \/ GcRemoveRoot(t, a)
          \/ GcClearReferences(t, a)
          \/ \E b \in Addresses : GcAddReference(t, a, b)

GcSpec == GcInit /\ [][GcNext]_gcVars

-----------------------------------------------------------------------------
GcTypes ==
    /\ gcUsers \subseteq Threads
    /\ gcRaw \subseteq Addresses /\ gcAllocs \subseteq Addresses
    /\ gcRoots \subseteq Addresses /\ gcMarked \subseteq Addresses
    /\ gcRefs \in [Addresses -> SUBSET Addresses]
    /\ gcInUse \in Int /\ gcBorn \in 0..MaxBirths /\ gcMine \subseteq Addresses
    /\ gcThread \in [Threads ->
          [at : {"idle", "birth", "born", "rooted", "take", "free", "unroot",
                 "unlink", "mark", "sweep"},
           ptr : Addresses \cup {None}, victim : Addresses \cup {None},
           collects : BOOLEAN, work : SUBSET Addresses, doomed : SUBSET Addresses]]

\* "Every pointer is really freed once only" (manager.rs:156), whoever collects
\* and gives back at the same time: memory about to be freed is allocated, out
\* of the table, and in nobody else's hands.
FreedOnce ==
    /\ gcAllocs \subseteq gcRaw
    /\ \A t \in Threads : gcThread[t].at = "free" =>
          /\ gcThread[t].victim \in gcRaw \ gcAllocs
          /\ \A u \in Threads \ {t} :
                gcThread[u].at = "free" => gcThread[u].victim # gcThread[t].victim

\* One thread that uses the memory alone (manager.rs:158): a collection leaves
\* what can be reached from the roots, cycles notwithstanding, and nothing else;
\* between its calls nothing reachable is missing, and usage is what there is.
CollectsExactly ==
    \A t \in Threads : gcUsers = {t} =>
        /\ GcAt(t, "sweep") /\ gcThread[t].doomed = {} =>
              gcAllocs = Reached(gcRoots)
        /\ GcAt(t, "idle") =>
              /\ gcRoots = gcMine /\ Reached(gcRoots) \subseteq gcAllocs
              /\ gcInUse = Cardinality(gcAllocs)

\* "An object that comes into being after the marking is born a root and is not
\* collected by mistake" (manager.rs:163): the program's roots are there.
RootsSurvive == gcMine \subseteq gcAllocs
=============================================================================
