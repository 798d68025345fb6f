----------------------------- MODULE StoreProofs -----------------------------
(* What is kept and given back.  Memory: the collector frees no object twice *)
(* and just what cannot be reached, and the counted arrays are freed once    *)
(* and never while held.  Databases: connections go back to the pool without *)
(* a transaction and none is lost, and on a handle with one connection       *)
(* transactions are whole and on file.  For any number of threads,           *)
(* addresses, arrays, elements, connections and transactions.                *)
EXTENDS Collector, RcArrays, DbPool, DbHandles, FiniteSetTheorems, SequenceTheorems,
        TLAPS

-----------------------------------------------------------------------------
(* The collector and the counted arrays.                                     *)
GcPositions == {"idle", "birth", "born", "rooted", "take", "free", "unroot",
              "unlink", "mark", "sweep"}

GcRecords ==
    [at : GcPositions, ptr : Addresses \cup {None}, victim : Addresses \cup {None},
     collects : BOOLEAN, work : SUBSET Addresses, doomed : SUBSET Addresses]

\* Who is to root an object has one.
GcExpects(thread) == thread.at \in {"born", "rooted"} => thread.ptr \in Addresses

\* What the tables and the threads are; the counters do not matter here.
GcTablesTyped ==
    /\ gcAllocs \subseteq Addresses /\ gcRoots \subseteq Addresses
    /\ gcRefs \in [Addresses -> SUBSET Addresses]

GcShapes ==
    /\ GcTablesTyped
    /\ gcThread \in [Threads -> GcRecords]
    /\ \A t \in Threads : GcExpects(gcThread[t])

\* t goes on as the given record says.
GcBecomes(t, thread) ==
    /\ thread \in GcRecords /\ GcExpects(thread)
    /\ gcThread' = [gcThread EXCEPT ![t] = thread]

-----------------------------------------------------------------------------
(* GcShapes.                                                                   *)

LEMMA AllGcPositions ==
    \A p \in {"idle", "birth", "born", "rooted", "take", "free", "unroot",
              "unlink", "mark", "sweep"} : p \in GcPositions
<1> QED BY DEF GcPositions

LEMMA GcIdleRecord == GcIdle \in GcRecords /\ GcExpects(GcIdle)
<1> QED BY AllGcPositions DEF GcIdle, GcRecords, GcExpects

LEMMA GcNewPosition ==
    ASSUME NEW thread \in GcRecords, NEW p \in GcPositions,
           p \notin {"born", "rooted"} \/ thread.ptr \in Addresses
    PROVE  /\ [thread EXCEPT !.at = p] \in GcRecords
           /\ GcExpects([thread EXCEPT !.at = p])
<1> QED BY DEF GcRecords, GcExpects

LEMMA OverRecord ==
    ASSUME NEW thread \in GcRecords
    PROVE  Over(thread) \in GcRecords /\ GcExpects(Over(thread))
<1> QED BY GcIdleRecord, GcNewPosition, AllGcPositions DEF Over

LEMMA BeginRecord ==
    ASSUME NEW thread \in GcRecords, gcRoots \subseteq Addresses
    PROVE  LET new == [thread EXCEPT !.at = "mark", !.collects = TRUE,
                                     !.work = gcRoots]
           IN  new \in GcRecords /\ GcExpects(new)
<1> QED BY AllGcPositions DEF GcRecords, GcExpects

LEMMA BecomesKeepsGcShapes ==
    ASSUME GcShapes, GcTablesTyped', NEW t \in Threads, NEW thread, GcBecomes(t, thread)
    PROVE  GcShapes'
<1> QED BY DEF GcShapes, GcBecomes

LEMMA GcOwnRecord ==
    ASSUME GcShapes, NEW t \in Threads
    PROVE  /\ gcThread[t] \in GcRecords /\ GcExpects(gcThread[t])
           /\ \A p, q : [gcThread EXCEPT ![t].at = p]
                 = [gcThread EXCEPT ![t] = [gcThread[t] EXCEPT !.at = p]]
<1> QED BY DEF GcShapes

THEOREM InitGcShapes == GcInit => GcShapes
<1> QED BY GcIdleRecord DEF GcInit, GcShapes, GcTablesTyped
\* Every step leaves the shapes: one step per action.
THEOREM GcShapesKept == GcShapes /\ [GcNext]_gcVars => GcShapes'
<1> SUFFICES ASSUME GcShapes, [GcNext]_gcVars PROVE GcShapes'
  OBVIOUS
<1>0. CASE UNCHANGED gcVars
  BY <1>0 DEF GcShapes, GcTablesTyped, gcVars, gcTables
<1>1. ASSUME NEW t \in Threads, GcAllocate(t) PROVE GcShapes'
  <2>1. GcBecomes(t, [gcThread[t] EXCEPT !.at = "birth"])
    BY <1>1, GcOwnRecord, GcNewPosition, AllGcPositions DEF GcAllocate, GcBecomes, GcExpects
  <2>2. GcTablesTyped'
    BY <1>1 DEF GcAllocate, GcShapes, GcTablesTyped, gcTables
  <2> QED BY <2>1, <2>2, BecomesKeepsGcShapes
<1>2. ASSUME NEW t \in Threads, GcBirth(t) PROVE GcShapes'
  <2>1. PICK a \in Addresses \ gcRaw :
           /\ gcAllocs' = gcAllocs \cup {a}
           /\ gcThread' = [gcThread EXCEPT ![t].at = "born", ![t].ptr = a]
    BY <1>2 DEF GcBirth
  <2>2. GcBecomes(t, [gcThread[t] EXCEPT !.at = "born", !.ptr = a])
    BY <2>1, GcOwnRecord, AllGcPositions DEF GcBecomes, GcExpects, GcRecords, GcShapes
  <2>3. GcTablesTyped'
    BY <1>2, <2>1 DEF GcBirth, GcShapes, GcTablesTyped
  <2> QED BY <2>2, <2>3, BecomesKeepsGcShapes
<1>3. ASSUME NEW t \in Threads, GcRootsBirth(t) PROVE GcShapes'
  <2>1. gcThread[t].ptr \in Addresses
    BY <1>3, GcOwnRecord DEF GcRootsBirth, GcAt, GcExpects
  <2>2. GcBecomes(t, [gcThread[t] EXCEPT !.at = "rooted"])
    BY <1>3, <2>1, GcOwnRecord, GcNewPosition, AllGcPositions DEF GcRootsBirth, GcBecomes
  <2>3. GcTablesTyped'
    BY <1>3, <2>1 DEF GcRootsBirth, GcShapes, GcTablesTyped
  <2> QED BY <2>2, <2>3, BecomesKeepsGcShapes
<1>4. ASSUME NEW t \in Threads, GcCounts(t) PROVE GcShapes'
  <2>1. GcTablesTyped'
    BY <1>4 DEF GcCounts, GcShapes, GcTablesTyped
  <2>2. CASE BeginMark(t, gcThread[t])
    BY <2>1, <2>2, GcOwnRecord, BeginRecord, BecomesKeepsGcShapes
       DEF BeginMark, GcBecomes, GcShapes, GcTablesTyped
  <2>3. CASE gcThread' = [gcThread EXCEPT ![t] = GcIdle]
    BY <2>1, <2>3, GcIdleRecord, BecomesKeepsGcShapes DEF GcBecomes
  <2> QED BY <1>4, <2>2, <2>3 DEF GcCounts
<1>5. ASSUME NEW t \in Threads, GcTake(t) PROVE GcShapes'
  <2>1. GcTablesTyped'
    BY <1>5 DEF GcTake, GcShapes, GcTablesTyped
  <2>2. CASE gcThread[t].victim \in gcAllocs
    <3>1. GcBecomes(t, [gcThread[t] EXCEPT !.at = "free"])
      BY <1>5, <2>2, GcOwnRecord, GcNewPosition, AllGcPositions DEF GcTake, GcBecomes
    <3> QED BY <2>1, <3>1, BecomesKeepsGcShapes
  <2>3. CASE gcThread[t].victim \notin gcAllocs
    <3>1. GcBecomes(t, Over(gcThread[t]))
      BY <1>5, <2>3, GcOwnRecord, OverRecord DEF GcTake, GcBecomes
    <3> QED BY <2>1, <3>1, BecomesKeepsGcShapes
  <2> QED BY <2>2, <2>3
<1>6. ASSUME NEW t \in Threads, GcFrees(t) PROVE GcShapes'
  <2>1. GcBecomes(t, [gcThread[t] EXCEPT !.at = "unroot"])
    BY <1>6, GcOwnRecord, GcNewPosition, AllGcPositions DEF GcFrees, GcBecomes, GcExpects
  <2>2. GcTablesTyped'
    BY <1>6 DEF GcFrees, GcShapes, GcTablesTyped, gcTables
  <2> QED BY <2>1, <2>2, BecomesKeepsGcShapes
<1>7. ASSUME NEW t \in Threads, GcUnroots(t) PROVE GcShapes'
  <2>1. GcBecomes(t, [gcThread[t] EXCEPT !.at = "unlink"])
    BY <1>7, GcOwnRecord, GcNewPosition, AllGcPositions DEF GcUnroots, GcBecomes, GcExpects
  <2>2. GcTablesTyped'
    BY <1>7 DEF GcUnroots, GcShapes, GcTablesTyped, gcTables
  <2> QED BY <2>1, <2>2, BecomesKeepsGcShapes
<1>8. ASSUME NEW t \in Threads, GcUnlinks(t) PROVE GcShapes'
  <2> DEFINE left == [gcThread[t] EXCEPT !.victim = None]
  <2>1. left \in GcRecords
    BY GcOwnRecord DEF GcRecords
  <2> HIDE DEF left
  <2>2. gcThread' = [gcThread EXCEPT ![t] = Over(left)]
    BY <1>8 DEF GcUnlinks, left
  <2>3. GcTablesTyped'
    BY <1>8 DEF GcUnlinks, GcShapes, GcTablesTyped
  <2> QED BY <2>1, <2>2, <2>3, OverRecord, BecomesKeepsGcShapes DEF GcBecomes
<1>9. ASSUME NEW t \in Threads, GcCollect(t) PROVE GcShapes'
  <2>1. GcTablesTyped'
    BY <1>9 DEF GcCollect, GcShapes, GcTablesTyped
  <2> QED BY <1>9, <2>1, GcOwnRecord, BeginRecord, BecomesKeepsGcShapes
          DEF GcCollect, BeginMark, GcBecomes, GcShapes, GcTablesTyped
<1>10. ASSUME NEW t \in Threads, GcMarks(t) PROVE GcShapes'
  <2>1. PICK o \in gcThread[t].work :
           gcThread' = [gcThread EXCEPT ![t].work =
              (@ \ {o}) \cup IF o \in gcMarked THEN {} ELSE gcRefs[o]]
    BY <1>10 DEF GcMarks
  <2> DEFINE more == (gcThread[t].work \ {o})
                        \cup IF o \in gcMarked THEN {} ELSE gcRefs[o]
  <2>2. more \subseteq Addresses
    BY GcOwnRecord DEF GcShapes, GcTablesTyped, GcRecords
  <2>3. gcThread' = [gcThread EXCEPT ![t] = [gcThread[t] EXCEPT !.work = more]]
    BY <2>1
  <2> HIDE DEF more
  <2>4. GcBecomes(t, [gcThread[t] EXCEPT !.work = more])
    BY <2>2, <2>3, GcOwnRecord DEF GcBecomes, GcRecords, GcExpects
  <2>5. GcTablesTyped'
    BY <1>10 DEF GcMarks, GcShapes, GcTablesTyped
  <2> QED BY <2>4, <2>5, BecomesKeepsGcShapes
<1>11. ASSUME NEW t \in Threads, GcSelects(t) PROVE GcShapes'
  <2> DEFINE found == gcAllocs \ (gcMarked \cup gcRoots)
  <2>1. found \subseteq Addresses
    BY DEF GcShapes, GcTablesTyped
  <2>2. gcThread' = [gcThread EXCEPT ![t] =
                        [gcThread[t] EXCEPT !.at = "sweep", !.doomed = found]]
    BY <1>11 DEF GcSelects
  <2> HIDE DEF found
  <2>3. GcBecomes(t, [gcThread[t] EXCEPT !.at = "sweep", !.doomed = found])
    BY <2>1, <2>2, GcOwnRecord, AllGcPositions DEF GcBecomes, GcRecords, GcExpects
  <2>4. GcTablesTyped'
    BY <1>11 DEF GcSelects, GcShapes, GcTablesTyped, gcTables
  <2> QED BY <2>3, <2>4, BecomesKeepsGcShapes
<1>12. ASSUME NEW t \in Threads, GcSweeps(t) PROVE GcShapes'
  <2>1. PICK v \in gcThread[t].doomed :
           gcThread' = [gcThread EXCEPT ![t].at = "take", ![t].victim = v,
                                        ![t].doomed = @ \ {v}]
    BY <1>12 DEF GcSweeps
  <2>2. GcBecomes(t, [gcThread[t] EXCEPT !.at = "take", !.victim = v,
                                       !.doomed = @ \ {v}])
    BY <2>1, GcOwnRecord, AllGcPositions DEF GcBecomes, GcRecords, GcExpects, GcShapes
  <2>3. GcTablesTyped'
    BY <1>12 DEF GcSweeps, GcShapes, GcTablesTyped, gcTables
  <2> QED BY <2>2, <2>3, BecomesKeepsGcShapes
<1>13. ASSUME NEW t \in Threads, GcEnds(t) PROVE GcShapes'
  <2>1. GcTablesTyped'
    BY <1>13 DEF GcEnds, GcShapes, GcTablesTyped, gcTables
  <2> QED BY <1>13, <2>1, GcIdleRecord, BecomesKeepsGcShapes DEF GcEnds, GcBecomes
<1>14. ASSUME NEW t \in Threads, NEW a \in Addresses, GcDeallocate(t, a)
       PROVE  GcShapes'
  <2>1. GcBecomes(t, [gcThread[t] EXCEPT !.at = "take", !.victim = a])
    BY <1>14, GcOwnRecord, AllGcPositions
       DEF GcDeallocate, GcBecomes, GcRecords, GcExpects, GcShapes
  <2>2. GcTablesTyped'
    BY <1>14 DEF GcDeallocate, GcShapes, GcTablesTyped, gcTables
  <2> QED BY <2>1, <2>2, BecomesKeepsGcShapes
<1>15. ASSUME NEW t \in Threads, NEW a \in Addresses,
              GcAddRoot(t, a) \/ GcRemoveRoot(t, a) \/ GcClearReferences(t, a)
       PROVE  GcShapes'
  BY <1>15 DEF GcAddRoot, GcRemoveRoot, GcClearReferences, GcShapes, GcTablesTyped
<1>16. ASSUME NEW t \in Threads, NEW a \in Addresses, NEW b \in Addresses,
              GcAddReference(t, a, b)
       PROVE  GcShapes'
  BY <1>16 DEF GcAddReference, GcShapes, GcTablesTyped
<1> QED
  BY <1>0, <1>1, <1>2, <1>3, <1>4, <1>5, <1>6, <1>7, <1>8, <1>9, <1>10, <1>11,
     <1>12, <1>13, <1>14, <1>15, <1>16 DEF GcNext
-----------------------------------------------------------------------------
(* FreedOnce.                                                                *)

\* t does something else than to begin to free, and takes nothing out of use.
GcQuiet(t) ==
    /\ gcThread' \in [Threads -> GcRecords]
    /\ gcThread'[t].at # "free"
    /\ \A u \in Threads \ {t} : gcThread'[u] = gcThread[u]
    /\ gcRaw' = gcRaw /\ gcAllocs' = gcAllocs

LEMMA OverIsGcQuiet == \A thread : Over(thread).at # "free"
<1> QED BY DEF Over, GcIdle

LEMMA FreesNothing ==
    ASSUME FreedOnce, NEW t \in Threads, GcQuiet(t)
    PROVE  FreedOnce'
<1> QED BY DEF FreedOnce, GcQuiet

THEOREM InitFreedOnce == GcInit => FreedOnce
<1> QED BY DEF GcInit, FreedOnce, GcIdle

\* Three steps matter: an object comes into being at an address nobody has, an
\* entry is taken by one thread, and that thread gives the memory back.
THEOREM FreedOnceKept == GcShapes /\ FreedOnce /\ [GcNext]_gcVars => FreedOnce'
<1> SUFFICES ASSUME GcShapes, FreedOnce, [GcNext]_gcVars PROVE FreedOnce'
  OBVIOUS
<1>0. gcThread \in [Threads -> GcRecords] /\ gcThread' \in [Threads -> GcRecords]
  BY GcShapesKept DEF GcShapes
<1>1. CASE UNCHANGED gcVars
  BY <1>1 DEF FreedOnce, gcVars, gcTables
<1>2. ASSUME NEW t \in Threads,
             \/ GcAllocate(t) \/ GcRootsBirth(t) \/ GcUnroots(t)
             \/ GcMarks(t) \/ GcSelects(t) \/ GcSweeps(t) \/ GcEnds(t)
      PROVE  FreedOnce'
  <2>1. CASE GcAllocate(t) \/ GcRootsBirth(t) \/ GcUnroots(t)
    <3>1. GcQuiet(t)
      BY <1>0, <2>1 DEF GcAllocate, GcRootsBirth, GcUnroots, GcQuiet, gcTables, GcRecords
    <3> QED BY <3>1, FreesNothing
  <2>2. CASE GcMarks(t)
    <3>1. PICK o \in gcThread[t].work :
             gcThread' = [gcThread EXCEPT ![t].work =
                (@ \ {o}) \cup IF o \in gcMarked THEN {} ELSE gcRefs[o]]
      BY <2>2 DEF GcMarks
    <3>2. /\ gcThread'[t].at = gcThread[t].at
          /\ \A u \in Threads \ {t} : gcThread'[u] = gcThread[u]
      BY <1>0, <3>1 DEF GcRecords
    <3>3. GcQuiet(t)
      BY <1>0, <2>2, <3>2 DEF GcMarks, GcAt, GcQuiet
    <3> QED BY <3>3, FreesNothing
  <2>3. CASE GcSelects(t)
    <3> DEFINE found == gcAllocs \ (gcMarked \cup gcRoots)
    <3>2. gcThread' = [gcThread EXCEPT ![t].at = "sweep", ![t].doomed = found]
      BY <2>3 DEF GcSelects
    <3>3. gcRaw' = gcRaw /\ gcAllocs' = gcAllocs
      BY <2>3 DEF GcSelects, gcTables
    <3> HIDE DEF found
    <3>1. GcQuiet(t)
      BY <1>0, <3>2, <3>3 DEF GcQuiet, GcRecords
    <3> QED BY <3>1, FreesNothing
  <2>4. CASE GcSweeps(t)
    <3>1. PICK v \in gcThread[t].doomed :
             gcThread' = [gcThread EXCEPT ![t].at = "take", ![t].victim = v,
                                          ![t].doomed = @ \ {v}]
      BY <2>4 DEF GcSweeps
    <3>2. /\ gcThread'[t].at = "take"
          /\ \A u \in Threads \ {t} : gcThread'[u] = gcThread[u]
      BY <1>0, <3>1 DEF GcRecords
    <3>3. GcQuiet(t)
      BY <1>0, <2>4, <3>2 DEF GcSweeps, GcQuiet, gcTables
    <3> QED BY <3>3, FreesNothing
  <2>5. CASE GcEnds(t)
    <3>1. GcQuiet(t)
      BY <1>0, <2>5 DEF GcEnds, GcIdle, GcQuiet, gcTables
    <3> QED BY <3>1, FreesNothing
  <2> QED BY <1>2, <2>1, <2>2, <2>3, <2>4, <2>5
<1>3. ASSUME NEW t \in Threads, GcCounts(t) \/ GcCollect(t) PROVE FreedOnce'
  <2>1. gcRaw' = gcRaw /\ gcAllocs' = gcAllocs
    BY <1>3 DEF GcCounts, GcCollect
  <2>2. CASE BeginMark(t, gcThread[t])
    <3>1. GcQuiet(t)
      BY <1>0, <2>1, <2>2 DEF BeginMark, GcQuiet, GcRecords
    <3> QED BY <3>1, FreesNothing
  <2>3. CASE gcThread' = [gcThread EXCEPT ![t] = GcIdle]
    <3>1. GcQuiet(t)
      BY <1>0, <2>1, <2>3 DEF GcIdle, GcQuiet
    <3> QED BY <3>1, FreesNothing
  <2> QED BY <1>3, <2>2, <2>3 DEF GcCounts, GcCollect
<1>4. ASSUME NEW t \in Threads, GcUnlinks(t) PROVE FreedOnce'
  <2>1. GcQuiet(t)
    BY <1>0, <1>4, OverIsGcQuiet DEF GcUnlinks, GcQuiet
  <2> QED BY <2>1, FreesNothing
<1>5. ASSUME NEW t \in Threads, GcBirth(t) PROVE FreedOnce'
  <2>1. PICK a \in Addresses \ gcRaw :
           /\ gcRaw' = gcRaw \cup {a} /\ gcAllocs' = gcAllocs \cup {a}
           /\ gcThread' = [gcThread EXCEPT ![t].at = "born", ![t].ptr = a]
    BY <1>5 DEF GcBirth
  <2>2. /\ gcThread'[t].at = "born"
        /\ \A u \in Threads \ {t} : gcThread'[u] = gcThread[u]
    BY <1>0, <2>1 DEF GcRecords
  <2>3. /\ gcAllocs' \subseteq gcRaw'
        /\ \A v \in gcRaw \ gcAllocs : v \in gcRaw' \ gcAllocs'
    BY <2>1 DEF FreedOnce
  <2>4. ASSUME NEW v \in Threads, gcThread'[v].at = "free"
        PROVE  gcThread'[v] = gcThread[v] /\ gcThread[v].at = "free"
    BY <2>2, <2>4
  <2>5. ASSUME NEW v \in Threads, gcThread'[v].at = "free"
        PROVE  /\ gcThread'[v].victim \in gcRaw' \ gcAllocs'
               /\ \A u \in Threads \ {v} :
                     gcThread'[u].at = "free" => gcThread'[u].victim # gcThread'[v].victim
    BY <2>3, <2>4, <2>5 DEF FreedOnce
  <2> QED BY <2>3, <2>5 DEF FreedOnce
<1>6. ASSUME NEW t \in Threads, GcTake(t) PROVE FreedOnce'
  <2>1. CASE gcThread[t].victim \in gcAllocs
    <3>1. /\ gcThread'[t].victim = gcThread[t].victim
          /\ \A u \in Threads \ {t} : gcThread'[u] = gcThread[u]
          /\ gcRaw' = gcRaw /\ gcAllocs' = gcAllocs \ {gcThread[t].victim}
      BY <1>0, <1>6, <2>1 DEF GcTake, GcRecords
    <3>2. \A u \in Threads \ {t} :
             gcThread[u].at = "free" => gcThread[u].victim # gcThread[t].victim
      BY <2>1 DEF FreedOnce
    <3> QED BY <2>1, <3>1, <3>2 DEF FreedOnce
  <2>2. CASE gcThread[t].victim \notin gcAllocs
    <3>1. GcQuiet(t)
      BY <1>0, <1>6, <2>2, OverIsGcQuiet DEF GcTake, GcQuiet
    <3> QED BY <3>1, FreesNothing
  <2> QED BY <2>1, <2>2
<1>7. ASSUME NEW t \in Threads, GcFrees(t) PROVE FreedOnce'
  <2>1. /\ gcThread[t].at = "free" /\ gcThread'[t].at = "unroot"
        /\ \A u \in Threads \ {t} : gcThread'[u] = gcThread[u]
        /\ gcRaw' = gcRaw \ {gcThread[t].victim} /\ gcAllocs' = gcAllocs
    BY <1>0, <1>7 DEF GcFrees, GcAt, GcRecords
  <2> QED BY <2>1 DEF FreedOnce
<1>8. ASSUME NEW t \in Threads, NEW a \in Addresses, GcDeallocate(t, a)
      PROVE  FreedOnce'
  <2>1. GcQuiet(t)
    BY <1>0, <1>8 DEF GcDeallocate, GcQuiet, gcTables, GcRecords
  <2> QED BY <2>1, FreesNothing
<1>9. ASSUME NEW t \in Threads, NEW a \in Addresses, NEW b \in Addresses,
             \/ GcAddRoot(t, a) \/ GcRemoveRoot(t, a)
             \/ GcClearReferences(t, a) \/ GcAddReference(t, a, b)
      PROVE  FreedOnce'
  BY <1>9 DEF GcAddRoot, GcRemoveRoot, GcClearReferences, GcAddReference, FreedOnce
<1> QED
  BY <1>1, <1>2, <1>3, <1>4, <1>5, <1>6, <1>7, <1>8, <1>9 DEF GcNext

-----------------------------------------------------------------------------
\* "Every pointer is really freed once only" (manager.rs:156): in all
\* interleavings of allocations, deallocations and collections, memory that is
\* about to be freed is allocated, out of the table, and one thread's alone.
THEOREM MemoryFreedOnce == GcSpec => []FreedOnce
<1>1. GcInit => GcShapes /\ FreedOnce
  BY InitGcShapes, InitFreedOnce
<1>2. (GcShapes /\ FreedOnce) /\ [GcNext]_gcVars => (GcShapes /\ FreedOnce)'
  BY GcShapesKept, FreedOnceKept
<1> QED BY <1>1, <1>2, PTL DEF GcSpec

-----------------------------------------------------------------------------
(* CollectsExactly.                                                          *)

\* Reached, as a function of the references.
ReachedBy(refs, S) ==
    {a \in Addresses : \A C \in SUBSET Addresses :
        S \subseteq C /\ (\A c \in C : refs[c] \subseteq C) => a \in C}

Live == ReachedBy(gcRefs, gcRoots)

LEMMA ReachesItself ==
    ASSUME NEW refs, NEW S, S \subseteq Addresses
    PROVE  S \subseteq ReachedBy(refs, S) /\ ReachedBy(refs, S) \subseteq Addresses
<1> QED BY DEF ReachedBy

LEMMA ReachesOn ==
    ASSUME NEW refs \in [Addresses -> SUBSET Addresses], NEW S,
           NEW c \in ReachedBy(refs, S)
    PROVE  refs[c] \subseteq ReachedBy(refs, S)
<1> SUFFICES ASSUME NEW d \in refs[c], NEW C \in SUBSET Addresses,
                    S \subseteq C, \A e \in C : refs[e] \subseteq C
             PROVE  d \in C
  BY DEF ReachedBy
<1>1. c \in C
  BY DEF ReachedBy
<1> QED BY <1>1

LEMMA ReachesNoMore ==
    ASSUME NEW refs, NEW S, NEW C \in SUBSET Addresses,
           S \subseteq C, \A c \in C : refs[c] \subseteq C
    PROVE  ReachedBy(refs, S) \subseteq C
<1> QED BY DEF ReachedBy

\* What is not reached can be unlinked.
LEMMA ReachesAfterUnlink ==
    ASSUME NEW refs \in [Addresses -> SUBSET Addresses], NEW S, S \subseteq Addresses,
           NEW v, v \notin ReachedBy(refs, S),
           NEW new, new = [a \in Addresses |-> IF a = v THEN {} ELSE refs[a] \ {v}]
    PROVE  ReachedBy(new, S) = ReachedBy(refs, S)
<1> DEFINE R == ReachedBy(refs, S)
<1>1. S \subseteq R /\ R \subseteq Addresses /\ \A c \in R : refs[c] \subseteq R
  BY ReachesItself, ReachesOn
<1>2. \A c \in Addresses : new[c] \subseteq refs[c]
  OBVIOUS
<1>3. \A c \in R : new[c] = refs[c]
  BY <1>1
<1> HIDE DEF R
<1>4. ReachedBy(new, S) \subseteq R
  <2>1. \A c \in R : new[c] \subseteq R
    BY <1>1, <1>3
  <2> QED BY <1>1, <2>1, ReachesNoMore
<1>5. R \subseteq ReachedBy(new, S)
  <2> SUFFICES ASSUME NEW r \in R, NEW C \in SUBSET Addresses,
                      S \subseteq C, \A c \in C : new[c] \subseteq C
               PROVE  r \in C
    BY <1>1 DEF ReachedBy
  <2>1. /\ C \cap R \in SUBSET Addresses /\ S \subseteq C \cap R
        /\ \A c \in C \cap R : refs[c] \subseteq C \cap R
    BY <1>1, <1>3
  <2>2. ReachedBy(refs, S) \subseteq C \cap R
    BY <2>1, ReachesNoMore
  <2> QED BY <2>2 DEF R
<1> QED BY <1>4, <1>5 DEF R

-----------------------------------------------------------------------------
(* One thread that uses the memory alone.                                    *)
GcFreeing == {"take", "free", "unroot", "unlink"}

\* What t is about to return is rooted, and not yet the program's.
Returning(t) ==
    IF gcThread[t].at \in {"rooted", "mark", "sweep"} \cup GcFreeing
    THEN {gcThread[t].ptr} \ {None} ELSE {}

\* The object that has left the table and is still linked.
Leaving(t) == IF gcThread[t].at \in {"free", "unroot", "unlink"}
              THEN {gcThread[t].victim} ELSE {}

Occupied(t) ==
    /\ gcThread[t].collects => gcThread[t].at \in {"mark", "sweep"} \cup GcFreeing
    /\ gcThread[t].at \in {"mark", "sweep"} => gcThread[t].collects
    /\ ~gcThread[t].collects /\ gcThread[t].at \notin {"born", "rooted"} =>
          gcThread[t].ptr = None
    /\ gcThread[t].at = "born" => gcThread[t].ptr \in gcAllocs
    /\ gcThread[t].at \in GcFreeing => gcThread[t].victim \in Addresses
    /\ gcThread[t].at = "take" => gcThread[t].victim \in gcAllocs

\* Roots are the program's, but for the object that is being freed.
Rooted(t) ==
    /\ gcMine \cup Returning(t) \subseteq gcAllocs
    /\ gcThread[t].at \notin GcFreeing => gcRoots = gcMine \cup Returning(t)
    /\ gcThread[t].at \in GcFreeing =>
          /\ gcThread[t].victim \notin gcMine \cup Returning(t)
          /\ gcRoots \ {gcThread[t].victim} = gcMine \cup Returning(t)
    /\ gcThread[t].at = "unlink" => gcThread[t].victim \notin gcRoots

\* References lead to allocated objects.
Linked(t) ==
    /\ gcMine \subseteq Addresses
    /\ \A a \in Addresses : gcRefs[a] \subseteq gcAllocs \cup Leaving(t)
    /\ Leaving(t) \cap gcAllocs = {}

Counted(t) ==
    gcInUse = Cardinality(gcAllocs)
              + IF gcThread[t].at \in {"born", "rooted"} THEN 0 - 1
                ELSE IF gcThread[t].at \in {"free", "unroot", "unlink"} THEN 1 ELSE 0

\* The marks are on the way from the roots.
Marking(t) ==
    gcThread[t].at = "mark" =>
        /\ gcRoots \subseteq gcMarked \cup gcThread[t].work
        /\ gcMarked \cup gcThread[t].work \subseteq Live
        /\ \A m \in gcMarked : gcRefs[m] \subseteq gcMarked \cup gcThread[t].work

\* What is allocated is live, or doomed.
Sweeping(t) ==
    gcThread[t].collects /\ gcThread[t].at # "mark" =>
        /\ gcThread[t].doomed \cap Live = {}
        /\ gcAllocs = Live \cup gcThread[t].doomed
                      \cup IF gcThread[t].at = "take" THEN {gcThread[t].victim} ELSE {}
        /\ gcThread[t].at \in GcFreeing =>
              gcThread[t].victim \notin Live \cup gcThread[t].doomed

Alone(t) == Occupied(t) /\ Rooted(t) /\ Linked(t) /\ Counted(t) /\ Marking(t) /\ Sweeping(t)

AloneInv == \A t \in Threads : gcUsers = {t} => Alone(t)

-----------------------------------------------------------------------------
\* What t may hold is what is allocated.
LEMMA HeldAllocated ==
    ASSUME GcShapes, NEW t \in Threads, Rooted(t), Linked(t), gcThread[t].at = "idle",
           ~gcThread[t].collects, gcThread[t].ptr = None
    PROVE  Held \subseteq gcAllocs /\ gcRoots = gcMine /\ Live \subseteq gcAllocs
<1>1. Reached(gcMine) = ReachedBy(gcRefs, gcMine)
  BY DEF Reached, ReachedBy
<1>2. gcAllocs \in SUBSET Addresses /\ gcMine \subseteq gcAllocs
  BY DEF Rooted, GcShapes, GcTablesTyped
<1>3. \A a \in Addresses : gcRefs[a] \subseteq gcAllocs
  BY DEF Linked, Leaving
<1>4. ReachedBy(gcRefs, gcMine) \subseteq gcAllocs
  BY <1>2, <1>3, ReachesNoMore
<1>5. gcRoots = gcMine
  BY DEF Rooted, GcFreeing, Returning
<1> QED BY <1>1, <1>4, <1>5 DEF Held, Live

LEMMA LiveAllocated ==
    ASSUME GcShapes, NEW t \in Threads, Rooted(t), Linked(t),
           gcThread[t].at \notin GcFreeing
    PROVE  Live \subseteq gcAllocs
<1>2. gcAllocs \in SUBSET Addresses /\ gcRoots \subseteq gcAllocs
  BY DEF Rooted, GcShapes, GcTablesTyped
<1>3. \A a \in Addresses : gcRefs[a] \subseteq gcAllocs
  BY DEF Linked, Leaving, GcFreeing
<1> QED BY <1>2, <1>3, ReachesNoMore DEF Live

LEMMA LiveLinks ==
    ASSUME GcShapes
    PROVE  /\ gcRoots \subseteq Live /\ Live \subseteq Addresses
           /\ \A c \in Live : gcRefs[c] \subseteq Live
<1>1. gcRoots \subseteq Addresses /\ gcRefs \in [Addresses -> SUBSET Addresses]
  BY DEF GcShapes, GcTablesTyped
<1> QED BY <1>1, ReachesItself, ReachesOn DEF Live

LEMMA LiveStays ==
    ASSUME gcRefs' = gcRefs, gcRoots' = gcRoots
    PROVE  Live' = Live
<1> QED BY DEF Live

LEMMA AllocsFinite ==
    ASSUME GcShapes
    PROVE  IsFiniteSet(gcAllocs) /\ Cardinality(gcAllocs) \in Nat
<1> QED BY CollectorAssumption, FS_Subset, FS_CardinalityType DEF GcShapes, GcTablesTyped

\* The sole user's record, as the step leaves it.
LEMMA RecordAfter ==
    ASSUME GcShapes, NEW t \in Threads, NEW thread, gcThread' = [gcThread EXCEPT ![t] = thread]
    PROVE  gcThread'[t] = thread
<1> QED BY DEF GcShapes

LEMMA OwnFields ==
    ASSUME GcShapes, NEW t \in Threads
    PROVE  gcThread[t] \in GcRecords
<1> QED BY DEF GcShapes

-----------------------------------------------------------------------------
(* One lemma per action.                                                     *)
LEMMA AllocateAlone ==
    ASSUME GcShapes, NEW t \in Threads, Alone(t), GcAllocate(t)
    PROVE  Alone(t)'
<1>1. /\ gcThread[t].at = "idle" /\ gcThread'[t] = [gcThread[t] EXCEPT !.at = "birth"]
      /\ gcThread[t] \in GcRecords
  BY OwnFields, RecordAfter DEF GcAllocate, GcAt
<1>2. /\ gcThread'[t].at = "birth" /\ gcThread'[t].ptr = gcThread[t].ptr
      /\ gcThread'[t].collects = gcThread[t].collects
      /\ gcThread'[t].victim = gcThread[t].victim
  BY <1>1 DEF GcRecords
<1>3. /\ gcAllocs' = gcAllocs /\ gcRoots' = gcRoots /\ gcRefs' = gcRefs
      /\ gcMine' = gcMine /\ gcInUse' = gcInUse
  BY DEF GcAllocate, gcTables
<1> QED BY <1>1, <1>2, <1>3 DEF Alone, Occupied, Rooted, Linked, Counted, Marking, Sweeping,
           Returning, Leaving, GcFreeing

LEMMA BirthAlone ==
    ASSUME GcShapes, FreedOnce, NEW t \in Threads, Alone(t), GcBirth(t)
    PROVE  Alone(t)'
<1>1. PICK a \in Addresses \ gcRaw :
         /\ gcAllocs' = gcAllocs \cup {a}
         /\ gcThread' = [gcThread EXCEPT ![t].at = "born", ![t].ptr = a]
  BY DEF GcBirth
<1>2. gcThread'[t] = [gcThread[t] EXCEPT !.at = "born", !.ptr = a] /\ gcThread[t] \in GcRecords
  BY <1>1, OwnFields DEF GcShapes
<1>3. /\ gcThread[t].at = "birth" /\ gcThread'[t].at = "born" /\ gcThread'[t].ptr = a
      /\ gcThread'[t].collects = gcThread[t].collects
  BY <1>2 DEF GcRecords, GcBirth, GcAt
<1>4. gcRoots' = gcRoots /\ gcRefs' = gcRefs /\ gcMine' = gcMine /\ gcInUse' = gcInUse
  BY DEF GcBirth
<1>5. a \notin gcAllocs
  BY DEF FreedOnce
<1>6. Cardinality(gcAllocs') = Cardinality(gcAllocs) + 1
  BY <1>1, <1>5, AllocsFinite, FS_AddElement
<1>7. Cardinality(gcAllocs) \in Nat
  BY AllocsFinite
<1>8. Counted(t)'
  BY <1>3, <1>4, <1>6, <1>7 DEF Alone, Counted
<1>9. Occupied(t)' /\ Marking(t)' /\ Sweeping(t)'
  BY <1>1, <1>3 DEF Alone, Occupied, Marking, Sweeping, GcFreeing
<1>10. Rooted(t)' /\ Linked(t)'
  BY <1>1, <1>3, <1>4 DEF Alone, Rooted, Linked, Returning, Leaving, GcFreeing
<1> QED BY <1>8, <1>9, <1>10 DEF Alone

LEMMA RootsBirthAlone ==
    ASSUME GcShapes, NEW t \in Threads, Alone(t), GcRootsBirth(t)
    PROVE  Alone(t)'
<1>1. /\ gcThread[t].at = "born" /\ gcThread'[t] = [gcThread[t] EXCEPT !.at = "rooted"]
      /\ gcThread[t] \in GcRecords
  BY OwnFields, RecordAfter DEF GcRootsBirth, GcAt
<1>2. /\ gcThread'[t].at = "rooted" /\ gcThread'[t].ptr = gcThread[t].ptr
      /\ gcThread'[t].collects = gcThread[t].collects
  BY <1>1 DEF GcRecords
<1>3. /\ gcAllocs' = gcAllocs /\ gcRoots' = gcRoots \cup {gcThread[t].ptr}
      /\ gcRefs' = gcRefs /\ gcMine' = gcMine /\ gcInUse' = gcInUse
  BY DEF GcRootsBirth
<1>4. gcThread[t].ptr \in gcAllocs /\ gcAllocs \subseteq Addresses
  BY <1>1 DEF Alone, Occupied, GcShapes, GcTablesTyped
<1>5. Returning(t)' = {gcThread[t].ptr} /\ Returning(t) = {}
  BY <1>1, <1>2, <1>4, CollectorAssumption DEF Returning, GcFreeing
<1>6. Rooted(t)'
  BY <1>1, <1>2, <1>3, <1>4, <1>5 DEF Alone, Rooted, GcFreeing
<1> QED BY <1>1, <1>2, <1>3, <1>6 DEF Alone, Occupied, Linked, Counted, Marking, Sweeping,
           Leaving, GcFreeing

\* To begin to mark, with what is rooted.
LEMMA BeginsAlone ==
    ASSUME GcShapes, GcShapes', NEW t \in Threads, BeginMark(t, gcThread[t]),
           gcThread[t].at \in {"idle", "rooted"},
           gcRoots' = gcRoots, gcAllocs' = gcAllocs, gcMine' = gcMine,
           Rooted(t), Linked(t), Counted(t)', Linked(t)',
           gcThread[t].at = "idle" => gcThread[t].ptr = None
    PROVE  Alone(t)'
<1>1. gcThread'[t] = [gcThread[t] EXCEPT !.at = "mark", !.collects = TRUE, !.work = gcRoots]
  BY RecordAfter DEF BeginMark
<1>2. /\ gcThread'[t].at = "mark" /\ gcThread'[t].collects = TRUE
      /\ gcThread'[t].work = gcRoots /\ gcThread'[t].ptr = gcThread[t].ptr
  BY <1>1, OwnFields DEF GcRecords
<1>3. gcMarked' = {}
  BY DEF BeginMark
<1>4. gcRoots' \subseteq Live'
  BY ReachesItself DEF Live, GcShapes, GcTablesTyped
<1>5. Marking(t)'
  BY <1>2, <1>3, <1>4 DEF Marking
<1>6. Returning(t)' = Returning(t)
  BY <1>2 DEF Returning, GcFreeing
<1>7. Rooted(t)'
  BY <1>2, <1>6 DEF Rooted, GcFreeing
<1> QED BY <1>2, <1>5, <1>7 DEF Alone, Occupied, Sweeping, GcFreeing

LEMMA BeginsAt ==
    ASSUME GcShapes, NEW t \in Threads, BeginMark(t, gcThread[t])
    PROVE  gcThread'[t].at = "mark"
<1>1. gcThread'[t] = [gcThread[t] EXCEPT !.at = "mark", !.collects = TRUE, !.work = gcRoots]
  BY RecordAfter DEF BeginMark
<1> QED BY <1>1, OwnFields DEF GcRecords

LEMMA CollectAlone ==
    ASSUME GcShapes, GcShapes', NEW t \in Threads, Alone(t), GcCollect(t)
    PROVE  Alone(t)'
<1>1. /\ gcThread[t].at = "idle" /\ BeginMark(t, gcThread[t])
      /\ gcAllocs' = gcAllocs /\ gcRoots' = gcRoots /\ gcRefs' = gcRefs
      /\ gcMine' = gcMine /\ gcInUse' = gcInUse
  BY DEF GcCollect, GcAt
<1>2. gcThread'[t].at = "mark"
  BY <1>1, BeginsAt
<1>3. Counted(t)'
  BY <1>1, <1>2 DEF Alone, Counted
<1>4. Linked(t)'
  BY <1>1, <1>2 DEF Alone, Linked, Leaving
<1>5. gcThread[t].ptr = None
  BY <1>1 DEF Alone, Occupied, GcFreeing
<1> QED BY <1>1, <1>3, <1>4, <1>5, BeginsAlone DEF Alone

LEMMA CountsAlone ==
    ASSUME GcShapes, GcShapes', NEW t \in Threads, Alone(t), GcCounts(t)
    PROVE  Alone(t)'
<1>1. /\ gcThread[t].at = "rooted"
      /\ gcAllocs' = gcAllocs /\ gcRoots' = gcRoots /\ gcInUse' = gcInUse + 1
      /\ gcRefs' = [gcRefs EXCEPT ![gcThread[t].ptr] = {}]
  BY DEF GcCounts, GcAt
<1>2. Cardinality(gcAllocs) \in Nat
  BY AllocsFinite
<1>3. gcInUse' = Cardinality(gcAllocs')
  BY <1>1, <1>2 DEF Alone, Counted
<1>4. /\ gcThread[t].ptr \in Addresses /\ Returning(t) = {gcThread[t].ptr}
      /\ Leaving(t) = {}
  BY <1>1, CollectorAssumption DEF GcShapes, GcExpects, Returning, Leaving, GcFreeing
<1>5. \A a \in Addresses : gcRefs'[a] \subseteq gcAllocs'
  BY <1>1, <1>4 DEF Alone, Linked, GcShapes, GcTablesTyped
<1>6. CASE BeginMark(t, gcThread[t]) /\ UNCHANGED gcMine
  <2>1. gcThread'[t].at = "mark"
    BY <1>6, BeginsAt
  <2>2. Counted(t)'
    BY <1>2, <1>3, <1>1, <2>1 DEF Counted
  <2>3. Linked(t)'
    BY <1>5, <1>6, <2>1 DEF Alone, Linked, Leaving
  <2> QED BY <1>1, <1>6, <2>2, <2>3, BeginsAlone DEF Alone
<1>7. CASE gcMine' = gcMine \cup {gcThread[t].ptr} /\ gcThread' = [gcThread EXCEPT ![t] = GcIdle]
  <2>1. /\ gcThread'[t].at = "idle" /\ gcThread'[t].collects = FALSE
        /\ gcThread'[t].ptr = None
    <3>1. gcThread'[t] = GcIdle
      BY <1>7, RecordAfter
    <3> QED BY <3>1 DEF GcIdle
  <2>2. Counted(t)'
    BY <1>2, <1>3, <1>1, <2>1 DEF Counted
  <2>3. Linked(t)'
    BY <1>4, <1>5, <1>7, <2>1 DEF Alone, Linked, Leaving
  <2>4. Rooted(t)'
    BY <1>1, <1>4, <1>7, <2>1 DEF Alone, Rooted, Returning, GcFreeing
  <2> QED BY <2>1, <2>2, <2>3, <2>4 DEF Alone, Occupied, Marking, Sweeping, GcFreeing
<1> QED BY <1>6, <1>7 DEF GcCounts

LEMMA DeallocateAlone ==
    ASSUME GcShapes, NEW t \in Threads, NEW a \in Addresses, Alone(t), GcDeallocate(t, a)
    PROVE  Alone(t)'
<1>1. /\ gcThread[t].at = "idle" /\ gcThread[t] \in GcRecords
      /\ gcThread'[t] = [gcThread[t] EXCEPT !.at = "take", !.victim = a]
  BY OwnFields DEF GcDeallocate, GcAt, GcShapes
<1>2. /\ gcThread'[t].at = "take" /\ gcThread'[t].victim = a
      /\ gcThread'[t].ptr = gcThread[t].ptr /\ gcThread'[t].collects = gcThread[t].collects
  BY <1>1 DEF GcRecords
<1>3. gcThread[t].ptr = None /\ gcThread[t].collects = FALSE
  BY <1>1 DEF Alone, Occupied, GcFreeing, GcRecords
<1>4. a \in gcAllocs /\ gcRoots = gcMine
  BY <1>1, <1>3, HeldAllocated DEF Alone, GcDeallocate
<1>5. /\ gcAllocs' = gcAllocs /\ gcRoots' = gcRoots /\ gcRefs' = gcRefs
      /\ gcMine' = gcMine \ {a} /\ gcInUse' = gcInUse
  BY DEF GcDeallocate, gcTables
<1>6. Returning(t)' = {} /\ Returning(t) = {}
  BY <1>1, <1>2, <1>3 DEF Returning, GcFreeing
<1>7. Rooted(t)'
  BY <1>2, <1>4, <1>5, <1>6 DEF Alone, Rooted, GcFreeing
<1> QED BY <1>1, <1>2, <1>3, <1>4, <1>5, <1>7
        DEF Alone, Occupied, Linked, Counted, Marking, Sweeping, Leaving, GcFreeing

LEMMA TakeAlone ==
    ASSUME GcShapes, NEW t \in Threads, Alone(t), GcTake(t)
    PROVE  Alone(t)'
<1> DEFINE v == gcThread[t].victim
<1>1. gcThread[t].at = "take" /\ gcThread[t] \in GcRecords /\ v \in gcAllocs
  BY OwnFields DEF GcTake, GcAt, Alone, Occupied
<1>2. gcThread'[t] = [gcThread[t] EXCEPT !.at = "free"]
  BY <1>1, RecordAfter DEF GcTake
<1>3. /\ gcThread'[t].at = "free" /\ gcThread'[t].victim = v
      /\ gcThread'[t].ptr = gcThread[t].ptr /\ gcThread'[t].collects = gcThread[t].collects
      /\ gcThread'[t].doomed = gcThread[t].doomed
  BY <1>1, <1>2 DEF GcRecords
<1>4. /\ gcAllocs' = gcAllocs \ {v} /\ gcRoots' = gcRoots /\ gcRefs' = gcRefs
      /\ gcMine' = gcMine /\ gcInUse' = gcInUse
  BY DEF GcTake
<1>5. v \in Addresses
  BY <1>1 DEF GcShapes, GcTablesTyped
<1>6. Cardinality(gcAllocs') = Cardinality(gcAllocs) - 1 /\ Cardinality(gcAllocs) \in Nat
  BY <1>1, <1>4, AllocsFinite, FS_RemoveElement
<1> HIDE DEF v
<1>7. Counted(t)'
  BY <1>1, <1>3, <1>4, <1>6 DEF Alone, Counted
<1>8. Returning(t)' = Returning(t) /\ Leaving(t)' = {v} /\ Leaving(t) = {}
  BY <1>1, <1>3 DEF Returning, Leaving, GcFreeing
<1>9. Rooted(t)'
  <2>1. /\ v \notin gcMine \cup Returning(t)
        /\ gcRoots \ {v} = gcMine \cup Returning(t)
        /\ gcMine \cup Returning(t) \subseteq gcAllocs
    BY <1>1 DEF Alone, Rooted, GcFreeing, v
  <2> QED BY <2>1, <1>3, <1>4, <1>8 DEF Rooted, GcFreeing
<1>10. Linked(t)'
  BY <1>4, <1>8 DEF Alone, Linked
<1>11. Sweeping(t)'
  <2>1. SUFFICES ASSUME gcThread[t].collects
                 PROVE  /\ gcThread[t].doomed \cap Live = {}
                        /\ gcAllocs' = Live \cup gcThread[t].doomed
                        /\ v \notin Live \cup gcThread[t].doomed
    BY <1>3, <1>4, LiveStays DEF Sweeping, GcFreeing
  <2> QED BY <2>1, <1>1, <1>4 DEF Alone, Sweeping, GcFreeing, v
<1> QED BY <1>1, <1>3, <1>5, <1>7, <1>9, <1>10, <1>11
        DEF Alone, Occupied, Marking, GcFreeing

LEMMA FreesAlone ==
    ASSUME GcShapes, NEW t \in Threads, Alone(t), GcFrees(t)
    PROVE  Alone(t)'
<1>1. /\ gcThread[t].at = "free" /\ gcThread[t] \in GcRecords
      /\ gcThread'[t] = [gcThread[t] EXCEPT !.at = "unroot"]
  BY OwnFields, RecordAfter DEF GcFrees, GcAt
<1>2. /\ gcThread'[t].at = "unroot" /\ gcThread'[t].victim = gcThread[t].victim
      /\ gcThread'[t].ptr = gcThread[t].ptr /\ gcThread'[t].collects = gcThread[t].collects
      /\ gcThread'[t].doomed = gcThread[t].doomed
  BY <1>1 DEF GcRecords
<1>3. /\ gcAllocs' = gcAllocs /\ gcRoots' = gcRoots /\ gcRefs' = gcRefs
      /\ gcMine' = gcMine /\ gcInUse' = gcInUse /\ Live' = Live
  BY LiveStays DEF GcFrees
<1>4. Returning(t)' = Returning(t) /\ Leaving(t)' = Leaving(t)
  BY <1>1, <1>2 DEF Returning, Leaving, GcFreeing
<1>5. Rooted(t)' /\ Linked(t)'
  BY <1>1, <1>2, <1>3, <1>4 DEF Alone, Rooted, Linked, GcFreeing
<1>6. Sweeping(t)'
  BY <1>1, <1>2, <1>3 DEF Alone, Sweeping, GcFreeing
<1> QED BY <1>1, <1>2, <1>3, <1>5, <1>6 DEF Alone, Occupied, Counted, Marking, GcFreeing

LEMMA UnrootsAlone ==
    ASSUME GcShapes, NEW t \in Threads, Alone(t), GcUnroots(t)
    PROVE  Alone(t)'
<1> DEFINE v == gcThread[t].victim
<1>1. /\ gcThread[t].at = "unroot" /\ gcThread[t] \in GcRecords
      /\ gcThread'[t] = [gcThread[t] EXCEPT !.at = "unlink"]
  BY OwnFields, RecordAfter DEF GcUnroots, GcAt
<1>2. /\ gcThread'[t].at = "unlink" /\ gcThread'[t].victim = v
      /\ gcThread'[t].ptr = gcThread[t].ptr /\ gcThread'[t].collects = gcThread[t].collects
      /\ gcThread'[t].doomed = gcThread[t].doomed
  BY <1>1 DEF GcRecords
<1>3. /\ gcAllocs' = gcAllocs /\ gcRoots' = gcRoots \ {v} /\ gcRefs' = gcRefs
      /\ gcMine' = gcMine /\ gcInUse' = gcInUse
  BY DEF GcUnroots
<1>4. Returning(t)' = Returning(t) /\ Leaving(t)' = Leaving(t)
  BY <1>1, <1>2 DEF Returning, Leaving, GcFreeing
<1>5. Rooted(t)'
  <2>1. /\ v \notin gcMine \cup Returning(t)
        /\ gcRoots \ {v} = gcMine \cup Returning(t)
        /\ gcMine \cup Returning(t) \subseteq gcAllocs
    BY <1>1 DEF Alone, Rooted, GcFreeing
  <2> HIDE DEF v
  <2> QED BY <2>1, <1>2, <1>3, <1>4 DEF Rooted, GcFreeing
<1>6. Linked(t)'
  BY <1>3, <1>4 DEF Alone, Linked
<1>7. Sweeping(t)'
  <2>1. CASE gcThread[t].collects
    <3>1. v \notin Live
      BY <1>1, <2>1 DEF Alone, Sweeping, GcFreeing
    <3>2. gcRoots' = gcRoots
      BY <1>3, <3>1, LiveLinks
    <3>3. Live' = Live
      BY <1>3, <3>2, LiveStays
    <3> QED BY <1>1, <1>2, <1>3, <3>3 DEF Alone, Sweeping, GcFreeing
  <2>2. CASE ~gcThread[t].collects
    BY <1>2, <2>2 DEF Sweeping
  <2> QED BY <2>1, <2>2
<1> QED BY <1>1, <1>2, <1>3, <1>5, <1>6, <1>7 DEF Alone, Occupied, Counted, Marking, GcFreeing

LEMMA UnlinksAlone ==
    ASSUME GcShapes, NEW t \in Threads, Alone(t), GcUnlinks(t)
    PROVE  Alone(t)'
<1> DEFINE v == gcThread[t].victim
<1>1. gcThread[t].at = "unlink" /\ gcThread[t] \in GcRecords
  BY OwnFields DEF GcUnlinks, GcAt
<1>2. gcThread'[t] = Over([gcThread[t] EXCEPT !.victim = None])
  BY RecordAfter DEF GcUnlinks
<1>3. /\ gcAllocs' = gcAllocs /\ gcRoots' = gcRoots /\ gcMine' = gcMine
      /\ gcInUse' = gcInUse - 1
      /\ gcRefs' = [a \in Addresses |-> IF a = v THEN {} ELSE gcRefs[a] \ {v}]
  BY DEF GcUnlinks
<1>4. Cardinality(gcAllocs) \in Nat
  BY AllocsFinite
<1>5. \A a \in Addresses : gcRefs'[a] \subseteq gcAllocs
  BY <1>1, <1>3 DEF Alone, Linked, Leaving
<1>6. /\ v \notin gcMine \cup Returning(t) /\ v \notin gcRoots
      /\ gcRoots \ {v} = gcMine \cup Returning(t)
      /\ gcMine \cup Returning(t) \subseteq gcAllocs
  BY <1>1 DEF Alone, Rooted, GcFreeing
<1>7. Returning(t) = {gcThread[t].ptr} \ {None}
  BY <1>1 DEF Returning, GcFreeing
<1>8. gcMine \subseteq Addresses /\ gcInUse = Cardinality(gcAllocs) + 1
  BY <1>1 DEF Alone, Linked, Counted
<1>9. CASE gcThread[t].collects
  <2>1. /\ gcThread'[t].at = "sweep" /\ gcThread'[t].collects = TRUE
        /\ gcThread'[t].ptr = gcThread[t].ptr /\ gcThread'[t].doomed = gcThread[t].doomed
    BY <1>1, <1>2, <1>9 DEF Over, GcRecords
  <2>2. v \notin Live
    BY <1>1, <1>9 DEF Alone, Sweeping, GcFreeing
  <2>3. gcRefs \in [Addresses -> SUBSET Addresses] /\ gcRoots \subseteq Addresses
    BY DEF GcShapes, GcTablesTyped
  <2>4. ReachedBy(gcRefs', gcRoots) = ReachedBy(gcRefs, gcRoots)
    BY <1>3, <2>2, <2>3, ReachesAfterUnlink DEF Live
  <2>5. Live' = Live
    BY <1>3, <2>4 DEF Live
  <2>6. Sweeping(t)'
    BY <1>1, <1>3, <1>9, <2>1, <2>5 DEF Alone, Sweeping, GcFreeing
  <2>7. Returning(t)' = Returning(t) /\ Leaving(t)' = {}
    BY <1>7, <2>1 DEF Returning, Leaving, GcFreeing
  <2>8. Rooted(t)' /\ Linked(t)'
    BY <1>3, <1>5, <1>6, <1>8, <2>1, <2>7 DEF Rooted, Linked, GcFreeing
  <2>9. Counted(t)'
    BY <1>3, <1>4, <1>8, <2>1 DEF Counted
  <2> QED BY <2>1, <2>6, <2>8, <2>9 DEF Alone, Occupied, Marking, GcFreeing
<1>10. CASE ~gcThread[t].collects
  <2>0. gcThread'[t] = GcIdle
    BY <1>1, <1>2, <1>10 DEF Over, GcRecords
  <2>1. /\ gcThread'[t].at = "idle" /\ gcThread'[t].collects = FALSE
        /\ gcThread'[t].ptr = None
    BY <2>0 DEF GcIdle
  <2>2. gcThread[t].ptr = None
    BY <1>1, <1>10 DEF Alone, Occupied
  <2>3. Returning(t)' = {} /\ Returning(t) = {} /\ Leaving(t)' = {}
    BY <1>7, <2>1, <2>2 DEF Returning, Leaving, GcFreeing
  <2>4. Rooted(t)' /\ Linked(t)'
    BY <1>3, <1>5, <1>6, <1>8, <2>1, <2>3 DEF Rooted, Linked, GcFreeing
  <2>5. Counted(t)'
    BY <1>3, <1>4, <1>8, <2>1 DEF Counted
  <2> QED BY <2>1, <2>4, <2>5 DEF Alone, Occupied, Marking, Sweeping, GcFreeing
<1> QED BY <1>9, <1>10

LEMMA MarksAlone ==
    ASSUME GcShapes, NEW t \in Threads, Alone(t), GcMarks(t)
    PROVE  Alone(t)'
<1>1. PICK o \in gcThread[t].work :
         /\ gcMarked' = gcMarked \cup {o}
         /\ gcThread' = [gcThread EXCEPT ![t].work =
               (@ \ {o}) \cup IF o \in gcMarked THEN {} ELSE gcRefs[o]]
  BY DEF GcMarks
<1> DEFINE more == (gcThread[t].work \ {o}) \cup IF o \in gcMarked THEN {} ELSE gcRefs[o]
<1>2. gcThread'[t] = [gcThread[t] EXCEPT !.work = more]
  BY <1>1 DEF GcShapes
<1>3. /\ gcThread[t].at = "mark" /\ gcThread[t] \in GcRecords
  BY OwnFields DEF GcMarks, GcAt
<1> HIDE DEF more
<1>4. /\ gcThread'[t].at = "mark" /\ gcThread'[t].work = more
      /\ gcThread'[t].ptr = gcThread[t].ptr /\ gcThread'[t].collects = gcThread[t].collects
  BY <1>2, <1>3 DEF GcRecords
<1>5. /\ gcAllocs' = gcAllocs /\ gcRoots' = gcRoots /\ gcRefs' = gcRefs
      /\ gcMine' = gcMine /\ gcInUse' = gcInUse /\ Live' = Live
  BY LiveStays DEF GcMarks
<1>6. /\ gcRoots \subseteq gcMarked \cup gcThread[t].work
      /\ gcMarked \cup gcThread[t].work \subseteq Live
      /\ \A m \in gcMarked : gcRefs[m] \subseteq gcMarked \cup gcThread[t].work
  BY <1>3 DEF Alone, Marking
<1>7. gcRefs[o] \subseteq Live
  BY <1>6, LiveLinks
<1>8. gcMarked \cup gcThread[t].work \subseteq gcMarked' \cup more
  BY <1>1 DEF more
<1>9. gcMarked' \cup more \subseteq Live
  BY <1>1, <1>6, <1>7 DEF more
<1>10. gcRefs[o] \subseteq gcMarked' \cup more
  <2>1. CASE o \in gcMarked
    BY <2>1, <1>6, <1>8
  <2>2. CASE o \notin gcMarked
    BY <2>2 DEF more
  <2> QED BY <2>1, <2>2
<1>11. \A m \in gcMarked' : gcRefs[m] \subseteq gcMarked' \cup more
  <2> SUFFICES ASSUME NEW m \in gcMarked' PROVE gcRefs[m] \subseteq gcMarked' \cup more
    OBVIOUS
  <2>1. CASE m = o
    BY <2>1, <1>10
  <2>2. CASE m # o
    <3>1. m \in gcMarked
      BY <2>2, <1>1
    <3> QED BY <3>1, <1>6, <1>8
  <2> QED BY <2>1, <2>2
<1>12. Marking(t)'
  BY <1>4, <1>5, <1>6, <1>8, <1>9, <1>11 DEF Marking
<1>13. Returning(t)' = Returning(t) /\ Leaving(t)' = Leaving(t)
  BY <1>3, <1>4 DEF Returning, Leaving, GcFreeing
<1>14. Rooted(t)' /\ Linked(t)'
  BY <1>3, <1>4, <1>5, <1>13 DEF Alone, Rooted, Linked, GcFreeing
<1> QED BY <1>3, <1>4, <1>5, <1>12, <1>14 DEF Alone, Occupied, Counted, Sweeping, GcFreeing

\* Nothing is left to mark: the marked objects are the live ones.
LEMMA MarkedAreLive ==
    ASSUME GcShapes, NEW t \in Threads, Marking(t), gcThread[t].at = "mark",
           gcThread[t].work = {}
    PROVE  gcMarked = Live
<1>1. /\ gcRoots \subseteq gcMarked /\ gcMarked \subseteq Live
      /\ \A m \in gcMarked : gcRefs[m] \subseteq gcMarked
  BY DEF Marking
<1>2. gcMarked \in SUBSET Addresses
  BY <1>1, LiveLinks
<1> QED BY <1>1, <1>2, ReachesNoMore DEF Live

LEMMA SelectsAlone ==
    ASSUME GcShapes, NEW t \in Threads, Alone(t), GcSelects(t)
    PROVE  Alone(t)'
<1> DEFINE found == gcAllocs \ (gcMarked \cup gcRoots)
<1>1. /\ gcThread[t].at = "mark" /\ gcThread[t].work = {} /\ gcThread[t] \in GcRecords
  BY OwnFields DEF GcSelects, GcAt
<1>2. gcThread'[t] = [gcThread[t] EXCEPT !.at = "sweep", !.doomed = found]
  BY DEF GcSelects, GcShapes
<1>3. gcMarked = Live /\ gcRoots \subseteq Live /\ Live \subseteq gcAllocs
  BY <1>1, MarkedAreLive, LiveLinks, LiveAllocated DEF Alone, GcFreeing
<1>4. found = gcAllocs \ Live
  BY <1>3
<1> HIDE DEF found
<1>5. /\ gcThread'[t].at = "sweep" /\ gcThread'[t].doomed = found
      /\ gcThread'[t].ptr = gcThread[t].ptr /\ gcThread'[t].collects = gcThread[t].collects
  BY <1>1, <1>2 DEF GcRecords
<1>6. /\ gcAllocs' = gcAllocs /\ gcRoots' = gcRoots /\ gcRefs' = gcRefs
      /\ gcMine' = gcMine /\ gcInUse' = gcInUse /\ Live' = Live
  BY LiveStays DEF GcSelects, gcTables
<1>7. Sweeping(t)'
  BY <1>3, <1>4, <1>5, <1>6 DEF Sweeping, GcFreeing
<1>8. Returning(t)' = Returning(t) /\ Leaving(t)' = Leaving(t)
  BY <1>1, <1>5 DEF Returning, Leaving, GcFreeing
<1>9. Rooted(t)' /\ Linked(t)'
  BY <1>1, <1>5, <1>6, <1>8 DEF Alone, Rooted, Linked, GcFreeing
<1> QED BY <1>1, <1>5, <1>6, <1>7, <1>9 DEF Alone, Occupied, Counted, Marking, GcFreeing

LEMMA SweepsAlone ==
    ASSUME GcShapes, NEW t \in Threads, Alone(t), GcSweeps(t)
    PROVE  Alone(t)'
<1>1. PICK v \in gcThread[t].doomed :
         gcThread' = [gcThread EXCEPT ![t].at = "take", ![t].victim = v,
                                      ![t].doomed = @ \ {v}]
  BY DEF GcSweeps
<1>2. gcThread'[t] = [gcThread[t] EXCEPT !.at = "take", !.victim = v, !.doomed = @ \ {v}]
  BY <1>1 DEF GcShapes
<1>3. gcThread[t].at = "sweep" /\ gcThread[t] \in GcRecords
  BY OwnFields DEF GcSweeps, GcAt
<1>4. /\ gcThread'[t].at = "take" /\ gcThread'[t].victim = v
      /\ gcThread'[t].doomed = gcThread[t].doomed \ {v}
      /\ gcThread'[t].ptr = gcThread[t].ptr /\ gcThread'[t].collects = gcThread[t].collects
  BY <1>2, <1>3 DEF GcRecords
<1>5. /\ gcAllocs' = gcAllocs /\ gcRoots' = gcRoots /\ gcRefs' = gcRefs
      /\ gcMine' = gcMine /\ gcInUse' = gcInUse /\ Live' = Live
  BY LiveStays DEF GcSweeps, gcTables
<1>6. /\ gcThread[t].doomed \cap Live = {} /\ gcAllocs = Live \cup gcThread[t].doomed
      /\ gcThread[t].collects
  BY <1>3 DEF Alone, Occupied, Sweeping, GcFreeing
<1>7. /\ gcMine \cup Returning(t) \subseteq gcAllocs /\ gcRoots = gcMine \cup Returning(t)
  BY <1>3 DEF Alone, Rooted, GcFreeing
<1>8. v \in gcAllocs /\ v \in Addresses /\ v \notin Live /\ v \notin gcRoots
  BY <1>6, LiveLinks DEF GcShapes, GcTablesTyped
<1>9. Sweeping(t)'
  BY <1>4, <1>5, <1>6, <1>8 DEF Sweeping, GcFreeing
<1>10. Returning(t)' = Returning(t) /\ Leaving(t)' = Leaving(t)
  BY <1>3, <1>4 DEF Returning, Leaving, GcFreeing
<1>11. Rooted(t)'
  BY <1>4, <1>5, <1>7, <1>8, <1>10 DEF Rooted, GcFreeing
<1>12. Linked(t)'
  BY <1>5, <1>10 DEF Alone, Linked
<1>13. Occupied(t)' /\ Counted(t)' /\ Marking(t)'
  BY <1>3, <1>4, <1>5, <1>6, <1>8 DEF Alone, Occupied, Counted, Marking, GcFreeing
<1> QED BY <1>9, <1>11, <1>12, <1>13 DEF Alone

LEMMA EndsAlone ==
    ASSUME GcShapes, NEW t \in Threads, Alone(t), GcEnds(t)
    PROVE  Alone(t)'
<1>1. gcThread[t].at = "sweep" /\ gcThread'[t] = GcIdle
  BY RecordAfter DEF GcEnds, GcAt
<1>2. /\ gcThread'[t].at = "idle" /\ gcThread'[t].ptr = None
      /\ gcThread'[t].collects = FALSE
  BY <1>1 DEF GcIdle
<1>3. /\ gcAllocs' = gcAllocs /\ gcRoots' = gcRoots /\ gcRefs' = gcRefs
      /\ gcMine' = gcMine \cup Returning(t) /\ gcInUse' = gcInUse
  BY <1>1 DEF GcEnds, gcTables, Returning
<1>4. /\ gcMine \cup Returning(t) \subseteq gcAllocs /\ gcRoots = gcMine \cup Returning(t)
  BY <1>1 DEF Alone, Rooted, GcFreeing
<1>5. Returning(t)' = {} /\ Leaving(t)' = Leaving(t)
  BY <1>1, <1>2 DEF Returning, Leaving, GcFreeing
<1>6. Rooted(t)'
  BY <1>2, <1>3, <1>4, <1>5 DEF Rooted, GcFreeing
<1>7. Linked(t)'
  <2>1. gcMine' \subseteq Addresses
    BY <1>3, <1>4 DEF GcShapes, GcTablesTyped
  <2> QED BY <2>1, <1>3, <1>5 DEF Alone, Linked
<1> QED BY <1>1, <1>2, <1>3, <1>6, <1>7
        DEF Alone, Occupied, Counted, Marking, Sweeping, GcFreeing

\* What the program tells the collector.
LEMMA TellsAlone ==
    ASSUME GcShapes, NEW t \in Threads, NEW a \in Addresses, NEW b \in Addresses, Alone(t),
           \/ GcAddRoot(t, a) \/ GcRemoveRoot(t, a)
           \/ GcClearReferences(t, a) \/ GcAddReference(t, a, b)
    PROVE  Alone(t)'
<1>1. /\ gcThread[t].at = "idle" /\ gcThread' = gcThread /\ gcAllocs' = gcAllocs
      /\ gcInUse' = gcInUse /\ a \in Held /\ gcThread[t] \in GcRecords
  BY OwnFields DEF GcAddRoot, GcRemoveRoot, GcClearReferences, GcAddReference, GcAt
<1>2. ~gcThread[t].collects /\ gcThread[t].ptr = None
  BY <1>1 DEF Alone, Occupied, GcFreeing, GcRecords
<1>3. Held \subseteq gcAllocs /\ gcRoots = gcMine
  BY <1>1, <1>2, HeldAllocated DEF Alone
<1>4. Returning(t) = {} /\ Returning(t)' = {} /\ Leaving(t) = {} /\ Leaving(t)' = {}
  BY <1>1 DEF Returning, Leaving, GcFreeing
<1>5. gcMine \subseteq gcAllocs /\ \A c \in Addresses : gcRefs[c] \subseteq gcAllocs
  BY <1>4 DEF Alone, Rooted, Linked
<1>6. gcRoots' = gcMine' /\ gcMine' \subseteq gcAllocs
  BY <1>1, <1>3, <1>5 DEF GcAddRoot, GcRemoveRoot, GcClearReferences, GcAddReference
<1>7. \A c \in Addresses : gcRefs'[c] \subseteq gcAllocs
  <2>1. CASE GcAddRoot(t, a) \/ GcRemoveRoot(t, a)
    BY <2>1, <1>5 DEF GcAddRoot, GcRemoveRoot
  <2>2. CASE GcClearReferences(t, a)
    BY <2>2, <1>5 DEF GcClearReferences, GcShapes, GcTablesTyped
  <2>3. CASE GcAddReference(t, a, b)
    <3>1. b \in gcAllocs /\ gcRefs' = [gcRefs EXCEPT ![a] = gcRefs[a] \cup {b}]
      BY <2>3, <1>3 DEF GcAddReference
    <3>2. gcRefs \in [Addresses -> SUBSET Addresses]
      BY DEF GcShapes, GcTablesTyped
    <3> QED BY <3>1, <3>2, <1>5
  <2> QED BY <2>1, <2>2, <2>3
<1>8. Rooted(t)'
  BY <1>1, <1>4, <1>6 DEF Rooted, GcFreeing
<1>9. Linked(t)'
  <2>1. gcMine' \subseteq Addresses
    BY <1>6 DEF GcShapes, GcTablesTyped
  <2> QED BY <2>1, <1>1, <1>4, <1>7 DEF Linked
<1> QED BY <1>1, <1>2, <1>8, <1>9
        DEF Alone, Occupied, Counted, Marking, Sweeping, GcFreeing

-----------------------------------------------------------------------------
THEOREM InitAlone == GcInit => AloneInv
<1> SUFFICES ASSUME GcInit, NEW t \in Threads PROVE Alone(t)
  BY DEF AloneInv
<1>1. gcThread[t] = GcIdle
  BY DEF GcInit
<1>2. gcThread[t].at = "idle" /\ gcThread[t].collects = FALSE /\ gcThread[t].ptr = None
  BY <1>1 DEF GcIdle
<1>3. Cardinality(gcAllocs) = 0
  BY FS_EmptySet DEF GcInit
<1>4. Returning(t) = {} /\ Leaving(t) = {}
  BY <1>2 DEF Returning, Leaving, GcFreeing
<1> QED BY <1>2, <1>3, <1>4
        DEF GcInit, Alone, Occupied, Rooted, Linked, Counted, Marking, Sweeping, GcFreeing

THEOREM AloneKept ==
    GcShapes /\ FreedOnce /\ AloneInv /\ [GcNext]_gcVars => AloneInv'
<1> SUFFICES ASSUME GcShapes, FreedOnce, AloneInv, [GcNext]_gcVars,
                    NEW t \in Threads, gcUsers' = {t}
             PROVE  Alone(t)'
  BY DEF AloneInv
<1>1. CASE UNCHANGED gcVars
  <2>1. /\ gcUsers = {t} /\ gcThread' = gcThread /\ gcAllocs' = gcAllocs
        /\ gcRoots' = gcRoots /\ gcRefs' = gcRefs /\ gcMine' = gcMine
        /\ gcInUse' = gcInUse /\ gcMarked' = gcMarked
    BY <1>1 DEF gcVars, gcTables
  <2>2. Alone(t) /\ Live' = Live
    BY <2>1, LiveStays DEF AloneInv
  <2> QED BY <2>1, <2>2 DEF Alone, Occupied, Rooted, Linked, Counted, Marking, Sweeping,
             Returning, Leaving
<1>2. ASSUME GcNext PROVE Alone(t)'
  <2>1. GcShapes'
    BY GcShapesKept
  <2>2. PICK u \in Threads :
           \/ GcAllocate(u) \/ GcBirth(u) \/ GcRootsBirth(u) \/ GcCounts(u)
           \/ GcTake(u) \/ GcFrees(u) \/ GcUnroots(u) \/ GcUnlinks(u)
           \/ GcCollect(u) \/ GcMarks(u) \/ GcSelects(u) \/ GcSweeps(u) \/ GcEnds(u)
           \/ \E a \in Addresses :
                 \/ GcDeallocate(u, a) \/ GcAddRoot(u, a) \/ GcRemoveRoot(u, a)
                 \/ GcClearReferences(u, a)
                 \/ \E b \in Addresses : GcAddReference(u, a, b)
    BY <1>2 DEF GcNext
  <2>3. gcUsers' = gcUsers /\ u \in gcUsers
    BY <2>2 DEF GcAllocate, GcBirth, GcRootsBirth, GcCounts, GcTake, GcFrees, GcUnroots,
       GcUnlinks, GcCollect, GcMarks, GcSelects, GcSweeps, GcEnds, GcDeallocate, GcAddRoot,
       GcRemoveRoot, GcClearReferences, GcAddReference, GcAt
  <2>4. u = t /\ Alone(t)
    BY <2>3 DEF AloneInv
  <2> QED BY <2>1, <2>2, <2>4, AllocateAlone, BirthAlone, RootsBirthAlone, CountsAlone,
          TakeAlone, FreesAlone, UnrootsAlone, UnlinksAlone, CollectAlone, MarksAlone,
          SelectsAlone, SweepsAlone, EndsAlone, DeallocateAlone, TellsAlone
<1> QED BY <1>1, <1>2

\* A thread that uses the memory alone (manager.rs:158): a collection leaves what
\* can be reached from the roots and nothing else, cycles or not, and between its
\* calls no reachable object is missing and usage is what there is.
THEOREM CollectionsAreExact == GcSpec => []CollectsExactly
<1>1. GcInit => GcShapes /\ FreedOnce /\ AloneInv
  BY InitGcShapes, InitFreedOnce, InitAlone
<1>2. (GcShapes /\ FreedOnce /\ AloneInv) /\ [GcNext]_gcVars
          => (GcShapes /\ FreedOnce /\ AloneInv)'
  BY GcShapesKept, FreedOnceKept, AloneKept
<1>3. GcShapes /\ AloneInv => CollectsExactly
  <2> SUFFICES ASSUME GcShapes, AloneInv, NEW t \in Threads, gcUsers = {t}
               PROVE  /\ GcAt(t, "sweep") /\ gcThread[t].doomed = {} =>
                            gcAllocs = Reached(gcRoots)
                      /\ GcAt(t, "idle") =>
                            /\ gcRoots = gcMine /\ Reached(gcRoots) \subseteq gcAllocs
                            /\ gcInUse = Cardinality(gcAllocs)
    BY DEF CollectsExactly
  <2>1. Alone(t) /\ gcThread[t] \in GcRecords
    BY OwnFields DEF AloneInv
  <2>2. Reached(gcRoots) = Live
    BY DEF Reached, Live, ReachedBy
  <2>3. ASSUME gcThread[t].at = "sweep", gcThread[t].doomed = {} PROVE gcAllocs = Live
    BY <2>1, <2>3 DEF Alone, Occupied, Sweeping, GcFreeing
  <2>4. ASSUME gcThread[t].at = "idle"
        PROVE  /\ gcRoots = gcMine /\ Live \subseteq gcAllocs
               /\ gcInUse = Cardinality(gcAllocs)
    <3>1. ~gcThread[t].collects /\ gcThread[t].ptr = None
      BY <2>1, <2>4 DEF Alone, Occupied, GcFreeing, GcRecords
    <3>2. Cardinality(gcAllocs) \in Nat
      BY AllocsFinite
    <3> QED BY <2>1, <2>4, <3>1, <3>2, HeldAllocated DEF Alone, Counted
  <2> QED BY <2>2, <2>3, <2>4 DEF GcAt
<1> QED BY <1>1, <1>2, <1>3, PTL DEF GcSpec

-----------------------------------------------------------------------------
(* RefsCounted.                                                              *)
ArrayRecords ==
    [count : Int, elems : Seq(Elements), owned : SUBSET Nat, freed : BOOLEAN]

RcRecords ==
    [at : {"idle", "copy", "release", "write"}, old : Nat, next : Nat \ {0},
     then : {"idle", "write"}]

RcShapes ==
    /\ rcArrays \in 0..MaxArrays /\ rcElements \in 0..MaxElements
    /\ rcArray \in [Arrays -> ArrayRecords]
    /\ rcElement \in [Elements -> Int]
    /\ rcHeld \in [Threads -> Nat] /\ rcThread \in [Threads -> RcRecords]
    /\ \A t \in Threads :
          /\ rcHeld[t] <= rcArrays /\ Old(t) <= rcArrays
          /\ rcThread[t].at \in {"copy", "release"} => Old(t) # 0

\* t has a reference to a.
Refers(t, a) == rcHeld[t] = a \/ (rcThread[t].at = "copy" /\ Old(t) = a)

Emptying(t, a) == rcThread[t].at = "release" /\ Old(t) = a

\* t is about to write, and has the array alone.
Writes(t) ==
    \/ rcThread[t].at \in {"copy", "write"}
    \/ rcThread[t].at = "release" /\ rcThread[t].then = "write"

Sole(t, a) == \A u \in Threads : Refers(u, a) <=> u = t

CountsRight ==
    \A a \in 1..rcArrays : rcArray[a].count = Cardinality(References(a))

DyingOnce ==
    \A a \in 1..rcArrays :
        /\ (rcArray[a].count = 0 /\ ~rcArray[a].freed) <=> \E t \in Threads : Emptying(t, a)
        /\ \A t, u \in Threads : Emptying(t, a) /\ Emptying(u, a) => t = u

FreedUnused ==
    \A a \in Arrays :
        /\ a > rcArrays => rcArray[a].freed
        /\ rcArray[a].freed => rcArray[a].count = 0 /\ rcArray[a].owned = {}

WritersAlone ==
    \A t \in Threads :
        /\ Writes(t) => rcHeld[t] # 0 /\ Sole(t, rcHeld[t])
        /\ rcThread[t].at = "copy" => rcHeld[t] # Old(t)

Referring == CountsRight /\ DyingOnce /\ FreedUnused /\ WritersAlone

-----------------------------------------------------------------------------
\* The elements of an array are allocated, each is there once.
Filled ==
    \A a \in Arrays :
        /\ rcArray[a].owned \subseteq 1..Len(rcArray[a].elems)
        /\ \A i \in 1..Len(rcArray[a].elems) : rcArray[a].elems[i] <= rcElements
        /\ \A i, j \in 1..Len(rcArray[a].elems) :
              rcArray[a].elems[i] = rcArray[a].elems[j] => i = j

\* t retains the elements of its copy one by one, or releases those of the
\* array it leaves: this many are owned.
KeepsPace(t) ==
    /\ rcThread[t].at = "copy" =>
          /\ rcArray[rcHeld[t]].owned = 1..(rcThread[t].next - 1)
          /\ rcArray[rcHeld[t]].elems = rcArray[Old(t)].elems
          /\ rcThread[t].next <= Len(rcArray[rcHeld[t]].elems) + 1
    /\ rcThread[t].at = "release" =>
          /\ rcArray[Old(t)].owned = rcThread[t].next..Len(rcArray[Old(t)].elems)
          /\ rcThread[t].next <= Len(rcArray[Old(t)].elems) + 1

Tends(t, a) == Emptying(t, a) \/ (rcThread[t].at = "copy" /\ rcHeld[t] = a)

\* Any other array owns all its elements.
OwnsAll(a) ==
    \/ rcArray[a].freed \/ rcArray[a].owned = 1..Len(rcArray[a].elems)
    \/ \E t \in Threads : Tends(t, a)

Owning ==
    /\ \A t \in Threads : KeepsPace(t)
    /\ \A a \in 1..rcArrays : OwnsAll(a)

\* Each element is counted by its owners.
OwnersCounted == \A e \in Elements : rcElement[e] = Cardinality(Owners(e))

RcInv == RcShapes /\ Referring /\ Filled /\ Owning /\ OwnersCounted

-----------------------------------------------------------------------------
(* What the actions do.                                                      *)
LEMMA ArrayRecordTypes ==
    ASSUME RcShapes, NEW a \in Arrays
    PROVE  /\ rcArray[a] \in ArrayRecords /\ rcArray[a].count \in Int
           /\ rcArray[a].elems \in Seq(Elements) /\ Len(rcArray[a].elems) \in Nat
           /\ \A i \in 1..Len(rcArray[a].elems) : rcArray[a].elems[i] \in Elements
<1> QED BY ElementOfSeq, LenProperties DEF RcShapes, ArrayRecords

LEMMA RcFields ==
    ASSUME RcShapes, NEW t \in Threads
    PROVE  /\ rcThread[t] \in RcRecords
           /\ rcHeld[t] \in Nat /\ rcHeld[t] <= rcArrays
           /\ rcThread[t].old \in Nat /\ rcThread[t].old <= rcArrays
           /\ rcThread[t].next \in Nat \ {0} /\ rcThread[t].then \in {"idle", "write"}
           /\ rcThread[t].at \in {"copy", "release"} => rcThread[t].old # 0
           /\ rcArrays \in Nat /\ 1..rcArrays \subseteq Arrays
<1> QED BY RcAssumption DEF RcShapes, RcRecords, Old, Arrays

\* The array a becomes the record r, the others stay.
ArrayBecomes(a, r) ==
    /\ rcArray' \in [Arrays -> ArrayRecords] /\ rcArray'[a] = r
    /\ \A b \in Arrays : b # a => rcArray'[b] = rcArray[b]

ThreadBecomes(t, r) ==
    /\ rcThread' \in [Threads -> RcRecords] /\ rcThread'[t] = r
    /\ \A u \in Threads : u # t => rcThread'[u] = rcThread[u]

HeldBecomes(t, a) ==
    /\ rcHeld' \in [Threads -> Nat] /\ rcHeld'[t] = a
    /\ \A u \in Threads : u # t => rcHeld'[u] = rcHeld[u]

LEMMA ArrayTo ==
    ASSUME RcShapes, NEW a \in Arrays, NEW r \in ArrayRecords,
           rcArray' = [rcArray EXCEPT ![a] = r]
    PROVE  ArrayBecomes(a, r)
<1> QED BY DEF ArrayBecomes, RcShapes

LEMMA ThreadTo ==
    ASSUME RcShapes, NEW t \in Threads, NEW r \in RcRecords,
           rcThread' = [rcThread EXCEPT ![t] = r]
    PROVE  ThreadBecomes(t, r)
<1> QED BY DEF ThreadBecomes, RcShapes

LEMMA HeldTo ==
    ASSUME RcShapes, NEW t \in Threads, NEW a \in Nat,
           rcHeld' = [rcHeld EXCEPT ![t] = a]
    PROVE  HeldBecomes(t, a)
<1> QED BY DEF HeldBecomes, RcShapes

LEMMA NewArrayRecord ==
    ASSUME NEW elems \in Seq(Elements)
    PROVE  /\ NewArray(elems) \in ArrayRecords
           /\ NewArray(elems).count = 1 /\ NewArray(elems).elems = elems
           /\ NewArray(elems).owned = {} /\ NewArray(elems).freed = FALSE
<1> QED BY DEF NewArray, ArrayRecords

LEMMA IdleRcRecord ==
    ASSUME NEW p \in {"idle", "copy", "release", "write"}
    PROVE  /\ [RcIdle EXCEPT !.at = p] \in RcRecords
           /\ [RcIdle EXCEPT !.at = p].at = p /\ [RcIdle EXCEPT !.at = p].old = 0
           /\ [RcIdle EXCEPT !.at = p].next = 1 /\ [RcIdle EXCEPT !.at = p].then = "idle"
<1> QED BY DEF RcIdle, RcRecords

LEMMA CopyRecord ==
    ASSUME NEW a \in Nat
    PROVE  LET r == [RcIdle EXCEPT !.at = "copy", !.old = a]
           IN  /\ r \in RcRecords /\ r.at = "copy" /\ r.old = a /\ r.next = 1
               /\ r.then = "idle"
<1>1. RcIdle \in RcRecords /\ RcIdle.next = 1 /\ RcIdle.then = "idle"
  BY DEF RcIdle, RcRecords
<1> QED BY <1>1 DEF RcRecords

LEMMA AllocDoes ==
    ASSUME RcShapes, NEW t \in Threads, AllocArray(t)
    PROVE  /\ rcArrays + 1 \in Arrays /\ rcArrays' = rcArrays + 1 /\ rcHeld[t] = 0
           /\ rcThread[t].at = "idle"
           /\ ArrayBecomes(rcArrays + 1, NewArray(<<>>)) /\ HeldBecomes(t, rcArrays + 1)
           /\ rcThread' = rcThread /\ rcElement' = rcElement /\ rcElements' = rcElements
<1>1. rcArrays + 1 \in Arrays /\ rcArrays + 1 \in Nat
  BY RcAssumption DEF AllocArray, RcShapes, Arrays
<1>2. NewArray(<<>>) \in ArrayRecords
  BY NewArrayRecord, EmptySeq
<1> QED BY <1>1, <1>2, ArrayTo, HeldTo DEF AllocArray, RcAt

LEMMA RetainDoes ==
    ASSUME RcShapes, NEW t \in Threads, RetainArray(t)
    PROVE  LET a == rcHeld[t]
           IN  /\ a \in 1..rcArrays /\ a \in Arrays /\ rcThread[t].at = "idle"
               /\ ArrayBecomes(a, [rcArray[a] EXCEPT !.count = rcArray[a].count + 1])
               /\ \E u \in Threads : /\ rcHeld[u] = 0 /\ rcThread[u].at = "idle"
                                     /\ HeldBecomes(u, a)
               /\ rcThread' = rcThread /\ rcElement' = rcElement
               /\ rcElements' = rcElements /\ rcArrays' = rcArrays
<1> DEFINE a == rcHeld[t]
<1>1. PICK u \in Threads :
        /\ rcThread[t].at = "idle" /\ rcHeld[t] # 0 /\ rcHeld[u] = 0 /\ rcThread[u].at = "idle"
        /\ rcArray' = [rcArray EXCEPT ![rcHeld[t]].count = @ + 1]
        /\ rcHeld' = [rcHeld EXCEPT ![u] = rcHeld[t]]
        /\ UNCHANGED <<rcArrays, rcElement, rcElements, rcThread>>
  BY DEF RetainArray, RcAt
<1>2. a \in 1..rcArrays /\ a \in Arrays /\ a \in Nat
  BY <1>1, RcFields
<1>3. rcArray' = [rcArray EXCEPT ![a] = [rcArray[a] EXCEPT !.count = rcArray[a].count + 1]]
  BY <1>1
<1>4. [rcArray[a] EXCEPT !.count = rcArray[a].count + 1] \in ArrayRecords
  BY <1>2, ArrayRecordTypes DEF ArrayRecords
<1>5. HeldBecomes(u, a)
  BY <1>1, <1>2, HeldTo
<1>6. ArrayBecomes(a, [rcArray[a] EXCEPT !.count = rcArray[a].count + 1])
  BY <1>2, <1>3, <1>4, ArrayTo
<1> QED BY <1>1, <1>2, <1>5, <1>6

\* What becomes of who gives a reference to a back.
AfterDecrement(a, p) ==
    IF rcArray[a].count = 1 THEN [at |-> "release", old |-> a, next |-> 1, then |-> p]
    ELSE [RcIdle EXCEPT !.at = p]

LEMMA DecrementDoes ==
    ASSUME RcShapes, NEW t \in Threads, NEW a \in 1..rcArrays, NEW p \in {"idle", "write"},
           Decrement(t, a, p)
    PROVE  /\ a \in Arrays
           /\ ArrayBecomes(a, [rcArray[a] EXCEPT !.count = rcArray[a].count - 1])
           /\ ThreadBecomes(t, AfterDecrement(a, p))
           /\ AfterDecrement(a, p).old \in 0..rcArrays
           /\ IF rcArray[a].count = 1
              THEN /\ AfterDecrement(a, p).at = "release" /\ AfterDecrement(a, p).old = a
                   /\ AfterDecrement(a, p).next = 1 /\ AfterDecrement(a, p).then = p
              ELSE AfterDecrement(a, p).at = p /\ AfterDecrement(a, p).then = "idle"
<1>1. a \in Arrays /\ a \in Nat
  BY RcFields
<1>2. rcArray' = [rcArray EXCEPT ![a] = [rcArray[a] EXCEPT !.count = rcArray[a].count - 1]]
  BY DEF Decrement
<1>3. [rcArray[a] EXCEPT !.count = rcArray[a].count - 1] \in ArrayRecords
  BY <1>1, ArrayRecordTypes DEF ArrayRecords
<1>4. rcThread' = [rcThread EXCEPT ![t] = AfterDecrement(a, p)]
  BY DEF Decrement, AfterDecrement
<1>5. AfterDecrement(a, p) \in RcRecords
  BY <1>1, IdleRcRecord DEF AfterDecrement, RcRecords
<1>6. AfterDecrement(a, p).old \in 0..rcArrays
  BY <1>1, IdleRcRecord DEF AfterDecrement, RcShapes
<1>7. IF rcArray[a].count = 1
      THEN /\ AfterDecrement(a, p).at = "release" /\ AfterDecrement(a, p).old = a
           /\ AfterDecrement(a, p).next = 1 /\ AfterDecrement(a, p).then = p
      ELSE AfterDecrement(a, p).at = p /\ AfterDecrement(a, p).then = "idle"
  BY IdleRcRecord DEF AfterDecrement
<1> QED BY <1>1, <1>2, <1>3, <1>4, <1>5, <1>6, <1>7, ArrayTo, ThreadTo

LEMMA DropDoes ==
    ASSUME RcShapes, NEW t \in Threads, DropArray(t)
    PROVE  /\ rcHeld[t] \in 1..rcArrays /\ rcThread[t].at = "idle"
           /\ Decrement(t, rcHeld[t], "idle") /\ HeldBecomes(t, 0)
           /\ rcElement' = rcElement /\ rcElements' = rcElements /\ rcArrays' = rcArrays
<1>1. rcHeld[t] \in 1..rcArrays
  BY RcFields DEF DropArray
<1> QED BY <1>1, HeldTo DEF DropArray, RcAt

LEMMA LeaveDoes ==
    ASSUME RcShapes, NEW t \in Threads, LeaveOld(t)
    PROVE  /\ Old(t) \in 1..rcArrays /\ rcThread[t].at = "copy"
           /\ rcThread[t].next > Len(rcArray[rcHeld[t]].elems)
           /\ Decrement(t, Old(t), "write") /\ rcHeld' = rcHeld
           /\ rcElement' = rcElement /\ rcElements' = rcElements /\ rcArrays' = rcArrays
<1>1. Old(t) \in 1..rcArrays
  BY RcFields DEF LeaveOld, RcAt, Old
<1> QED BY <1>1 DEF LeaveOld, RcAt

LEMMA PrepareDoes ==
    ASSUME RcShapes, NEW t \in Threads, PrepareMut(t)
    PROVE  LET a == rcHeld[t]
           IN  /\ a \in 1..rcArrays /\ a \in Arrays /\ rcThread[t].at = "idle"
               /\ rcElement' = rcElement /\ rcElements' = rcElements
               /\ \/ /\ rcArray[a].count = 1 /\ ThreadBecomes(t, [RcIdle EXCEPT !.at = "write"])
                     /\ rcArray' = rcArray /\ rcArrays' = rcArrays /\ rcHeld' = rcHeld
                  \/ /\ rcArray[a].count # 1 /\ rcArrays + 1 \in Arrays
                     /\ rcArrays' = rcArrays + 1
                     /\ ArrayBecomes(rcArrays + 1, NewArray(rcArray[a].elems))
                     /\ HeldBecomes(t, rcArrays + 1)
                     /\ ThreadBecomes(t, [RcIdle EXCEPT !.at = "copy", !.old = a])
<1> DEFINE a == rcHeld[t]
<1>1. a \in 1..rcArrays /\ a \in Arrays /\ rcThread[t].at = "idle" /\ a \in Nat
  BY RcFields DEF PrepareMut, RcAt
<1>2. CASE rcArray[a].count = 1 /\ RcGo(t, "write") /\ UNCHANGED <<rcArray, rcArrays, rcHeld>>
  <2>1. ThreadBecomes(t, [RcIdle EXCEPT !.at = "write"])
    BY <1>2, IdleRcRecord, ThreadTo DEF RcGo
  <2> QED BY <1>1, <1>2, <2>1 DEF PrepareMut
<1>3. CASE /\ rcArray[a].count # 1 /\ rcArrays < MaxArrays
           /\ rcArrays' = rcArrays + 1
           /\ rcArray' = [rcArray EXCEPT ![rcArrays + 1] = NewArray(rcArray[a].elems)]
           /\ rcHeld' = [rcHeld EXCEPT ![t] = rcArrays + 1]
           /\ rcThread' = [rcThread EXCEPT ![t] = [RcIdle EXCEPT !.at = "copy", !.old = a]]
  <2>1. rcArrays + 1 \in Arrays /\ rcArrays + 1 \in Nat
    BY <1>3, RcAssumption DEF RcShapes, Arrays
  <2>2. NewArray(rcArray[a].elems) \in ArrayRecords
    BY <1>1, ArrayRecordTypes, NewArrayRecord
  <2>3. [RcIdle EXCEPT !.at = "copy", !.old = a] \in RcRecords
    BY <1>1, CopyRecord
  <2>4. /\ ArrayBecomes(rcArrays + 1, NewArray(rcArray[a].elems))
        /\ HeldBecomes(t, rcArrays + 1)
        /\ ThreadBecomes(t, [RcIdle EXCEPT !.at = "copy", !.old = a])
    BY <1>3, <2>1, <2>2, <2>3, ArrayTo, HeldTo, ThreadTo
  <2> QED BY <1>1, <1>3, <2>1, <2>4 DEF PrepareMut
<1> QED BY <1>2, <1>3 DEF PrepareMut

LEMMA NextRecord ==
    ASSUME NEW r \in RcRecords, NEW i \in Nat
    PROVE  /\ [r EXCEPT !.next = i + 1] \in RcRecords
           /\ [r EXCEPT !.next = i + 1].at = r.at /\ [r EXCEPT !.next = i + 1].old = r.old
           /\ [r EXCEPT !.next = i + 1].next = i + 1
           /\ [r EXCEPT !.next = i + 1].then = r.then
<1> QED BY DEF RcRecords

LEMMA OwnedRecord ==
    ASSUME NEW r \in ArrayRecords, NEW o \in SUBSET Nat
    PROVE  /\ [r EXCEPT !.owned = o] \in ArrayRecords
           /\ [r EXCEPT !.owned = o].count = r.count /\ [r EXCEPT !.owned = o].elems = r.elems
           /\ [r EXCEPT !.owned = o].owned = o /\ [r EXCEPT !.owned = o].freed = r.freed
<1> QED BY DEF ArrayRecords

\* The array a owns o, and the element e is counted n times.
LEMMA RetainElementDoes ==
    ASSUME RcShapes, NEW t \in Threads, RetainElement(t), rcHeld[t] # 0
    PROVE  LET a == rcHeld[t]
               i == rcThread[t].next
               e == rcArray[a].elems[i]
           IN  /\ a \in 1..rcArrays /\ a \in Arrays /\ rcThread[t].at = "copy"
               /\ i \in 1..Len(rcArray[a].elems) /\ e \in Elements
               /\ ArrayBecomes(a, [rcArray[a] EXCEPT !.owned = rcArray[a].owned \cup {i}])
               /\ ThreadBecomes(t, [rcThread[t] EXCEPT !.next = i + 1])
               /\ rcElement' = [rcElement EXCEPT ![e] = rcElement[e] + 1]
               /\ rcHeld' = rcHeld /\ rcElements' = rcElements /\ rcArrays' = rcArrays
<1> DEFINE a == rcHeld[t]
           i == rcThread[t].next
           e == rcArray[a].elems[i]
<1>1. a \in 1..rcArrays /\ a \in Arrays /\ i \in Nat \ {0} /\ rcThread[t] \in RcRecords
  BY RcFields
<1>2. i \in 1..Len(rcArray[a].elems) /\ rcArray[a] \in ArrayRecords /\ e \in Elements
  BY <1>1, ArrayRecordTypes DEF RetainElement
<1>3. rcArray[a].owned \cup {i} \in SUBSET Nat
  BY <1>1, <1>2 DEF ArrayRecords
<1>4. /\ rcThread[t].at = "copy"
      /\ rcArray' = [rcArray EXCEPT ![a] = [rcArray[a] EXCEPT !.owned = rcArray[a].owned \cup {i}]]
      /\ rcThread' = [rcThread EXCEPT ![t] = [rcThread[t] EXCEPT !.next = i + 1]]
      /\ rcElement' = [rcElement EXCEPT ![e] = rcElement[e] + 1]
      /\ rcHeld' = rcHeld /\ rcElements' = rcElements /\ rcArrays' = rcArrays
  BY DEF RetainElement, RcAt
<1>5. ArrayBecomes(a, [rcArray[a] EXCEPT !.owned = rcArray[a].owned \cup {i}])
  BY <1>1, <1>2, <1>3, <1>4, OwnedRecord, ArrayTo
<1>6. ThreadBecomes(t, [rcThread[t] EXCEPT !.next = i + 1])
  BY <1>1, <1>4, NextRecord, ThreadTo
<1> QED BY <1>1, <1>2, <1>4, <1>5, <1>6

LEMMA ReleaseElementDoes ==
    ASSUME RcShapes, NEW t \in Threads, ReleaseElement(t)
    PROVE  LET a == Old(t)
               i == rcThread[t].next
               e == rcArray[a].elems[i]
           IN  /\ a \in 1..rcArrays /\ a \in Arrays /\ rcThread[t].at = "release"
               /\ i \in 1..Len(rcArray[a].elems) /\ e \in Elements
               /\ ArrayBecomes(a, [rcArray[a] EXCEPT !.owned = rcArray[a].owned \ {i}])
               /\ ThreadBecomes(t, [rcThread[t] EXCEPT !.next = i + 1])
               /\ rcElement' = [rcElement EXCEPT ![e] = rcElement[e] - 1]
               /\ rcHeld' = rcHeld /\ rcElements' = rcElements /\ rcArrays' = rcArrays
<1> DEFINE a == Old(t)
           i == rcThread[t].next
           e == rcArray[a].elems[i]
<1>0. rcThread[t].at = "release"
  BY DEF ReleaseElement, RcAt
<1>1. a \in 1..rcArrays /\ a \in Arrays /\ i \in Nat \ {0} /\ rcThread[t] \in RcRecords
  BY <1>0, RcFields DEF Old
<1>2. i \in 1..Len(rcArray[a].elems) /\ rcArray[a] \in ArrayRecords /\ e \in Elements
  BY <1>1, ArrayRecordTypes DEF ReleaseElement
<1>3. rcArray[a].owned \ {i} \in SUBSET Nat
  BY <1>2 DEF ArrayRecords
<1>4. /\ rcArray' = [rcArray EXCEPT ![a] = [rcArray[a] EXCEPT !.owned = rcArray[a].owned \ {i}]]
      /\ rcThread' = [rcThread EXCEPT ![t] = [rcThread[t] EXCEPT !.next = i + 1]]
      /\ rcElement' = [rcElement EXCEPT ![e] = rcElement[e] - 1]
      /\ rcHeld' = rcHeld /\ rcElements' = rcElements /\ rcArrays' = rcArrays
  BY DEF ReleaseElement
<1> HIDE DEF a
<1>5. ArrayBecomes(a, [rcArray[a] EXCEPT !.owned = rcArray[a].owned \ {i}])
  BY <1>1, <1>2, <1>3, <1>4, OwnedRecord, ArrayTo
<1>6. ThreadBecomes(t, [rcThread[t] EXCEPT !.next = i + 1])
  BY <1>1, <1>4, NextRecord, ThreadTo
<1> QED BY <1>0, <1>1, <1>2, <1>4, <1>5, <1>6 DEF a

LEMMA FreeDoes ==
    ASSUME RcShapes, NEW t \in Threads, FreeArray(t)
    PROVE  LET a == Old(t)
           IN  /\ a \in 1..rcArrays /\ a \in Arrays /\ rcThread[t].at = "release"
               /\ rcThread[t].next > Len(rcArray[a].elems)
               /\ ArrayBecomes(a, [rcArray[a] EXCEPT !.freed = TRUE])
               /\ ThreadBecomes(t, [RcIdle EXCEPT !.at = rcThread[t].then])
               /\ rcThread[t].then \in {"idle", "write"} /\ rcElement' = rcElement
               /\ rcHeld' = rcHeld /\ rcElements' = rcElements /\ rcArrays' = rcArrays
<1> DEFINE a == Old(t)
<1>0. rcThread[t].at = "release"
  BY DEF FreeArray, RcAt
<1>1. a \in 1..rcArrays /\ a \in Arrays /\ rcThread[t].then \in {"idle", "write"}
  BY <1>0, RcFields DEF Old
<1>2. [rcArray[a] EXCEPT !.freed = TRUE] \in ArrayRecords
  BY <1>1, ArrayRecordTypes DEF ArrayRecords
<1>3. /\ rcArray' = [rcArray EXCEPT ![a] = [rcArray[a] EXCEPT !.freed = TRUE]]
      /\ rcThread' = [rcThread EXCEPT ![t] = [RcIdle EXCEPT !.at = rcThread[t].then]]
      /\ rcHeld' = rcHeld /\ rcElements' = rcElements /\ rcArrays' = rcArrays
      /\ rcElement' = rcElement /\ rcThread[t].next > Len(rcArray[a].elems)
  BY DEF FreeArray, RcGo
<1> HIDE DEF a
<1>4. ArrayBecomes(a, [rcArray[a] EXCEPT !.freed = TRUE])
  BY <1>1, <1>2, <1>3, ArrayTo
<1>5. ThreadBecomes(t, [RcIdle EXCEPT !.at = rcThread[t].then])
  BY <1>1, <1>3, IdleRcRecord, ThreadTo
<1> QED BY <1>0, <1>1, <1>3, <1>4, <1>5 DEF a

\* The sequence s with o owned is the content of r.
LEMMA ContentRecord ==
    ASSUME NEW r \in ArrayRecords, NEW s \in Seq(Elements), NEW o \in SUBSET Nat
    PROVE  LET n == [r EXCEPT !.elems = s, !.owned = o]
           IN  /\ n \in ArrayRecords /\ n.count = r.count /\ n.freed = r.freed
               /\ n.elems = s /\ n.owned = o
<1> QED BY DEF ArrayRecords

\* What is written at the end.
Appends(t) ==
    LET a == rcHeld[t]
        n == Len(rcArray[a].elems)
    IN  /\ rcElements + 1 \in Elements /\ rcElements' = rcElements + 1
        /\ rcElement' = [rcElement EXCEPT ![rcElements + 1] = 1]
        /\ ArrayBecomes(a, [rcArray[a] EXCEPT
               !.elems = Append(rcArray[a].elems, rcElements + 1),
               !.owned = rcArray[a].owned \cup {n + 1}])

TakesLast(t) ==
    LET a == rcHeld[t]
        n == Len(rcArray[a].elems)
        e == rcArray[a].elems[n]
    IN  /\ n > 0 /\ e \in Elements /\ rcElements' = rcElements
        /\ rcElement' = [rcElement EXCEPT ![e] = rcElement[e] - 1]
        /\ ArrayBecomes(a, [rcArray[a] EXCEPT
               !.elems = SubSeq(rcArray[a].elems, 1, n - 1),
               !.owned = rcArray[a].owned \ {n}])

LEMMA WriteDoes ==
    ASSUME RcShapes, NEW t \in Threads, WriteArray(t), rcHeld[t] # 0
    PROVE  /\ rcHeld[t] \in 1..rcArrays /\ rcHeld[t] \in Arrays /\ rcThread[t].at = "write"
           /\ ThreadBecomes(t, [RcIdle EXCEPT !.at = "idle"])
           /\ rcHeld' = rcHeld /\ rcArrays' = rcArrays
           /\ \/ Appends(t)
              \/ TakesLast(t)
              \/ rcArray' = rcArray /\ rcElement' = rcElement /\ rcElements' = rcElements
<1> DEFINE a == rcHeld[t]
           n == Len(rcArray[a].elems)
<1>1. a \in 1..rcArrays /\ a \in Arrays /\ rcArray[a] \in ArrayRecords
      /\ rcArray[a].elems \in Seq(Elements) /\ n \in Nat /\ rcArray[a].owned \in SUBSET Nat
  BY RcFields, ArrayRecordTypes DEF ArrayRecords
<1>2. /\ rcThread[t].at = "write" /\ rcHeld' = rcHeld /\ rcArrays' = rcArrays
      /\ RcGo(t, "idle")
  BY DEF WriteArray, RcAt
<1>3. ThreadBecomes(t, [RcIdle EXCEPT !.at = "idle"])
  BY <1>2, IdleRcRecord, ThreadTo DEF RcGo
<1>4. CASE /\ rcElements < MaxElements /\ rcElements' = rcElements + 1
           /\ rcElement' = [rcElement EXCEPT ![rcElements + 1] = 1]
           /\ rcArray' = [rcArray EXCEPT ![a].elems = Append(@, rcElements + 1),
                                         ![a].owned = @ \cup {n + 1}]
  <2> DEFINE s == Append(rcArray[a].elems, rcElements + 1)
             o == rcArray[a].owned \cup {n + 1}
  <2>1. rcElements + 1 \in Elements
    BY <1>4, RcAssumption DEF RcShapes, Elements
  <2>2. s \in Seq(Elements) /\ o \in SUBSET Nat
    BY <1>1, <2>1, AppendProperties
  <2>3. rcArray' = [rcArray EXCEPT ![a] = [rcArray[a] EXCEPT !.elems = s, !.owned = o]]
    BY <1>4
  <2>4. [rcArray[a] EXCEPT !.elems = s, !.owned = o] \in ArrayRecords
    BY <1>1, <2>2, ContentRecord
  <2>5. ArrayBecomes(a, [rcArray[a] EXCEPT !.elems = s, !.owned = o])
    BY <1>1, <2>3, <2>4, ArrayTo
  <2>6. Appends(t)
    BY <1>4, <2>1, <2>5 DEF Appends
  <2> QED BY <1>1, <1>2, <1>3, <2>6
<1>5. CASE /\ n > 0
           /\ rcElement' = [rcElement EXCEPT ![rcArray[a].elems[n]] = @ - 1]
           /\ rcArray' = [rcArray EXCEPT ![a].elems = SubSeq(@, 1, n - 1),
                                         ![a].owned = @ \ {n}]
           /\ UNCHANGED rcElements
  <2> DEFINE s == SubSeq(rcArray[a].elems, 1, n - 1)
             o == rcArray[a].owned \ {n}
             e == rcArray[a].elems[n]
  <2>1. e \in Elements /\ \A i \in 1..(n - 1) : rcArray[a].elems[i] \in Elements
    BY <1>1, <1>5, ElementOfSeq
  <2>2. s \in Seq(Elements) /\ o \in SUBSET Nat
    <3>1. n - 1 \in Int /\ 1 \in Int
      BY <1>1
    <3> QED BY <1>1, <2>1, <3>1, SubSeqProperties
  <2>3. rcArray' = [rcArray EXCEPT ![a] = [rcArray[a] EXCEPT !.elems = s, !.owned = o]]
    BY <1>5
  <2>4. [rcArray[a] EXCEPT !.elems = s, !.owned = o] \in ArrayRecords
    BY <1>1, <2>2, ContentRecord
  <2>5. ArrayBecomes(a, [rcArray[a] EXCEPT !.elems = s, !.owned = o])
    BY <1>1, <2>3, <2>4, ArrayTo
  <2>6. rcElement' = [rcElement EXCEPT ![e] = rcElement[e] - 1]
    BY <1>5
  <2>7. TakesLast(t)
    BY <1>5, <2>1, <2>5, <2>6 DEF TakesLast
  <2> QED BY <1>1, <1>2, <1>3, <2>7
<1>6. CASE UNCHANGED <<rcArray, rcElement, rcElements>>
  BY <1>1, <1>2, <1>3, <1>6
<1> QED BY <1>4, <1>5, <1>6 DEF WriteArray

-----------------------------------------------------------------------------
(* Types.                                                                    *)
LEMMA RcThreadsKept ==
    ASSUME RcShapes, NEW t \in Threads, NEW r, ThreadBecomes(t, r), r.old <= rcArrays',
           r.at \in {"copy", "release"} => r.old # 0, rcArrays <= rcArrays', rcArrays' \in Nat
    PROVE  /\ rcThread' \in [Threads -> RcRecords]
           /\ \A u \in Threads : /\ Old(u)' <= rcArrays'
                                 /\ rcThread'[u].at \in {"copy", "release"} => Old(u)' # 0
<1> SUFFICES ASSUME NEW u \in Threads
             PROVE  /\ Old(u)' <= rcArrays'
                    /\ rcThread'[u].at \in {"copy", "release"} => Old(u)' # 0
  BY DEF ThreadBecomes
<1>1. CASE u = t
  BY <1>1 DEF ThreadBecomes, Old
<1>2. CASE u # t
  <2>1. rcThread'[u] = rcThread[u]
    BY <1>2 DEF ThreadBecomes
  <2> QED BY <2>1, RcFields DEF Old
<1> QED BY <1>1, <1>2

LEMMA RcHeldKept ==
    ASSUME RcShapes, NEW t \in Threads, NEW a \in Nat, HeldBecomes(t, a), a <= rcArrays',
           rcArrays <= rcArrays', rcArrays' \in Nat
    PROVE  /\ rcHeld' \in [Threads -> Nat]
           /\ \A u \in Threads : rcHeld'[u] <= rcArrays'
<1> SUFFICES ASSUME NEW u \in Threads PROVE rcHeld'[u] <= rcArrays'
  BY DEF HeldBecomes
<1> QED BY RcFields DEF HeldBecomes

LEMMA RcElementTo ==
    ASSUME RcShapes, NEW e \in Elements, NEW n \in Int,
           rcElement' = [rcElement EXCEPT ![e] = n]
    PROVE  /\ rcElement' \in [Elements -> Int] /\ rcElement'[e] = n
           /\ \A f \in Elements : f # e => rcElement'[f] = rcElement[f]
<1> QED BY DEF RcShapes

THEOREM InitRcShapes == RcInit => RcShapes
<1> SUFFICES ASSUME RcInit PROVE RcShapes
  OBVIOUS
<1>1. [NewArray(<<>>) EXCEPT !.count = 0, !.freed = TRUE] \in ArrayRecords
  <2> DEFINE z == NewArray(<<>>)
  <2>1. z \in ArrayRecords
    BY NewArrayRecord, EmptySeq
  <2> HIDE DEF z
  <2> DEFINE y == [z EXCEPT !.count = 0]
  <2>2a. y \in ArrayRecords
    BY <2>1 DEF ArrayRecords
  <2>2b. [y EXCEPT !.freed = TRUE] = [z EXCEPT !.count = 0, !.freed = TRUE]
    OBVIOUS
  <2>2c. [y EXCEPT !.freed = TRUE] \in ArrayRecords
    <3> HIDE DEF y
    <3> QED BY <2>2a DEF ArrayRecords
  <2>2. [z EXCEPT !.count = 0, !.freed = TRUE] \in ArrayRecords
    BY <2>2b, <2>2c
  <2> QED BY <2>2 DEF z
<1>2. RcIdle \in RcRecords /\ RcIdle.at = "idle" /\ RcIdle.old = 0
  BY DEF RcIdle, RcRecords
<1> QED BY <1>1, <1>2, RcAssumption DEF RcInit, RcShapes, Old

THEOREM RcShapesKept == RcShapes /\ WritersAlone /\ [RcNext]_rcVars => RcShapes'
<1> SUFFICES ASSUME RcShapes, WritersAlone, [RcNext]_rcVars PROVE RcShapes'
  OBVIOUS
<1>0. /\ rcArrays \in 0..MaxArrays /\ rcElements \in 0..MaxElements /\ rcArrays \in Nat
      /\ rcArray \in [Arrays -> ArrayRecords] /\ rcElement \in [Elements -> Int]
      /\ rcHeld \in [Threads -> Nat] /\ rcThread \in [Threads -> RcRecords]
      /\ \A t \in Threads : rcHeld[t] <= rcArrays
      /\ \A t \in Threads : Old(t) <= rcArrays
      /\ \A t \in Threads : rcThread[t].at \in {"copy", "release"} => Old(t) # 0
  BY RcAssumption DEF RcShapes
<1>1. CASE UNCHANGED rcVars
  BY <1>1 DEF RcShapes, rcVars, Old
<1>2. ASSUME NEW t \in Threads, AllocArray(t) PROVE RcShapes'
  <2>1. /\ rcArrays' = rcArrays + 1 /\ rcArrays + 1 \in Arrays /\ HeldBecomes(t, rcArrays + 1)
        /\ rcArray' \in [Arrays -> ArrayRecords] /\ rcThread' = rcThread
        /\ rcElement' = rcElement /\ rcElements' = rcElements
    BY <1>2, AllocDoes DEF ArrayBecomes
  <2>2. /\ rcArrays' \in 0..MaxArrays /\ rcArrays' \in Nat /\ rcArrays <= rcArrays'
    BY <2>1, <1>0, RcAssumption DEF Arrays
  <2>3. rcHeld' \in [Threads -> Nat] /\ \A u \in Threads : rcHeld'[u] <= rcArrays'
    BY <2>1, <2>2, RcHeldKept
  <2>4. \A u \in Threads : /\ Old(u)' <= rcArrays'
                           /\ rcThread'[u].at \in {"copy", "release"} => Old(u)' # 0
    BY <2>1, RcFields DEF Old
  <2> QED BY <1>0, <2>1, <2>2, <2>3, <2>4 DEF RcShapes
<1>3. ASSUME NEW t \in Threads, RetainArray(t) PROVE RcShapes'
  <2>1. PICK u \in Threads : HeldBecomes(u, rcHeld[t])
    BY <1>3, RetainDoes
  <2>2. /\ rcArray' \in [Arrays -> ArrayRecords] /\ rcThread' = rcThread
        /\ rcElement' = rcElement /\ rcElements' = rcElements /\ rcArrays' = rcArrays
    BY <1>3, RetainDoes DEF ArrayBecomes
  <2>3. rcHeld' \in [Threads -> Nat] /\ \A w \in Threads : rcHeld'[w] <= rcArrays'
    BY <1>0, <2>1, <2>2, RcHeldKept
  <2> QED BY <1>0, <2>2, <2>3 DEF RcShapes, Old
<1>4. ASSUME NEW t \in Threads, NEW a \in 1..rcArrays, NEW p \in {"idle", "write"},
             Decrement(t, a, p), rcArrays' = rcArrays, rcElement' = rcElement,
             rcElements' = rcElements, rcHeld' = rcHeld \/ HeldBecomes(t, 0)
      PROVE  RcShapes'
  <2> DEFINE r == AfterDecrement(a, p)
  <2>1. /\ ThreadBecomes(t, r) /\ r.old \in 0..rcArrays
        /\ rcArray' \in [Arrays -> ArrayRecords]
    BY <1>4, DecrementDoes DEF ArrayBecomes
  <2>1b. (r.at = "release" /\ r.old = a) \/ r.at = p
    <3>1. CASE rcArray[a].count = 1
      BY <1>4, <3>1, DecrementDoes
    <3>2. CASE rcArray[a].count # 1
      BY <1>4, <3>2, DecrementDoes
    <3> QED BY <3>1, <3>2
  <2>1a. r.old <= rcArrays' /\ (r.at \in {"copy", "release"} => r.old # 0)
    BY <1>0, <1>4, <2>1, <2>1b
  <2> HIDE DEF r
  <2>2. /\ rcThread' \in [Threads -> RcRecords]
        /\ \A u \in Threads : /\ Old(u)' <= rcArrays'
                              /\ rcThread'[u].at \in {"copy", "release"} => Old(u)' # 0
    BY <1>0, <1>4, <2>1, <2>1a, RcThreadsKept
  <2>3. rcHeld' \in [Threads -> Nat] /\ \A u \in Threads : rcHeld'[u] <= rcArrays'
    BY <1>0, <1>4, RcHeldKept
  <2> QED BY <1>0, <1>4, <2>1, <2>2, <2>3 DEF RcShapes
<1>5. ASSUME NEW t \in Threads, PrepareMut(t) PROVE RcShapes'
  <2> DEFINE a == rcHeld[t]
  <2>0. a \in 1..rcArrays /\ a \in Nat /\ rcElement' = rcElement /\ rcElements' = rcElements
    BY <1>5, <1>0, PrepareDoes
  <2>1. CASE /\ ThreadBecomes(t, [RcIdle EXCEPT !.at = "write"])
             /\ rcArray' = rcArray /\ rcArrays' = rcArrays /\ rcHeld' = rcHeld
    <3> DEFINE r == [RcIdle EXCEPT !.at = "write"]
    <3>0. r.old = 0 /\ r.at = "write" /\ ThreadBecomes(t, r)
      BY <2>1, IdleRcRecord
    <3> HIDE DEF r
    <3>1. /\ rcThread' \in [Threads -> RcRecords]
          /\ \A u \in Threads : /\ Old(u)' <= rcArrays'
                                /\ rcThread'[u].at \in {"copy", "release"} => Old(u)' # 0
      BY <1>0, <2>1, <3>0, RcThreadsKept
    <3> QED BY <1>0, <2>0, <2>1, <3>1 DEF RcShapes
  <2>2. CASE /\ rcArrays + 1 \in Arrays /\ rcArrays' = rcArrays + 1
             /\ ArrayBecomes(rcArrays + 1, NewArray(rcArray[a].elems))
             /\ HeldBecomes(t, rcArrays + 1)
             /\ ThreadBecomes(t, [RcIdle EXCEPT !.at = "copy", !.old = a])
    <3>1. /\ rcArrays' \in 0..MaxArrays /\ rcArrays' \in Nat /\ rcArrays <= rcArrays'
      BY <2>2, <1>0, RcAssumption DEF Arrays
    <3>2. rcHeld' \in [Threads -> Nat] /\ \A u \in Threads : rcHeld'[u] <= rcArrays'
      BY <2>2, <3>1, RcHeldKept
    <3> DEFINE r == [RcIdle EXCEPT !.at = "copy", !.old = a]
    <3>3b. r.old = a
      BY <2>0, CopyRecord
    <3>3. r.old = a /\ a <= rcArrays' /\ a # 0
      BY <2>0, <2>2, <1>0, <3>3b
    <3>3a. ThreadBecomes(t, r)
      BY <2>2
    <3> HIDE DEF r
    <3>4. /\ rcThread' \in [Threads -> RcRecords]
          /\ \A u \in Threads : /\ Old(u)' <= rcArrays'
                                /\ rcThread'[u].at \in {"copy", "release"} => Old(u)' # 0
      BY <3>1, <3>3, <3>3a, RcThreadsKept
    <3> QED BY <1>0, <2>0, <2>2, <3>1, <3>2, <3>4 DEF RcShapes, ArrayBecomes
  <2> QED BY <1>5, <2>1, <2>2, PrepareDoes
<1>6. ASSUME NEW t \in Threads, RetainElement(t) \/ ReleaseElement(t) PROVE RcShapes'
  <2>0. RetainElement(t) => rcHeld[t] # 0
    BY DEF WritersAlone, Writes, RetainElement, RcAt
  <2> DEFINE r == [rcThread[t] EXCEPT !.next = rcThread[t].next + 1]
  <2>1. /\ rcArray' \in [Arrays -> ArrayRecords] /\ rcHeld' = rcHeld
        /\ rcElements' = rcElements /\ rcArrays' = rcArrays /\ ThreadBecomes(t, r)
    BY <1>6, <2>0, RetainElementDoes, ReleaseElementDoes DEF ArrayBecomes
  <2>2. PICK e \in Elements, n \in Int : rcElement' = [rcElement EXCEPT ![e] = n]
    <3>1. CASE RetainElement(t)
      <4> DEFINE e == rcArray[rcHeld[t]].elems[rcThread[t].next]
      <4>1. e \in Elements /\ rcElement' = [rcElement EXCEPT ![e] = rcElement[e] + 1]
        BY <3>1, <2>0, RetainElementDoes
      <4> HIDE DEF e
      <4>2. rcElement[e] + 1 \in Int /\ rcElement[e] - 1 \in Int
        BY <1>0, <4>1
      <4> QED BY <4>1, <4>2
    <3>2. CASE ReleaseElement(t)
      <4> DEFINE e == rcArray[Old(t)].elems[rcThread[t].next]
      <4>1. e \in Elements /\ rcElement' = [rcElement EXCEPT ![e] = rcElement[e] - 1]
        BY <3>2, ReleaseElementDoes
      <4> HIDE DEF e
      <4>2. rcElement[e] + 1 \in Int /\ rcElement[e] - 1 \in Int
        BY <1>0, <4>1
      <4> QED BY <4>1, <4>2
    <3> QED BY <1>6, <3>1, <3>2
  <2>3. rcElement' \in [Elements -> Int]
    BY <2>2, RcElementTo
  <2>4. r.old = Old(t) /\ r.at = rcThread[t].at
    BY NextRecord, RcFields DEF Old
  <2> HIDE DEF r
  <2>5. /\ rcThread' \in [Threads -> RcRecords]
        /\ \A u \in Threads : /\ Old(u)' <= rcArrays'
                              /\ rcThread'[u].at \in {"copy", "release"} => Old(u)' # 0
    BY <1>0, <2>1, <2>4, RcThreadsKept
  <2> QED BY <1>0, <2>1, <2>3, <2>5 DEF RcShapes
<1>7. ASSUME NEW t \in Threads, FreeArray(t) PROVE RcShapes'
  <2> DEFINE r == [RcIdle EXCEPT !.at = rcThread[t].then]
  <2>1. /\ rcArray' \in [Arrays -> ArrayRecords] /\ rcHeld' = rcHeld
        /\ rcElements' = rcElements /\ rcArrays' = rcArrays /\ ThreadBecomes(t, r)
        /\ rcElement' = rcElement /\ rcThread[t].then \in {"idle", "write"}
    BY <1>7, FreeDoes DEF ArrayBecomes
  <2>2. r.old = 0 /\ r.at \in {"idle", "write"}
    BY <2>1, IdleRcRecord
  <2> HIDE DEF r
  <2>3. /\ rcThread' \in [Threads -> RcRecords]
        /\ \A u \in Threads : /\ Old(u)' <= rcArrays'
                              /\ rcThread'[u].at \in {"copy", "release"} => Old(u)' # 0
    BY <1>0, <2>1, <2>2, RcThreadsKept
  <2> QED BY <1>0, <2>1, <2>3 DEF RcShapes
<1>8. ASSUME NEW t \in Threads, WriteArray(t) PROVE RcShapes'
  <2>0. rcHeld[t] # 0
    BY <1>8 DEF WritersAlone, Writes, WriteArray, RcAt
  <2> DEFINE r == [RcIdle EXCEPT !.at = "idle"]
  <2>1. /\ rcHeld' = rcHeld /\ rcArrays' = rcArrays /\ ThreadBecomes(t, r)
        /\ \/ Appends(t) \/ TakesLast(t)
           \/ rcArray' = rcArray /\ rcElement' = rcElement /\ rcElements' = rcElements
    BY <1>8, <2>0, WriteDoes
  <2>2. r.old = 0 /\ r.at \in {"idle", "write"}
    BY IdleRcRecord
  <2> HIDE DEF r
  <2>3. /\ rcThread' \in [Threads -> RcRecords]
        /\ \A u \in Threads : /\ Old(u)' <= rcArrays'
                              /\ rcThread'[u].at \in {"copy", "release"} => Old(u)' # 0
    BY <1>0, <2>1, <2>2, RcThreadsKept
  <2>4. /\ rcArray' \in [Arrays -> ArrayRecords] /\ rcElement' \in [Elements -> Int]
        /\ rcElements' \in 0..MaxElements
    <3>1. CASE Appends(t)
      <4> DEFINE e == rcElements + 1
      <4>0. e \in Elements /\ rcElement' = [rcElement EXCEPT ![e] = 1]
        BY <3>1 DEF Appends
      <4> HIDE DEF e
      <4>1. rcElement' \in [Elements -> Int]
        BY <4>0, <1>0
      <4> QED BY <3>1, <4>1, <1>0, RcAssumption DEF Appends, ArrayBecomes, Elements
    <3>2. CASE TakesLast(t)
      <4> DEFINE e == rcArray[rcHeld[t]].elems[Len(rcArray[rcHeld[t]].elems)]
      <4>0. e \in Elements /\ rcElement' = [rcElement EXCEPT ![e] = rcElement[e] - 1]
        BY <3>2 DEF TakesLast
      <4>0a. rcElement[e] - 1 \in Int
        BY <4>0, <1>0
      <4> HIDE DEF e
      <4>2. rcElement' \in [Elements -> Int]
        BY <4>0, <4>0a, RcElementTo
      <4> QED BY <3>2, <4>2, <1>0 DEF TakesLast, ArrayBecomes
    <3> QED BY <2>1, <3>1, <3>2, <1>0
  <2> QED BY <1>0, <2>1, <2>3, <2>4 DEF RcShapes
<1>9. ASSUME NEW t \in Threads, DropArray(t) \/ LeaveOld(t) PROVE RcShapes'
  <2>1. CASE DropArray(t)
    BY <2>1, <1>4, DropDoes
  <2>2. CASE LeaveOld(t)
    BY <2>2, <1>4, LeaveDoes
  <2> QED BY <1>9, <2>1, <2>2
<1> QED BY <1>1, <1>2, <1>3, <1>5, <1>6, <1>7, <1>8, <1>9 DEF RcNext

-----------------------------------------------------------------------------
(* References and their counts.                                              *)
LEMMA ReferencesFinite ==
    \A a : References(a) = {t \in Threads : Refers(t, a)} /\ IsFiniteSet(References(a))
<1> TAKE a
<1>1. References(a) = {t \in Threads : Refers(t, a)}
  BY DEF References, Refers, RcAt, Old
<1>2. References(a) \in SUBSET Threads
  BY <1>1
<1> QED BY <1>1, <1>2, RcAssumption, FS_Subset

LEMMA ReferencesStay ==
    ASSUME NEW a, \A u \in Threads : Refers(u, a)' <=> Refers(u, a)
    PROVE  References(a)' = References(a)
<1>1. References(a) = {u \in Threads : Refers(u, a)}
  BY ReferencesFinite
<1>2. References(a)' = {u \in Threads : Refers(u, a)'}
  BY DEF References, Refers, RcAt, Old
<1> QED BY <1>1, <1>2

LEMMA SoleCounts ==
    ASSUME NEW t \in Threads, NEW a, Sole(t, a)
    PROVE  Cardinality(References(a)) = 1
<1>1. References(a) = {t}
  BY ReferencesFinite DEF Sole
<1> QED BY <1>1, FS_Singleton

LEMMA SoleCountsAfter ==
    ASSUME NEW t \in Threads, NEW a, \A u \in Threads : Refers(u, a)' <=> u = t
    PROVE  Cardinality(References(a))' = 1
<1>1. References(a)' = {u \in Threads : Refers(u, a)'}
  BY DEF References, Refers, RcAt, Old
<1>2. References(a)' = {t}
  BY <1>1
<1> QED BY <1>2, FS_Singleton

LEMMA CountedSole ==
    ASSUME NEW t \in Threads, NEW a, Refers(t, a), Cardinality(References(a)) = 1
    PROVE  Sole(t, a)
<1>1. PICK x : References(a) = {x}
  BY ReferencesFinite, FS_Singleton
<1>2. t \in References(a)
  BY ReferencesFinite
<1>3. References(a) = {t}
  BY <1>1, <1>2
<1> QED BY <1>3, ReferencesFinite DEF Sole

LEMMA ReferredCounted ==
    ASSUME NEW t \in Threads, NEW a, Refers(t, a)
    PROVE  Cardinality(References(a)) \in Nat /\ Cardinality(References(a)) >= 1
<1>1. Cardinality(References(a)) \in Nat
  BY ReferencesFinite, FS_CardinalityType
<1>2. References(a) # {}
  BY ReferencesFinite
<1>3. Cardinality(References(a)) # 0
  BY <1>2, ReferencesFinite, FS_EmptySet
<1> QED BY <1>1, <1>3

\* What somebody refers to is not freed, and nobody releases it.
LEMMA ReferredAlive ==
    ASSUME RcShapes, Referring, NEW t \in Threads, NEW a \in 1..rcArrays, Refers(t, a)
    PROVE  /\ rcArray[a].count = Cardinality(References(a)) /\ rcArray[a].count \in Nat
           /\ rcArray[a].count >= 1 /\ ~rcArray[a].freed
           /\ \A u \in Threads : ~Emptying(u, a)
<1>1. rcArray[a].count = Cardinality(References(a))
  BY DEF Referring, CountsRight
<1>2. rcArray[a].count >= 1 /\ rcArray[a].count \in Nat
  BY <1>1, ReferredCounted
<1>3. a \in Arrays
  BY RcFields
<1>4. ~rcArray[a].freed
  BY <1>2, <1>3 DEF Referring, FreedUnused
<1>5. \A u \in Threads : ~Emptying(u, a)
  BY <1>2 DEF Referring, DyingOnce
<1> QED BY <1>1, <1>2, <1>4, <1>5

\* Who writes has the array alone.
LEMMA WriterHas ==
    ASSUME RcShapes, Referring, NEW t \in Threads, Writes(t)
    PROVE  /\ rcHeld[t] \in 1..rcArrays /\ rcHeld[t] \in Arrays /\ Sole(t, rcHeld[t])
           /\ Refers(t, rcHeld[t]) /\ rcArray[rcHeld[t]].count = 1 /\ ~rcArray[rcHeld[t]].freed
<1>1. rcHeld[t] \in 1..rcArrays /\ rcHeld[t] \in Arrays /\ Sole(t, rcHeld[t])
  BY RcFields DEF Referring, WritersAlone
<1>2. Refers(t, rcHeld[t])
  BY DEF Refers
<1> QED BY <1>1, <1>2, SoleCounts, ReferredAlive

\* No reference comes or goes.
LEMMA SameReferring ==
    ASSUME RcShapes, Referring, rcArrays' = rcArrays,
           \A u \in Threads, a \in 1..rcArrays : Refers(u, a)' <=> Refers(u, a),
           \A u \in Threads, a \in 1..rcArrays : Emptying(u, a)' <=> Emptying(u, a),
           \A a \in Arrays : /\ rcArray'[a].count = rcArray[a].count
                             /\ rcArray'[a].freed = rcArray[a].freed
                             /\ rcArray[a].freed => rcArray'[a].owned = {},
           \A u \in Threads : /\ rcHeld'[u] = rcHeld[u]
                              /\ Writes(u)' => rcHeld[u] \in 1..rcArrays /\ Sole(u, rcHeld[u])
                              /\ rcThread'[u].at = "copy" => rcHeld[u] # Old(u)'
    PROVE  Referring'
<1>0. rcArrays \in Nat /\ 1..rcArrays \subseteq Arrays
  BY RcAssumption DEF RcShapes, Arrays
<1>1. CountsRight'
  <2> SUFFICES ASSUME NEW a \in 1..rcArrays
               PROVE  rcArray'[a].count = Cardinality(References(a)')
    BY DEF CountsRight
  <2>1. References(a)' = References(a)
    BY ReferencesStay
  <2> QED BY <1>0, <2>1 DEF Referring, CountsRight
<1>2. DyingOnce'
  BY <1>0 DEF Referring, DyingOnce
<1>3. FreedUnused'
  BY DEF Referring, FreedUnused
<1>4. WritersAlone'
  <2> SUFFICES ASSUME NEW t \in Threads
               PROVE  /\ Writes(t)' => rcHeld'[t] # 0 /\ Sole(t, rcHeld[t])'
                      /\ rcThread'[t].at = "copy" => rcHeld'[t] # Old(t)'
    BY DEF WritersAlone
  <2>1. ASSUME Writes(t)' PROVE rcHeld'[t] # 0 /\ Sole(t, rcHeld[t])'
    <3>1. rcHeld[t] \in 1..rcArrays /\ Sole(t, rcHeld[t]) /\ rcHeld'[t] = rcHeld[t]
      BY <2>1
    <3> DEFINE a == rcHeld[t]
    <3>2. \A u \in Threads : Refers(u, a)' <=> u = t
      BY <3>1 DEF Sole
    <3> QED BY <3>1, <3>2 DEF Sole, Refers
  <2> QED BY <2>1
<1> QED BY <1>1, <1>2, <1>3, <1>4 DEF Referring

\* t has a new array.
LEMMA NewReferring ==
    ASSUME RcShapes, Referring, NEW t \in Threads, NEW elems \in Seq(Elements),
           NEW n, n = rcArrays + 1, n \in Arrays, rcArrays' = n,
           ArrayBecomes(n, NewArray(elems)), HeldBecomes(t, n),
           \A u \in Threads, a \in 1..rcArrays : Refers(u, a)' <=> Refers(u, a),
           \A u \in Threads : Refers(u, n)' <=> u = t,
           \A u \in Threads, a \in 1..n : Emptying(u, a)' <=> Emptying(u, a),
           \A u \in Threads : u # t => rcThread'[u] = rcThread[u],
           rcThread'[t].at = "copy" => Old(t)' # n
    PROVE  Referring'
<1>0. /\ rcArrays \in Nat /\ 1..rcArrays \subseteq Arrays /\ n \notin 1..rcArrays
      /\ \A a \in 1..n : a # n => a \in 1..rcArrays
  BY RcAssumption DEF RcShapes, Arrays
<1>1. /\ rcArray'[n].count = 1 /\ rcArray'[n].freed = FALSE
      /\ \A a \in Arrays : a # n => rcArray'[a] = rcArray[a]
  <2>1. rcArray'[n] = NewArray(elems) /\ \A a \in Arrays : a # n => rcArray'[a] = rcArray[a]
    BY DEF ArrayBecomes
  <2>2. NewArray(elems).count = 1 /\ NewArray(elems).freed = FALSE
    BY NewArrayRecord
  <2> QED BY <2>1, <2>2
<1>2. \A u \in Threads : ~Emptying(u, n)
  BY <1>0, RcFields DEF Emptying, Old
<1>3. CountsRight'
  <2> SUFFICES ASSUME NEW a \in 1..n
               PROVE  rcArray'[a].count = Cardinality(References(a)')
    BY DEF CountsRight
  <2>1. CASE a = n
    BY <2>1, <1>1, SoleCountsAfter
  <2>2. CASE a # n
    <3>1. References(a)' = References(a)
      BY <2>2, <1>0, ReferencesStay
    <3> QED BY <1>0, <1>1, <2>2, <3>1 DEF Referring, CountsRight
  <2> QED BY <2>1, <2>2
<1>4. DyingOnce'
  <2> SUFFICES ASSUME NEW a \in 1..n
               PROVE  /\ (rcArray'[a].count = 0 /\ ~rcArray'[a].freed)
                            <=> \E u \in Threads : Emptying(u, a)'
                      /\ \A u, w \in Threads : Emptying(u, a)' /\ Emptying(w, a)' => u = w
    BY DEF DyingOnce
  <2>1. CASE a = n
    BY <2>1, <1>1, <1>2
  <2>2. CASE a # n
    BY <1>0, <1>1, <2>2 DEF Referring, DyingOnce
  <2> QED BY <2>1, <2>2
<1>5. FreedUnused'
  <2> SUFFICES ASSUME NEW a \in Arrays
               PROVE  /\ a > n => rcArray'[a].freed
                      /\ rcArray'[a].freed => rcArray'[a].count = 0 /\ rcArray'[a].owned = {}
    BY DEF FreedUnused
  <2>1. CASE a = n
    BY <2>1, <1>0, <1>1
  <2>2. CASE a # n
    <3>1. a > n => a > rcArrays
      BY <1>0 DEF Arrays
    <3> QED BY <1>1, <2>2, <3>1 DEF Referring, FreedUnused
  <2> QED BY <2>1, <2>2
<1>6. WritersAlone'
  <2> SUFFICES ASSUME NEW u \in Threads
               PROVE  /\ Writes(u)' => rcHeld'[u] # 0 /\ Sole(u, rcHeld[u])'
                      /\ rcThread'[u].at = "copy" => rcHeld'[u] # Old(u)'
    BY DEF WritersAlone
  <2>1. CASE u = t
    <3>1. rcHeld'[u] = n /\ n # 0
      BY <2>1, <1>0 DEF HeldBecomes
    <3>2. Sole(u, rcHeld[u])'
      BY <2>1, <3>1 DEF Sole, Refers
    <3> QED BY <2>1, <3>1, <3>2
  <2>2. CASE u # t
    <3>1. rcThread'[u] = rcThread[u] /\ rcHeld'[u] = rcHeld[u]
      BY <2>2 DEF HeldBecomes
    <3>2. ASSUME Writes(u)' PROVE rcHeld'[u] # 0 /\ Sole(u, rcHeld[u])'
      <4>1. Writes(u)
        BY <3>1, <3>2 DEF Writes
      <4>2. PICK a \in 1..rcArrays : a = rcHeld[u] /\ Sole(u, a)
        BY <4>1, WriterHas
      <4>3. \A w \in Threads : Refers(w, a)' <=> w = u
        BY <4>2 DEF Sole
      <4>4. a # 0
        BY <4>2
      <4> QED BY <3>1, <4>2, <4>3, <4>4 DEF Sole, Refers
    <3>3. rcThread'[u].at = "copy" => rcHeld'[u] # Old(u)'
      BY <3>1 DEF Referring, WritersAlone, Old
    <3> QED BY <3>2, <3>3
  <2> QED BY <2>1, <2>2
<1> QED BY <1>3, <1>4, <1>5, <1>6 DEF Referring

LEMMA AllocReferring ==
    ASSUME RcShapes, Referring, NEW t \in Threads, AllocArray(t)
    PROVE  Referring'
<1>1. PICK n \in Arrays :
         /\ n = rcArrays + 1 /\ rcArrays' = n /\ rcHeld[t] = 0 /\ rcThread[t].at = "idle"
         /\ ArrayBecomes(n, NewArray(<<>>)) /\ HeldBecomes(t, n) /\ rcThread' = rcThread
  BY AllocDoes
<1>2. rcArrays \in Nat
  BY RcFields
<1>3. \A u \in Threads, a \in 1..rcArrays : Refers(u, a)' <=> Refers(u, a)
  BY <1>1, <1>2 DEF Refers, HeldBecomes, Old
<1>4. \A u \in Threads : Refers(u, n)' <=> u = t
  BY <1>1, <1>2, RcFields DEF Refers, HeldBecomes, Old
<1>5. \A u \in Threads, a \in 1..n : Emptying(u, a)' <=> Emptying(u, a)
  BY <1>1 DEF Emptying, Old
<1>6. <<>> \in Seq(Elements)
  BY EmptySeq
<1>7. rcThread'[t].at # "copy" /\ \A u \in Threads : rcThread'[u] = rcThread[u]
  BY <1>1
<1> QED BY <1>1, <1>3, <1>4, <1>5, <1>6, <1>7, NewReferring

LEMMA PrepareReferring ==
    ASSUME RcShapes, Referring, NEW t \in Threads, PrepareMut(t)
    PROVE  Referring'
<1>0. PICK a \in 1..rcArrays :
         /\ a = rcHeld[t] /\ a \in Arrays /\ rcThread[t].at = "idle" /\ a \in Nat
         /\ rcArrays \in Nat
  BY PrepareDoes, RcFields
<1>1. CASE /\ rcArray[a].count = 1 /\ ThreadBecomes(t, [RcIdle EXCEPT !.at = "write"])
           /\ rcArray' = rcArray /\ rcArrays' = rcArrays /\ rcHeld' = rcHeld
  <2>1. rcThread'[t].at = "write" /\ \A u \in Threads : u # t => rcThread'[u] = rcThread[u]
    BY <1>1, IdleRcRecord DEF ThreadBecomes
  <2>2. \A u \in Threads, b \in 1..rcArrays : Refers(u, b)' <=> Refers(u, b)
    BY <1>0, <1>1, <2>1 DEF Refers, Old
  <2>3. \A u \in Threads, b \in 1..rcArrays : Emptying(u, b)' <=> Emptying(u, b)
    BY <1>0, <2>1 DEF Emptying, Old
  <2>4. Sole(t, a)
    <3>1. Refers(t, a)
      BY <1>0 DEF Refers
    <3>2. Cardinality(References(a)) = 1
      BY <1>0, <1>1, <3>1, ReferredAlive
    <3> QED BY <3>1, <3>2, CountedSole
  <2>5. \A u \in Threads :
           /\ Writes(u)' => rcHeld[u] \in 1..rcArrays /\ Sole(u, rcHeld[u])
           /\ rcThread'[u].at = "copy" => rcHeld[u] # Old(u)'
    <3> SUFFICES ASSUME NEW u \in Threads
                 PROVE  /\ Writes(u)' => rcHeld[u] \in 1..rcArrays /\ Sole(u, rcHeld[u])
                        /\ rcThread'[u].at = "copy" => rcHeld[u] # Old(u)'
      OBVIOUS
    <3>1. CASE u = t
      BY <3>1, <2>1, <2>4, <1>0
    <3>2. CASE u # t
      <4>1. Writes(u)' <=> Writes(u)
        BY <2>1, <3>2 DEF Writes
      <4>2. rcThread'[u].at = "copy" => rcHeld[u] # Old(u)'
        BY <2>1, <3>2 DEF Referring, WritersAlone, Old
      <4> QED BY <4>1, <4>2, WriterHas
    <3> QED BY <3>1, <3>2
  <2>6. \A b \in Arrays : /\ rcArray'[b].count = rcArray[b].count
                          /\ rcArray'[b].freed = rcArray[b].freed
                          /\ rcArray[b].freed => rcArray'[b].owned = {}
    BY <1>1 DEF Referring, FreedUnused
  <2> QED BY <1>1, <2>2, <2>3, <2>5, <2>6, SameReferring
<1>2. ASSUME NEW n \in Arrays, n = rcArrays + 1, rcArrays' = n,
             ArrayBecomes(n, NewArray(rcArray[a].elems)), HeldBecomes(t, n),
             ThreadBecomes(t, [RcIdle EXCEPT !.at = "copy", !.old = a])
      PROVE  Referring'
  <2>1. /\ rcThread'[t].at = "copy" /\ Old(t)' = a
        /\ \A u \in Threads : u # t => rcThread'[u] = rcThread[u]
    <3> DEFINE r == [RcIdle EXCEPT !.at = "copy", !.old = a]
    <3>1. r.at = "copy" /\ r.old = a
      BY <1>0, CopyRecord
    <3>2. rcThread'[t] = r /\ \A u \in Threads : u # t => rcThread'[u] = rcThread[u]
      BY <1>2 DEF ThreadBecomes
    <3> HIDE DEF r
    <3> QED BY <3>1, <3>2 DEF Old
  <2>2. rcHeld'[t] = n /\ \A u \in Threads : u # t => rcHeld'[u] = rcHeld[u]
    BY <1>2 DEF HeldBecomes
  <2>3. \A u \in Threads, b \in 1..rcArrays : Refers(u, b)' <=> Refers(u, b)
    BY <1>0, <1>2, <2>1, <2>2 DEF Refers, Old
  <2>4. \A u \in Threads : Refers(u, n)' <=> u = t
    BY <1>0, <1>2, <2>1, <2>2, RcFields DEF Refers, Old
  <2>5. \A u \in Threads, b \in 1..n : Emptying(u, b)' <=> Emptying(u, b)
    BY <1>0, <1>2, <2>1 DEF Emptying, Old
  <2>6. rcArray[a].elems \in Seq(Elements) /\ a # n
    BY <1>0, <1>2, ArrayRecordTypes
  <2> QED BY <1>2, <2>1, <2>3, <2>4, <2>5, <2>6, NewReferring
<1> QED BY <1>0, <1>1, <1>2, PrepareDoes

LEMMA RetainReferring ==
    ASSUME RcShapes, Referring, NEW t \in Threads, RetainArray(t)
    PROVE  Referring'
<1>1. PICK a \in 1..rcArrays :
         /\ a = rcHeld[t] /\ a \in Arrays /\ rcThread[t].at = "idle"
         /\ ArrayBecomes(a, [rcArray[a] EXCEPT !.count = rcArray[a].count + 1])
         /\ rcThread' = rcThread /\ rcArrays' = rcArrays /\ rcArrays \in Nat
  BY RetainDoes, RcFields
<1>2. PICK u \in Threads : rcHeld[u] = 0 /\ rcThread[u].at = "idle" /\ HeldBecomes(u, a)
  BY <1>1, RetainDoes
<1>3. Refers(t, a) /\ ~Refers(u, a)
  BY <1>1, <1>2 DEF Refers
<1>4. /\ \A w \in Threads : Refers(w, a)' <=> Refers(w, a) \/ w = u
      /\ \A w \in Threads, b \in 1..rcArrays : b # a => (Refers(w, b)' <=> Refers(w, b))
  BY <1>1, <1>2 DEF Refers, HeldBecomes, Old
<1>5. /\ rcArray'[a].count = rcArray[a].count + 1 /\ rcArray'[a].freed = rcArray[a].freed
      /\ rcArray'[a].owned = rcArray[a].owned
      /\ \A b \in Arrays : b # a => rcArray'[b] = rcArray[b]
  BY <1>1, ArrayRecordTypes DEF ArrayBecomes, ArrayRecords
<1>6. /\ rcArray[a].count \in Nat /\ rcArray[a].count >= 1 /\ ~rcArray[a].freed
      /\ rcArray[a].count = Cardinality(References(a))
      /\ \A w \in Threads : ~Emptying(w, a)
  BY <1>1, <1>3, ReferredAlive
<1>7. \A w \in Threads, b \in 1..rcArrays : Emptying(w, b)' <=> Emptying(w, b)
  BY <1>1 DEF Emptying, Old
<1>8. CountsRight'
  <2> SUFFICES ASSUME NEW b \in 1..rcArrays
               PROVE  rcArray'[b].count = Cardinality(References(b)')
    BY <1>1 DEF CountsRight
  <2>1. CASE b = a
    <3>1. References(a)' = {w \in Threads : Refers(w, a)'}
      BY DEF References, Refers, RcAt, Old
    <3>2. References(a)' = References(a) \cup {u} /\ u \notin References(a)
      BY <3>1, <1>3, <1>4, ReferencesFinite
    <3>3. Cardinality(References(a)') = Cardinality(References(a)) + 1
      BY <3>2, ReferencesFinite, FS_AddElement
    <3> QED BY <2>1, <3>3, <1>5, <1>6
  <2>2. CASE b # a
    <3>1. References(b)' = References(b)
      BY <2>2, <1>4, ReferencesStay
    <3>2. b \in Arrays
      BY RcFields
    <3> QED BY <2>2, <3>1, <3>2, <1>5 DEF Referring, CountsRight
  <2> QED BY <2>1, <2>2
<1>9. DyingOnce'
  <2> SUFFICES ASSUME NEW b \in 1..rcArrays
               PROVE  /\ (rcArray'[b].count = 0 /\ ~rcArray'[b].freed)
                            <=> \E w \in Threads : Emptying(w, b)'
                      /\ \A v, w \in Threads : Emptying(v, b)' /\ Emptying(w, b)' => v = w
    BY <1>1 DEF DyingOnce
  <2>1. CASE b = a
    BY <2>1, <1>5, <1>6, <1>7
  <2>2. CASE b # a
    <3>1. b \in Arrays
      BY RcFields
    <3> QED BY <2>2, <3>1, <1>5, <1>7 DEF Referring, DyingOnce
  <2> QED BY <2>1, <2>2
<1>10. FreedUnused'
  <2> SUFFICES ASSUME NEW b \in Arrays
               PROVE  /\ b > rcArrays => rcArray'[b].freed
                      /\ rcArray'[b].freed => rcArray'[b].count = 0 /\ rcArray'[b].owned = {}
    BY <1>1 DEF FreedUnused
  <2>1. CASE b = a
    BY <2>1, <1>1, <1>5, <1>6
  <2>2. CASE b # a
    BY <2>2, <1>5 DEF Referring, FreedUnused
  <2> QED BY <2>1, <2>2
<1>11. WritersAlone'
  <2> SUFFICES ASSUME NEW w \in Threads
               PROVE  /\ Writes(w)' => rcHeld'[w] # 0 /\ Sole(w, rcHeld[w])'
                      /\ rcThread'[w].at = "copy" => rcHeld'[w] # Old(w)'
    BY DEF WritersAlone
  <2>0. CASE w = u
    BY <2>0, <1>1, <1>2 DEF Writes
  <2>00. CASE w # u
    <3>1. rcThread'[w] = rcThread[w] /\ rcHeld'[w] = rcHeld[w]
      BY <2>00, <1>1, <1>2 DEF HeldBecomes
    <3>2. ASSUME Writes(w)' PROVE rcHeld'[w] # 0 /\ Sole(w, rcHeld[w])'
      <4>1. Writes(w) /\ w # t
        BY <3>1, <3>2, <1>1 DEF Writes
      <4>2. PICK b \in 1..rcArrays : b = rcHeld[w] /\ Sole(w, b)
        BY <4>1, WriterHas
      <4>3. b # a /\ b # 0
        BY <4>1, <4>2, <1>3 DEF Sole
      <4>4. \A v \in Threads : Refers(v, b)' <=> v = w
        BY <4>2, <4>3, <1>4 DEF Sole
      <4> QED BY <3>1, <4>2, <4>3, <4>4 DEF Sole, Refers
    <3>3. rcThread'[w].at = "copy" => rcHeld'[w] # Old(w)'
      BY <3>1 DEF Referring, WritersAlone, Old
    <3> QED BY <3>2, <3>3
  <2> QED BY <2>0, <2>00
<1> QED BY <1>8, <1>9, <1>10, <1>11 DEF Referring

\* t gives a reference to a back, and goes on to p.
LEMMA DecrementReferring ==
    ASSUME RcShapes, Referring, NEW t \in Threads, NEW a \in 1..rcArrays,
           NEW p \in {"idle", "write"}, Decrement(t, a, p), rcArrays' = rcArrays,
           Refers(t, a), ~Emptying(t, a), rcThread[t].at # "release",
           \A u \in Threads : Refers(u, a)' <=> Refers(u, a) /\ u # t,
           \A u \in Threads, b \in 1..rcArrays : b # a => (Refers(u, b)' <=> Refers(u, b)),
           \A u \in Threads : u # t => rcHeld'[u] = rcHeld[u],
           p = "write" => /\ rcHeld'[t] = rcHeld[t] /\ rcHeld[t] \in 1..rcArrays
                          /\ Sole(t, rcHeld[t]) /\ rcHeld[t] # a
    PROVE  Referring'
<1>1. /\ a \in Arrays /\ rcArrays \in Nat
      /\ ArrayBecomes(a, [rcArray[a] EXCEPT !.count = rcArray[a].count - 1])
      /\ ThreadBecomes(t, AfterDecrement(a, p))
  BY DecrementDoes, RcFields
<1>2. /\ rcArray'[a].count = rcArray[a].count - 1 /\ rcArray'[a].freed = rcArray[a].freed
      /\ rcArray'[a].owned = rcArray[a].owned
      /\ \A b \in Arrays : b # a => rcArray'[b] = rcArray[b]
  BY <1>1, ArrayRecordTypes DEF ArrayBecomes, ArrayRecords
<1>3. /\ rcArray[a].count \in Nat /\ rcArray[a].count >= 1 /\ ~rcArray[a].freed
      /\ rcArray[a].count = Cardinality(References(a))
      /\ \A w \in Threads : ~Emptying(w, a)
  BY ReferredAlive
<1>4. \A u \in Threads : u # t => rcThread'[u] = rcThread[u]
  BY <1>1 DEF ThreadBecomes
<1>5. IF rcArray[a].count = 1
      THEN rcThread'[t].at = "release" /\ Old(t)' = a /\ rcThread'[t].then = p
      ELSE rcThread'[t].at = p /\ rcThread'[t].then = "idle"
  BY <1>1, DecrementDoes DEF ThreadBecomes, Old
<1>6. \A u \in Threads, b \in 1..rcArrays : b # a => (Emptying(u, b)' <=> Emptying(u, b))
  <2> SUFFICES ASSUME NEW u \in Threads, NEW b \in 1..rcArrays, b # a
               PROVE  Emptying(u, b)' <=> Emptying(u, b)
    OBVIOUS
  <2>1. CASE u = t
    BY <2>1, <1>5 DEF Emptying
  <2>2. CASE u # t
    BY <2>2, <1>4 DEF Emptying, Old
  <2> QED BY <2>1, <2>2
<1>7. \A u \in Threads : Emptying(u, a)' <=> u = t /\ rcArray[a].count = 1
  <2> SUFFICES ASSUME NEW u \in Threads
               PROVE  Emptying(u, a)' <=> u = t /\ rcArray[a].count = 1
    OBVIOUS
  <2>1. CASE u = t
    BY <2>1, <1>5 DEF Emptying
  <2>2. CASE u # t
    BY <2>2, <1>3, <1>4 DEF Emptying, Old
  <2> QED BY <2>1, <2>2
<1>8. CountsRight'
  <2> SUFFICES ASSUME NEW b \in 1..rcArrays
               PROVE  rcArray'[b].count = Cardinality(References(b)')
    BY DEF CountsRight
  <2>1. CASE b = a
    <3>1. References(a)' = {w \in Threads : Refers(w, a)'}
      BY DEF References, Refers, RcAt, Old
    <3>2. References(a)' = References(a) \ {t} /\ t \in References(a)
      BY <3>1, ReferencesFinite
    <3>3. IsFiniteSet(References(a))
      BY ReferencesFinite
    <3>4. \A S : IsFiniteSet(S) /\ t \in S => Cardinality(S \ {t}) = Cardinality(S) - 1
      BY FS_RemoveElement, Zenon
    <3>5. Cardinality(References(a) \ {t}) = Cardinality(References(a)) - 1
      BY <3>2, <3>3, <3>4
    <3> QED BY <2>1, <3>2, <3>5, <1>2, <1>3
  <2>2. CASE b # a
    <3>1. References(b)' = References(b)
      BY <2>2, ReferencesStay
    <3>2. b \in Arrays
      BY RcFields
    <3> QED BY <2>2, <3>1, <3>2, <1>2 DEF Referring, CountsRight
  <2> QED BY <2>1, <2>2
<1>9. DyingOnce'
  <2> SUFFICES ASSUME NEW b \in 1..rcArrays
               PROVE  /\ (rcArray'[b].count = 0 /\ ~rcArray'[b].freed)
                            <=> \E w \in Threads : Emptying(w, b)'
                      /\ \A v, w \in Threads : Emptying(v, b)' /\ Emptying(w, b)' => v = w
    BY DEF DyingOnce
  <2>1. CASE b = a
    BY <2>1, <1>2, <1>3, <1>7
  <2>2. CASE b # a
    <3>1. b \in Arrays
      BY RcFields
    <3> QED BY <2>2, <3>1, <1>2, <1>6 DEF Referring, DyingOnce
  <2> QED BY <2>1, <2>2
<1>10. FreedUnused'
  <2> SUFFICES ASSUME NEW b \in Arrays
               PROVE  /\ b > rcArrays => rcArray'[b].freed
                      /\ rcArray'[b].freed => rcArray'[b].count = 0 /\ rcArray'[b].owned = {}
    BY DEF FreedUnused
  <2>1. CASE b = a
    BY <2>1, <1>1, <1>2, <1>3
  <2>2. CASE b # a
    BY <2>2, <1>2 DEF Referring, FreedUnused
  <2> QED BY <2>1, <2>2
<1>11. WritersAlone'
  <2> SUFFICES ASSUME NEW w \in Threads
               PROVE  /\ Writes(w)' => rcHeld'[w] # 0 /\ Sole(w, rcHeld[w])'
                      /\ rcThread'[w].at = "copy" => rcHeld'[w] # Old(w)'
    BY DEF WritersAlone
  <2>1. ASSUME NEW b \in 1..rcArrays, Sole(w, b), b # a, rcHeld'[w] = b
        PROVE  rcHeld'[w] # 0 /\ Sole(w, rcHeld[w])'
    <3>1. \A v \in Threads : Refers(v, b)' <=> v = w
      BY <2>1 DEF Sole
    <3>2. b # 0
      BY <2>1
    <3> QED BY <2>1, <3>1, <3>2 DEF Sole, Refers
  <2>2. CASE w = t
    <3>1. Writes(t)' => p = "write"
      BY <1>5 DEF Writes
    <3>2. rcThread'[t].at # "copy"
      BY <1>5
    <3> QED BY <2>1, <2>2, <3>1, <3>2
  <2>3. CASE w # t
    <3>1. rcThread'[w] = rcThread[w] /\ rcHeld'[w] = rcHeld[w]
      BY <2>3, <1>4
    <3>2. ASSUME Writes(w)' PROVE rcHeld'[w] # 0 /\ Sole(w, rcHeld[w])'
      <4>1. Writes(w)
        BY <3>1, <3>2 DEF Writes
      <4>2. PICK b \in 1..rcArrays : b = rcHeld[w] /\ Sole(w, b)
        BY <4>1, WriterHas
      <4>3. b # a
        BY <4>2, <2>3 DEF Sole
      <4> QED BY <2>1, <3>1, <4>2, <4>3
    <3>3. rcThread'[w].at = "copy" => rcHeld'[w] # Old(w)'
      BY <3>1 DEF Referring, WritersAlone, Old
    <3> QED BY <3>2, <3>3
  <2> QED BY <2>2, <2>3
<1> QED BY <1>8, <1>9, <1>10, <1>11 DEF Referring

LEMMA DropReferring ==
    ASSUME RcShapes, Referring, NEW t \in Threads, DropArray(t)
    PROVE  Referring'
<1>1. PICK a \in 1..rcArrays :
         /\ a = rcHeld[t] /\ rcThread[t].at = "idle" /\ Decrement(t, a, "idle")
         /\ HeldBecomes(t, 0) /\ rcArrays' = rcArrays
  BY DropDoes
<1>2. /\ rcThread'[t].at # "copy" /\ \A u \in Threads : u # t => rcThread'[u] = rcThread[u]
  <2>1. ThreadBecomes(t, AfterDecrement(a, "idle"))
    BY <1>1, DecrementDoes
  <2>2. AfterDecrement(a, "idle").at # "copy"
    BY <1>1, DecrementDoes
  <2> QED BY <2>1, <2>2 DEF ThreadBecomes
<1>3. Refers(t, a) /\ ~Emptying(t, a)
  BY <1>1 DEF Refers, Emptying
<1>4. \A u \in Threads : Refers(u, a)' <=> Refers(u, a) /\ u # t
  BY <1>1, <1>2 DEF Refers, HeldBecomes, Old
<1>5. \A u \in Threads, b \in 1..rcArrays : b # a => (Refers(u, b)' <=> Refers(u, b))
  BY <1>1, <1>2 DEF Refers, HeldBecomes, Old
<1>6. \A u \in Threads : u # t => rcHeld'[u] = rcHeld[u]
  BY <1>1 DEF HeldBecomes
<1> QED BY <1>1, <1>3, <1>4, <1>5, <1>6, DecrementReferring

LEMMA LeaveReferring ==
    ASSUME RcShapes, Referring, NEW t \in Threads, LeaveOld(t)
    PROVE  Referring'
<1>1. PICK a \in 1..rcArrays :
         /\ a = Old(t) /\ rcThread[t].at = "copy" /\ Decrement(t, a, "write")
         /\ rcHeld' = rcHeld /\ rcArrays' = rcArrays
  BY LeaveDoes
<1>2. /\ rcThread'[t].at # "copy" /\ \A u \in Threads : u # t => rcThread'[u] = rcThread[u]
  <2>1. ThreadBecomes(t, AfterDecrement(a, "write"))
    BY <1>1, DecrementDoes
  <2>2. AfterDecrement(a, "write").at # "copy"
    BY <1>1, DecrementDoes
  <2> QED BY <2>1, <2>2 DEF ThreadBecomes
<1>3. Refers(t, a) /\ ~Emptying(t, a) /\ Writes(t)
  BY <1>1 DEF Refers, Emptying, Writes
<1>4. rcHeld[t] \in 1..rcArrays /\ Sole(t, rcHeld[t]) /\ rcHeld[t] # a
  BY <1>1, <1>3, WriterHas DEF Referring, WritersAlone
<1>5. \A u \in Threads : Refers(u, a)' <=> Refers(u, a) /\ u # t
  BY <1>1, <1>2, <1>4 DEF Refers, Old
<1>6. \A u \in Threads, b \in 1..rcArrays : b # a => (Refers(u, b)' <=> Refers(u, b))
  BY <1>1, <1>2 DEF Refers, Old
<1> QED BY <1>1, <1>3, <1>4, <1>5, <1>6, DecrementReferring

\* Elements are retained, released or written.
LEMMA ElementsReferring ==
    ASSUME RcShapes, Referring, Owning, NEW t \in Threads,
           RetainElement(t) \/ ReleaseElement(t) \/ WriteArray(t)
    PROVE  Referring'
<1>0. RetainElement(t) \/ WriteArray(t) => Writes(t) /\ rcHeld[t] # 0
  <2>1. RetainElement(t) \/ WriteArray(t) => Writes(t)
    BY DEF RetainElement, WriteArray, RcAt, Writes
  <2> QED BY <2>1 DEF Referring, WritersAlone
<1>1. /\ rcHeld' = rcHeld /\ rcArrays' = rcArrays
      /\ \A u \in Threads : u # t => rcThread'[u] = rcThread[u]
  <2>1. CASE RetainElement(t)
    BY <2>1, <1>0, RetainElementDoes DEF ThreadBecomes
  <2>2. CASE ReleaseElement(t)
    BY <2>2, ReleaseElementDoes DEF ThreadBecomes
  <2>3. CASE WriteArray(t)
    BY <2>3, <1>0, WriteDoes DEF ThreadBecomes
  <2> QED BY <2>1, <2>2, <2>3
<1>2. \/ rcThread'[t].at = rcThread[t].at /\ Old(t)' = Old(t)
            /\ rcThread'[t].then = rcThread[t].then
      \/ rcThread[t].at = "write" /\ rcThread'[t].at = "idle"
  <2>1. CASE RetainElement(t) \/ ReleaseElement(t)
    <3> DEFINE r == [rcThread[t] EXCEPT !.next = rcThread[t].next + 1]
    <3>1. rcThread'[t] = r
      <4>1. CASE RetainElement(t)
        BY <4>1, <1>0, RetainElementDoes DEF ThreadBecomes
      <4>2. CASE ReleaseElement(t)
        BY <4>2, ReleaseElementDoes DEF ThreadBecomes
      <4> QED BY <2>1, <4>1, <4>2
    <3>2. r.at = rcThread[t].at /\ r.old = rcThread[t].old /\ r.then = rcThread[t].then
      BY RcFields, NextRecord
    <3> HIDE DEF r
    <3> QED BY <3>1, <3>2 DEF Old
  <2>2. CASE WriteArray(t)
    <3>1. rcThread[t].at = "write" /\ rcThread'[t] = [RcIdle EXCEPT !.at = "idle"]
      BY <2>2, <1>0, WriteDoes DEF ThreadBecomes
    <3> QED BY <3>1, IdleRcRecord
  <2> QED BY <2>1, <2>2
<1>3. \A u \in Threads, b \in 1..rcArrays : Refers(u, b)' <=> Refers(u, b)
  BY <1>1, <1>2 DEF Refers, Old
<1>4. \A u \in Threads, b \in 1..rcArrays : Emptying(u, b)' <=> Emptying(u, b)
  BY <1>1, <1>2 DEF Emptying, Old
<1>5. \A u \in Threads :
         /\ Writes(u)' => rcHeld[u] \in 1..rcArrays /\ Sole(u, rcHeld[u])
         /\ rcThread'[u].at = "copy" => rcHeld[u] # Old(u)'
  <2> SUFFICES ASSUME NEW u \in Threads
               PROVE  /\ Writes(u)' => Writes(u)
                      /\ rcThread'[u].at = "copy" => rcHeld[u] # Old(u)'
    BY WriterHas
  <2>1. CASE u = t
    BY <2>1, <1>2 DEF Writes, Referring, WritersAlone
  <2>2. CASE u # t
    BY <2>2, <1>1 DEF Writes, Referring, WritersAlone, Old
  <2> QED BY <2>1, <2>2
<1>6. \A b \in Arrays : /\ rcArray'[b].count = rcArray[b].count
                        /\ rcArray'[b].freed = rcArray[b].freed
                        /\ rcArray[b].freed => rcArray'[b].owned = {}
  <2>0. \A b \in Arrays : rcArray[b].freed => rcArray[b].owned = {}
    BY DEF Referring, FreedUnused
  <2>1. CASE RetainElement(t)
    <3> DEFINE a == rcHeld[t]
               o == rcArray[a].owned \cup {rcThread[t].next}
    <3>1. /\ a \in Arrays /\ ~rcArray[a].freed /\ ArrayBecomes(a, [rcArray[a] EXCEPT !.owned = o])
          /\ rcArray[a] \in ArrayRecords
      <4>1. /\ a \in Arrays /\ ArrayBecomes(a, [rcArray[a] EXCEPT !.owned = o])
        BY <2>1, <1>0, RetainElementDoes
      <4>2. ~rcArray[a].freed
        BY <2>1, <1>0, WriterHas
      <4> QED BY <4>1, <4>2, ArrayRecordTypes
    <3> HIDE DEF o
    <3>2. rcArray'[a].count = rcArray[a].count /\ rcArray'[a].freed = rcArray[a].freed
      BY <3>1 DEF ArrayBecomes, ArrayRecords
    <3> QED BY <2>0, <3>1, <3>2 DEF ArrayBecomes
  <2>2. CASE ReleaseElement(t)
    <3> DEFINE a == Old(t)
               o == rcArray[a].owned \ {rcThread[t].next}
    <3>1. /\ a \in Arrays /\ ArrayBecomes(a, [rcArray[a] EXCEPT !.owned = o])
          /\ rcArray[a] \in ArrayRecords /\ o \subseteq rcArray[a].owned
      BY <2>2, ReleaseElementDoes, ArrayRecordTypes
    <3> HIDE DEF o
    <3>2. /\ rcArray'[a].count = rcArray[a].count /\ rcArray'[a].freed = rcArray[a].freed
          /\ rcArray'[a].owned = o
      BY <3>1 DEF ArrayBecomes, ArrayRecords
    <3> HIDE DEF a
    <3> QED BY <2>0, <3>1, <3>2 DEF ArrayBecomes
  <2>3. CASE WriteArray(t)
    <3> DEFINE a == rcHeld[t]
    <3>1. a \in Arrays /\ ~rcArray[a].freed /\ rcArray[a] \in ArrayRecords /\ a # 0
      BY <2>3, <1>0, WriterHas, ArrayRecordTypes DEF Arrays
    <3>2. CASE rcArray' = rcArray
      BY <3>2, <2>0
    <3>3. ASSUME NEW s, NEW o, ArrayBecomes(a, [rcArray[a] EXCEPT !.elems = s, !.owned = o])
          PROVE  /\ rcArray'[a].count = rcArray[a].count
                 /\ rcArray'[a].freed = rcArray[a].freed
      BY <3>1, <3>3 DEF ArrayBecomes, ArrayRecords
    <3>4. CASE Appends(t)
      <4>1. /\ rcArray'[a].count = rcArray[a].count /\ rcArray'[a].freed = rcArray[a].freed
            /\ \A b \in Arrays : b # a => rcArray'[b] = rcArray[b]
        BY <3>3, <3>4 DEF Appends, ArrayBecomes
      <4> QED BY <2>0, <3>1, <4>1
    <3>5. CASE TakesLast(t)
      <4>1. /\ rcArray'[a].count = rcArray[a].count /\ rcArray'[a].freed = rcArray[a].freed
            /\ \A b \in Arrays : b # a => rcArray'[b] = rcArray[b]
        BY <3>3, <3>5 DEF TakesLast, ArrayBecomes
      <4> QED BY <2>0, <3>1, <4>1
    <3> QED BY <2>3, <3>1, <3>2, <3>4, <3>5, WriteDoes
  <2> QED BY <2>1, <2>2, <2>3
<1> QED BY <1>1, <1>3, <1>4, <1>5, <1>6, SameReferring

\* Whoever has released the elements of an array frees it.
LEMMA FreeReferring ==
    ASSUME RcShapes, Referring, Owning, NEW t \in Threads, FreeArray(t)
    PROVE  Referring'
<1>1. PICK a \in 1..rcArrays :
         /\ a = Old(t) /\ a \in Arrays /\ rcThread[t].at = "release"
         /\ rcThread[t].next > Len(rcArray[a].elems)
         /\ ArrayBecomes(a, [rcArray[a] EXCEPT !.freed = TRUE])
         /\ ThreadBecomes(t, [RcIdle EXCEPT !.at = rcThread[t].then])
         /\ rcThread[t].then \in {"idle", "write"}
         /\ rcHeld' = rcHeld /\ rcArrays' = rcArrays
  BY FreeDoes
<1>2. /\ rcThread'[t].at = rcThread[t].then /\ \A u \in Threads : u # t => rcThread'[u] = rcThread[u]
  BY <1>1, IdleRcRecord DEF ThreadBecomes
<1>3. /\ rcArray'[a].count = rcArray[a].count /\ rcArray'[a].freed = TRUE
      /\ rcArray'[a].owned = rcArray[a].owned
      /\ \A b \in Arrays : b # a => rcArray'[b] = rcArray[b]
  BY <1>1, ArrayRecordTypes DEF ArrayBecomes, ArrayRecords
<1>4. rcArray[a].owned = {}
  <2>1. rcArray[a].owned = rcThread[t].next..Len(rcArray[a].elems)
    BY <1>1 DEF Owning, KeepsPace
  <2>2. rcThread[t].next \in Nat /\ Len(rcArray[a].elems) \in Nat
    BY <1>1, RcFields, ArrayRecordTypes
  <2> QED BY <1>1, <2>1, <2>2
<1>5. Emptying(t, a) /\ rcArray[a].count = 0
  BY <1>1 DEF Emptying, Referring, DyingOnce
<1>6. \A u \in Threads, b \in 1..rcArrays : Refers(u, b)' <=> Refers(u, b)
  BY <1>1, <1>2 DEF Refers, Old
<1>7. \A u \in Threads, b \in 1..rcArrays : Emptying(u, b)' <=> Emptying(u, b) /\ u # t
  BY <1>1, <1>2 DEF Emptying, Old
<1>8. CountsRight'
  <2> SUFFICES ASSUME NEW b \in 1..rcArrays
               PROVE  rcArray'[b].count = Cardinality(References(b)')
    BY <1>1 DEF CountsRight
  <2>1. References(b)' = References(b) /\ b \in Arrays
    BY <1>6, ReferencesStay, RcFields
  <2> QED BY <2>1, <1>3 DEF Referring, CountsRight
<1>9. DyingOnce'
  <2> SUFFICES ASSUME NEW b \in 1..rcArrays
               PROVE  /\ (rcArray'[b].count = 0 /\ ~rcArray'[b].freed)
                            <=> \E w \in Threads : Emptying(w, b)'
                      /\ \A v, w \in Threads : Emptying(v, b)' /\ Emptying(w, b)' => v = w
    BY <1>1 DEF DyingOnce
  <2>0. b \in Arrays
    BY RcFields
  <2>1. CASE b = a
    <3>1. \A u \in Threads : Emptying(u, a) => u = t
      BY <1>5 DEF Referring, DyingOnce
    <3> QED BY <2>1, <3>1, <1>3, <1>7
  <2>2. CASE b # a
    <3>1. \A u \in Threads : Emptying(u, b)' <=> Emptying(u, b)
      BY <2>2, <1>7, <1>1 DEF Emptying
    <3> QED BY <2>0, <2>2, <3>1, <1>3 DEF Referring, DyingOnce
  <2> QED BY <2>1, <2>2
<1>10. FreedUnused'
  <2> SUFFICES ASSUME NEW b \in Arrays
               PROVE  /\ b > rcArrays => rcArray'[b].freed
                      /\ rcArray'[b].freed => rcArray'[b].count = 0 /\ rcArray'[b].owned = {}
    BY <1>1 DEF FreedUnused
  <2>1. CASE b = a
    BY <2>1, <1>3, <1>4, <1>5
  <2>2. CASE b # a
    BY <2>2, <1>3 DEF Referring, FreedUnused
  <2> QED BY <2>1, <2>2
<1>11. WritersAlone'
  <2> SUFFICES ASSUME NEW w \in Threads
               PROVE  /\ Writes(w)' => rcHeld'[w] # 0 /\ Sole(w, rcHeld[w])'
                      /\ rcThread'[w].at = "copy" => rcHeld'[w] # Old(w)'
    BY DEF WritersAlone
  <2>1. Writes(w)' => Writes(w)
    <3>1. CASE w = t
      BY <3>1, <1>1, <1>2 DEF Writes
    <3>2. CASE w # t
      BY <3>2, <1>2 DEF Writes
    <3> QED BY <3>1, <3>2
  <2>2. ASSUME Writes(w)' PROVE rcHeld'[w] # 0 /\ Sole(w, rcHeld[w])'
    <3>1. PICK b \in 1..rcArrays : b = rcHeld[w] /\ Sole(w, b)
      BY <2>1, <2>2, WriterHas
    <3>2. \A v \in Threads : Refers(v, b)' <=> v = w
      BY <3>1, <1>6 DEF Sole
    <3>3. b # 0 /\ rcHeld'[w] = b
      BY <3>1, <1>1
    <3> QED BY <3>2, <3>3 DEF Sole, Refers
  <2>3. rcThread'[w].at = "copy" => rcHeld'[w] # Old(w)'
    <3>1. CASE w = t
      BY <3>1, <1>1, <1>2
    <3>2. CASE w # t
      BY <3>2, <1>1, <1>2 DEF Referring, WritersAlone, Old
    <3> QED BY <3>1, <3>2
  <2> QED BY <2>2, <2>3
<1> QED BY <1>8, <1>9, <1>10, <1>11 DEF Referring

-----------------------------------------------------------------------------
THEOREM ReferringKept ==
    RcShapes /\ Referring /\ Owning /\ [RcNext]_rcVars => Referring'
<1> SUFFICES ASSUME RcShapes, Referring, Owning, [RcNext]_rcVars PROVE Referring'
  OBVIOUS
<1>1. CASE UNCHANGED rcVars
  <2>1. /\ rcArrays' = rcArrays /\ rcHeld' = rcHeld /\ rcThread' = rcThread
        /\ rcArray' = rcArray
    BY <1>1 DEF rcVars
  <2>2. \A u \in Threads, a \in 1..rcArrays :
           (Refers(u, a)' <=> Refers(u, a)) /\ (Emptying(u, a)' <=> Emptying(u, a))
    BY <2>1 DEF Refers, Emptying, Old
  <2>3. \A u \in Threads :
           /\ Writes(u)' => rcHeld[u] \in 1..rcArrays /\ Sole(u, rcHeld[u])
           /\ rcThread'[u].at = "copy" => rcHeld[u] # Old(u)'
    <3>1. \A u \in Threads : Writes(u)' <=> Writes(u)
      BY <2>1 DEF Writes
    <3>2. \A u \in Threads : rcThread'[u].at = "copy" => rcHeld[u] # Old(u)'
      BY <2>1 DEF Referring, WritersAlone, Old
    <3> QED BY <3>1, <3>2, WriterHas
  <2>4. \A a \in Arrays : rcArray[a].freed => rcArray'[a].owned = {}
    BY <2>1 DEF Referring, FreedUnused
  <2> QED BY <2>1, <2>2, <2>3, <2>4, SameReferring
<1>2. ASSUME NEW t \in Threads, AllocArray(t) PROVE Referring'
  BY <1>2, AllocReferring
<1>3. ASSUME NEW t \in Threads, RetainArray(t) PROVE Referring'
  BY <1>3, RetainReferring
<1>4. ASSUME NEW t \in Threads, DropArray(t) PROVE Referring'
  BY <1>4, DropReferring
<1>5. ASSUME NEW t \in Threads, PrepareMut(t) PROVE Referring'
  BY <1>5, PrepareReferring
<1>6. ASSUME NEW t \in Threads, LeaveOld(t) PROVE Referring'
  BY <1>6, LeaveReferring
<1>7. ASSUME NEW t \in Threads, FreeArray(t) PROVE Referring'
  BY <1>7, FreeReferring
<1>8. ASSUME NEW t \in Threads, RetainElement(t) \/ ReleaseElement(t) \/ WriteArray(t)
      PROVE  Referring'
  BY <1>8, ElementsReferring
<1> QED BY <1>1, <1>2, <1>3, <1>4, <1>5, <1>6, <1>7, <1>8 DEF RcNext

-----------------------------------------------------------------------------
(* Elements and their owners.                                                *)
Has(a, e) == \E i \in rcArray[a].owned : rcArray[a].elems[i] = e

LEMMA OwnersHave ==
    /\ \A e : Owners(e) = {a \in Arrays : Has(a, e)} /\ IsFiniteSet(Owners(e))
    /\ \A e : Owners(e)' = {a \in Arrays : Has(a, e)'}
<1>1. \A e : Owners(e) = {a \in Arrays : Has(a, e)}
  BY DEF Owners, Has
<1>2. IsFiniteSet(Arrays)
  BY RcAssumption, FS_Interval DEF Arrays
<1>3. \A e : Owners(e) \in SUBSET Arrays
  BY <1>1
<1>4. \A e : IsFiniteSet(Owners(e))
  BY <1>2, <1>3, FS_Subset
<1>5. \A e : Owners(e)' = {a \in Arrays : Has(a, e)'}
  BY DEF Owners, Has
<1> QED BY <1>1, <1>4, <1>5

\* The array a owns what it owned, in the same places.
SameContent(a) ==
    rcArray'[a].owned = rcArray[a].owned /\ rcArray'[a].elems = rcArray[a].elems

LEMMA SameHas ==
    ASSUME NEW a, SameContent(a) PROVE \A e : Has(a, e)' <=> Has(a, e)
<1> QED BY DEF Has, SameContent

\* Nothing is owned anew, a new array is empty or like another.
LEMMA SameOwners ==
    ASSUME RcShapes, Filled, OwnersCounted, rcElement' = rcElement, rcElements' = rcElements,
           \A a \in Arrays :
              \/ SameContent(a)
              \/ /\ rcArray[a].owned = {} /\ rcArray'[a].owned = {}
                 /\ \/ rcArray'[a].elems = <<>>
                    \/ \E b \in Arrays : rcArray'[a].elems = rcArray[b].elems
    PROVE  Filled' /\ OwnersCounted'
<1>1. Filled'
  <2> SUFFICES ASSUME NEW a \in Arrays
               PROVE  /\ rcArray'[a].owned \subseteq 1..Len(rcArray'[a].elems)
                      /\ \A i \in 1..Len(rcArray'[a].elems) : rcArray'[a].elems[i] <= rcElements
                      /\ \A i, j \in 1..Len(rcArray'[a].elems) :
                            rcArray'[a].elems[i] = rcArray'[a].elems[j] => i = j
    BY DEF Filled
  <2>1. CASE SameContent(a)
    BY <2>1 DEF Filled, SameContent
  <2>2. CASE rcArray'[a].owned = {} /\ rcArray'[a].elems = <<>>
    BY <2>2
  <2>3. ASSUME rcArray'[a].owned = {}, NEW b \in Arrays, rcArray'[a].elems = rcArray[b].elems
        PROVE  /\ \A i \in 1..Len(rcArray'[a].elems) : rcArray'[a].elems[i] <= rcElements
               /\ \A i, j \in 1..Len(rcArray'[a].elems) :
                     rcArray'[a].elems[i] = rcArray'[a].elems[j] => i = j
    BY <2>3 DEF Filled
  <2> QED BY <2>1, <2>2, <2>3
<1>2. \A a \in Arrays : \A e : Has(a, e)' <=> Has(a, e)
  <2> SUFFICES ASSUME NEW a \in Arrays PROVE \A e : Has(a, e)' <=> Has(a, e)
    OBVIOUS
  <2>1. CASE SameContent(a)
    BY <2>1, SameHas
  <2>2. CASE rcArray[a].owned = {} /\ rcArray'[a].owned = {}
    BY <2>2 DEF Has
  <2> QED BY <2>1, <2>2
<1>3. \A e : Owners(e)' = Owners(e)
  BY <1>2, OwnersHave
<1>4. OwnersCounted'
  BY <1>3 DEF OwnersCounted
<1> QED BY <1>1, <1>4

\* The array a comes to own e, or no longer does, and e is counted so.
LEMMA OneOwner ==
    ASSUME RcShapes, OwnersCounted, NEW a \in Arrays, NEW e \in Elements,
           \A b \in Arrays : b # a => SameContent(b),
           \A f \in Elements : f # e => (Has(a, f)' <=> Has(a, f)) /\ rcElement'[f] = rcElement[f],
           \/ Has(a, e)' /\ ~Has(a, e) /\ rcElement'[e] = rcElement[e] + 1
           \/ ~Has(a, e)' /\ Has(a, e) /\ rcElement'[e] = rcElement[e] - 1
    PROVE  OwnersCounted'
<1> SUFFICES ASSUME NEW f \in Elements PROVE rcElement'[f] = Cardinality(Owners(f)')
  BY DEF OwnersCounted
<1>1. \A b \in Arrays : b # a => (Has(b, f)' <=> Has(b, f))
  BY SameHas
<1>2. CASE f # e
  <2>1. Owners(f)' = Owners(f)
    BY <1>1, <1>2, OwnersHave
  <2> QED BY <2>1, <1>2 DEF OwnersCounted
<1>3. CASE f = e /\ Has(a, e)' /\ ~Has(a, e) /\ rcElement'[e] = rcElement[e] + 1
  <2>1. Owners(e)' = Owners(e) \cup {a} /\ a \notin Owners(e)
    BY <1>1, <1>3, OwnersHave
  <2>2. IsFiniteSet(Owners(e))
    BY OwnersHave
  <2>3. Cardinality(Owners(e) \cup {a}) = Cardinality(Owners(e)) + 1
    BY <2>1, <2>2, FS_AddElement
  <2> QED BY <2>1, <2>3, <1>3 DEF OwnersCounted
<1>4. CASE f = e /\ ~Has(a, e)' /\ Has(a, e) /\ rcElement'[e] = rcElement[e] - 1
  <2>1. Owners(e)' = Owners(e) \ {a} /\ a \in Owners(e)
    BY <1>1, <1>4, OwnersHave
  <2>2. IsFiniteSet(Owners(e))
    BY OwnersHave
  <2>3. \A S : IsFiniteSet(S) /\ a \in S => Cardinality(S \ {a}) = Cardinality(S) - 1
    BY FS_RemoveElement, Zenon
  <2>4. Cardinality(Owners(e) \ {a}) = Cardinality(Owners(e)) - 1
    BY <2>1, <2>2, <2>3
  <2> QED BY <2>1, <2>4, <1>4 DEF OwnersCounted
<1> QED BY <1>2, <1>3, <1>4

-----------------------------------------------------------------------------
(* What an array owns.                                                       *)
\* A thread that does nothing, with the arrays it is concerned with as they were.
LEMMA KeepsItsPace ==
    ASSUME RcShapes, Referring, Owning, NEW u \in Threads, rcThread'[u] = rcThread[u],
           rcThread[u].at = "copy" => rcHeld'[u] = rcHeld[u],
           \A b \in 1..rcArrays : Refers(u, b) \/ Emptying(u, b) => SameContent(b)
    PROVE  KeepsPace(u)'
<1>0. KeepsPace(u)
  BY DEF Owning
<1>1. CASE rcThread[u].at = "copy"
  <2>1. Refers(u, Old(u)) /\ Old(u) \in 1..rcArrays
    BY <1>1, RcFields DEF Refers, Old
  <2>2. Refers(u, rcHeld[u]) /\ rcHeld[u] \in 1..rcArrays
    BY <1>1, WriterHas DEF Writes
  <2>3. SameContent(Old(u)) /\ SameContent(rcHeld[u])
    BY <2>1, <2>2
  <2> QED BY <1>0, <1>1, <2>3 DEF KeepsPace, SameContent, Old
<1>2. CASE rcThread[u].at = "release"
  <2>1. Emptying(u, Old(u)) /\ Old(u) \in 1..rcArrays
    BY <1>2, RcFields DEF Emptying, Old
  <2>2. SameContent(Old(u))
    BY <2>1
  <2> QED BY <1>0, <1>2, <2>2 DEF KeepsPace, SameContent, Old
<1>3. CASE rcThread[u].at \notin {"copy", "release"}
  BY <1>3 DEF KeepsPace
<1> QED BY <1>1, <1>2, <1>3

\* An array as it was, that whoever was concerned with it still is.
LEMMA StillOwnsAll ==
    ASSUME Owning, NEW b \in 1..rcArrays, SameContent(b),
           rcArray[b].freed => rcArray'[b].freed,
           \A u \in Threads : Tends(u, b) => Tends(u, b)' \/ rcArray'[b].freed
                                 \/ rcArray[b].owned = 1..Len(rcArray[b].elems)
    PROVE  OwnsAll(b)'
<1>1. OwnsAll(b)
  BY DEF Owning
<1>2. CASE rcArray[b].freed
  BY <1>2 DEF OwnsAll
<1>3. CASE rcArray[b].owned = 1..Len(rcArray[b].elems)
  BY <1>3 DEF OwnsAll, SameContent
<1>4. CASE \E u \in Threads : Tends(u, b)
  <2>1. PICK u \in Threads : Tends(u, b)
    BY <1>4
  <2> QED BY <1>3, <2>1 DEF OwnsAll
<1> QED BY <1>1, <1>2, <1>3, <1>4 DEF OwnsAll

\* What only t refers to is whole, unless t handles it.
LEMMA SoleOwnsAll ==
    ASSUME RcShapes, Referring, Owning, NEW t \in Threads, NEW a \in 1..rcArrays, Sole(t, a),
           rcThread[t].at = "copy" => rcHeld[t] # a
    PROVE  /\ rcArray[a].owned = 1..Len(rcArray[a].elems)
           /\ \A u \in Threads : ~Tends(u, a)
<1>1. Refers(t, a)
  BY DEF Sole
<1>2. ~rcArray[a].freed /\ \A u \in Threads : ~Emptying(u, a)
  BY <1>1, ReferredAlive
<1>3. \A u \in Threads : ~Tends(u, a)
  BY <1>2 DEF Tends, Sole, Refers
<1> QED BY <1>2, <1>3 DEF Owning, OwnsAll

\* Arrays and elements after a step that does not touch what is owned: what
\* remains to show is what its thread keeps pace with.
OwnersKept == Filled' /\ Owning' /\ OwnersCounted'

LEMMA BecomesContent ==
    ASSUME RcShapes, NEW a \in Arrays, NEW r \in ArrayRecords, ArrayBecomes(a, r),
           r.owned = rcArray[a].owned, r.elems = rcArray[a].elems
    PROVE  \A b \in Arrays : SameContent(b)
<1> SUFFICES ASSUME NEW b \in Arrays PROVE SameContent(b)
  OBVIOUS
<1>1. CASE b = a
  BY <1>1 DEF ArrayBecomes, SameContent
<1>2. CASE b # a
  BY <1>2 DEF ArrayBecomes, SameContent
<1> QED BY <1>1, <1>2

LEMMA AllocOwners ==
    ASSUME RcShapes, Referring, Filled, Owning, OwnersCounted, NEW t \in Threads, AllocArray(t)
    PROVE  OwnersKept
<1>1. /\ rcArrays + 1 \in Arrays /\ rcArrays' = rcArrays + 1 /\ rcArrays \in Nat
      /\ rcThread[t].at = "idle" /\ ArrayBecomes(rcArrays + 1, NewArray(<<>>))
      /\ HeldBecomes(t, rcArrays + 1)
      /\ rcThread' = rcThread /\ rcElement' = rcElement /\ rcElements' = rcElements
  BY AllocDoes, RcFields
<1>2. /\ rcArray'[rcArrays + 1].owned = {} /\ rcArray'[rcArrays + 1].elems = <<>>
      /\ \A b \in Arrays : b # rcArrays + 1 => rcArray'[b] = rcArray[b]
  BY <1>1, NewArrayRecord, EmptySeq DEF ArrayBecomes
<1>3. rcArray[rcArrays + 1].owned = {}
  BY <1>1 DEF Referring, FreedUnused
<1>4. \A b \in 1..rcArrays : SameContent(b) /\ rcArray'[b].freed = rcArray[b].freed
  <2> SUFFICES ASSUME NEW b \in 1..rcArrays
               PROVE  SameContent(b) /\ rcArray'[b].freed = rcArray[b].freed
    OBVIOUS
  <2>1. b \in Arrays /\ b # rcArrays + 1
    BY <1>1, RcFields
  <2> QED BY <2>1, <1>2 DEF SameContent
<1>5. Filled' /\ OwnersCounted'
  <2>1. \A b \in Arrays : b # rcArrays + 1 => SameContent(b)
    BY <1>2 DEF SameContent
  <2> QED BY <2>1, <1>1, <1>2, <1>3, SameOwners
<1>6. \A u \in Threads : KeepsPace(u)'
  <2> SUFFICES ASSUME NEW u \in Threads PROVE KeepsPace(u)'
    OBVIOUS
  <2>1. rcThread[u].at = "copy" => rcHeld'[u] = rcHeld[u]
    BY <1>1 DEF HeldBecomes
  <2> QED BY <2>1, <1>1, <1>4, KeepsItsPace
<1>7. \A b \in 1..rcArrays' : OwnsAll(b)'
  <2> SUFFICES ASSUME NEW b \in 1..(rcArrays + 1) PROVE OwnsAll(b)'
    BY <1>1
  <2>1. CASE b = rcArrays + 1
    BY <2>1, <1>2 DEF OwnsAll
  <2>2. CASE b # rcArrays + 1
    <3>1. b \in 1..rcArrays
      BY <2>2, <1>1
    <3>2. \A u \in Threads : Tends(u, b) => Tends(u, b)'
      BY <1>1 DEF Tends, Emptying, Old, HeldBecomes
    <3> QED BY <3>1, <3>2, <1>4, StillOwnsAll
  <2> QED BY <2>1, <2>2
<1> QED BY <1>5, <1>6, <1>7 DEF Owning, OwnersKept

LEMMA RetainOwners ==
    ASSUME RcShapes, Referring, Filled, Owning, OwnersCounted, NEW t \in Threads, RetainArray(t)
    PROVE  OwnersKept
<1>1. PICK a \in Arrays, u \in Threads :
         /\ ArrayBecomes(a, [rcArray[a] EXCEPT !.count = rcArray[a].count + 1])
         /\ rcHeld[u] = 0 /\ rcThread[u].at = "idle" /\ HeldBecomes(u, a)
         /\ rcThread' = rcThread /\ rcElement' = rcElement
         /\ rcElements' = rcElements /\ rcArrays' = rcArrays
  BY RetainDoes
<1>2. \A b \in Arrays : SameContent(b) /\ rcArray'[b].freed = rcArray[b].freed
  <2>1. rcArray[a] \in ArrayRecords
    BY ArrayRecordTypes
  <2>2. /\ rcArray'[a].owned = rcArray[a].owned /\ rcArray'[a].elems = rcArray[a].elems
        /\ rcArray'[a].freed = rcArray[a].freed
    BY <1>1, <2>1 DEF ArrayBecomes, ArrayRecords
  <2> QED BY <1>1, <2>2 DEF ArrayBecomes, SameContent
<1>3. 1..rcArrays \subseteq Arrays
  BY RcFields
<1>4. Filled' /\ OwnersCounted'
  BY <1>1, <1>2, SameOwners
<1>5. \A v \in Threads : KeepsPace(v)'
  <2> SUFFICES ASSUME NEW v \in Threads PROVE KeepsPace(v)'
    OBVIOUS
  <2>1. rcThread[v].at = "copy" => rcHeld'[v] = rcHeld[v]
    BY <1>1 DEF HeldBecomes
  <2> QED BY <2>1, <1>1, <1>2, <1>3, KeepsItsPace
<1>6. \A b \in 1..rcArrays' : OwnsAll(b)'
  <2> SUFFICES ASSUME NEW b \in 1..rcArrays PROVE OwnsAll(b)'
    BY <1>1
  <2>1. \A v \in Threads : Tends(v, b) => Tends(v, b)'
    BY <1>1 DEF Tends, Emptying, Old, HeldBecomes
  <2> QED BY <2>1, <1>2, <1>3, StillOwnsAll
<1> QED BY <1>4, <1>5, <1>6 DEF Owning, OwnersKept

\* t gives a reference to a back, goes on to p, and is the only one concerned.
LEMMA DecrementOwners ==
    ASSUME RcShapes, Referring, Filled, Owning, OwnersCounted, NEW t \in Threads,
           NEW a \in 1..rcArrays, NEW p \in {"idle", "write"}, Decrement(t, a, p),
           Refers(t, a), rcThread[t].at # "release",
           rcThread[t].at = "copy" =>
              /\ rcHeld[t] # a
              /\ rcArray[rcHeld[t]].owned = 1..Len(rcArray[rcHeld[t]].elems),
           \A u \in Threads : u # t => rcHeld'[u] = rcHeld[u],
           rcArrays' = rcArrays, rcElement' = rcElement, rcElements' = rcElements
    PROVE  OwnersKept
<1>1. /\ a \in Arrays /\ ArrayBecomes(a, [rcArray[a] EXCEPT !.count = rcArray[a].count - 1])
      /\ ThreadBecomes(t, AfterDecrement(a, p))
      /\ 1..rcArrays \subseteq Arrays
  BY DecrementDoes, RcFields
<1>2. \A b \in Arrays : SameContent(b) /\ rcArray'[b].freed = rcArray[b].freed
  <2>1. rcArray[a] \in ArrayRecords
    BY <1>1, ArrayRecordTypes
  <2>2. /\ rcArray'[a].owned = rcArray[a].owned /\ rcArray'[a].elems = rcArray[a].elems
        /\ rcArray'[a].freed = rcArray[a].freed
    BY <1>1, <2>1 DEF ArrayBecomes, ArrayRecords
  <2> QED BY <1>1, <2>2 DEF ArrayBecomes, SameContent
<1>3. \A u \in Threads : u # t => rcThread'[u] = rcThread[u]
  BY <1>1 DEF ThreadBecomes
<1>4. Filled' /\ OwnersCounted'
  BY <1>2, SameOwners
<1>5. \A u \in Threads : KeepsPace(u)'
  <2> SUFFICES ASSUME NEW u \in Threads PROVE KeepsPace(u)'
    OBVIOUS
  <2>1. CASE u # t
    BY <2>1, <1>1, <1>2, <1>3, KeepsItsPace
  <2>2. CASE u = t /\ rcArray[a].count = 1
    <3>1. /\ rcThread'[t].at = "release" /\ rcThread'[t].old = a /\ rcThread'[t].next = 1
      BY <2>2, <1>1, DecrementDoes DEF ThreadBecomes
    <3>2. Cardinality(References(a)) = 1
      BY <2>2, ReferredAlive
    <3>3. Sole(t, a)
      BY <3>2, CountedSole
    <3>4. rcArray[a].owned = 1..Len(rcArray[a].elems)
      BY <3>3, SoleOwnsAll
    <3>5. Len(rcArray[a].elems) \in Nat
      BY <1>1, ArrayRecordTypes
    <3>6. rcArray'[a].owned = 1..Len(rcArray'[a].elems) /\ Len(rcArray'[a].elems) \in Nat
      BY <3>4, <3>5, <1>1, <1>2 DEF SameContent
    <3> QED BY <2>2, <3>1, <3>6 DEF KeepsPace, Old
  <2>3. CASE u = t /\ rcArray[a].count # 1
    <3>1. rcThread'[t].at = p
      BY <2>3, <1>1, DecrementDoes DEF ThreadBecomes
    <3> QED BY <2>3, <3>1 DEF KeepsPace
  <2> QED BY <2>1, <2>2, <2>3
<1>6. \A b \in 1..rcArrays' : OwnsAll(b)'
  <2> SUFFICES ASSUME NEW b \in 1..rcArrays PROVE OwnsAll(b)'
    OBVIOUS
  <2>1. ASSUME NEW u \in Threads, Tends(u, b)
        PROVE  Tends(u, b)' \/ rcArray[b].owned = 1..Len(rcArray[b].elems)
    <3>1. CASE u # t
      BY <2>1, <3>1, <1>3 DEF Tends, Emptying, Old
    <3>2. CASE u = t
      BY <2>1, <3>2 DEF Tends, Emptying
    <3> QED BY <3>1, <3>2
  <2> QED BY <2>1, <1>1, <1>2, StillOwnsAll
<1> QED BY <1>4, <1>5, <1>6 DEF Owning, OwnersKept

LEMMA DropOwners ==
    ASSUME RcShapes, Referring, Filled, Owning, OwnersCounted, NEW t \in Threads, DropArray(t)
    PROVE  OwnersKept
<1>1. PICK a \in 1..rcArrays :
         /\ a = rcHeld[t] /\ rcThread[t].at = "idle" /\ Decrement(t, a, "idle")
         /\ HeldBecomes(t, 0) /\ rcElement' = rcElement /\ rcElements' = rcElements
         /\ rcArrays' = rcArrays
  BY DropDoes
<1>2. Refers(t, a) /\ \A u \in Threads : u # t => rcHeld'[u] = rcHeld[u]
  BY <1>1 DEF Refers, HeldBecomes
<1> QED BY <1>1, <1>2, DecrementOwners

LEMMA LeaveOwners ==
    ASSUME RcShapes, Referring, Filled, Owning, OwnersCounted, NEW t \in Threads, LeaveOld(t)
    PROVE  OwnersKept
<1>1. PICK a \in 1..rcArrays :
         /\ a = Old(t) /\ rcThread[t].at = "copy" /\ Decrement(t, a, "write")
         /\ rcThread[t].next > Len(rcArray[rcHeld[t]].elems)
         /\ rcHeld' = rcHeld /\ rcElement' = rcElement /\ rcElements' = rcElements
         /\ rcArrays' = rcArrays
  BY LeaveDoes
<1>2. Refers(t, a) /\ Writes(t)
  BY <1>1 DEF Refers, Writes
<1>3. rcHeld[t] \in Arrays /\ rcHeld[t] # a
  BY <1>1, <1>2, WriterHas DEF Referring, WritersAlone
<1>4. /\ rcArray[rcHeld[t]].owned = 1..(rcThread[t].next - 1)
      /\ rcThread[t].next <= Len(rcArray[rcHeld[t]].elems) + 1
  BY <1>1 DEF Owning, KeepsPace
<1>5. Len(rcArray[rcHeld[t]].elems) \in Nat /\ rcThread[t].next \in Nat
  BY <1>3, ArrayRecordTypes, RcFields
<1>6. rcArray[rcHeld[t]].owned = 1..Len(rcArray[rcHeld[t]].elems)
  <2>1. rcThread[t].next - 1 = Len(rcArray[rcHeld[t]].elems)
    BY <1>1, <1>4, <1>5
  <2> QED BY <2>1, <1>4
<1> QED BY <1>1, <1>2, <1>3, <1>6, DecrementOwners

LEMMA FreeOwners ==
    ASSUME RcShapes, Referring, Filled, Owning, OwnersCounted, NEW t \in Threads, FreeArray(t)
    PROVE  OwnersKept
<1>1. PICK a \in Arrays :
         /\ a = Old(t) /\ rcThread[t].at = "release"
         /\ ArrayBecomes(a, [rcArray[a] EXCEPT !.freed = TRUE])
         /\ ThreadBecomes(t, [RcIdle EXCEPT !.at = rcThread[t].then])
         /\ rcThread[t].then \in {"idle", "write"} /\ rcElement' = rcElement
         /\ rcHeld' = rcHeld /\ rcElements' = rcElements /\ rcArrays' = rcArrays
  BY FreeDoes
<1>2. /\ \A b \in Arrays : SameContent(b) /\ (rcArray[b].freed => rcArray'[b].freed)
      /\ rcArray'[a].freed
  <2>1. rcArray[a] \in ArrayRecords
    BY ArrayRecordTypes
  <2>2. /\ rcArray'[a].owned = rcArray[a].owned /\ rcArray'[a].elems = rcArray[a].elems
        /\ rcArray'[a].freed = TRUE
    BY <1>1, <2>1 DEF ArrayBecomes, ArrayRecords
  <2> QED BY <1>1, <2>2 DEF ArrayBecomes, SameContent
<1>3. 1..rcArrays \subseteq Arrays
  BY RcFields
<1>4. /\ rcThread'[t].at = rcThread[t].then
      /\ \A u \in Threads : u # t => rcThread'[u] = rcThread[u]
  BY <1>1, IdleRcRecord DEF ThreadBecomes
<1>5. Filled' /\ OwnersCounted'
  BY <1>1, <1>2, SameOwners
<1>6. \A u \in Threads : KeepsPace(u)'
  <2> SUFFICES ASSUME NEW u \in Threads PROVE KeepsPace(u)'
    OBVIOUS
  <2>1. CASE u # t
    BY <2>1, <1>1, <1>2, <1>3, <1>4, KeepsItsPace
  <2>2. CASE u = t
    BY <2>2, <1>1, <1>4 DEF KeepsPace
  <2> QED BY <2>1, <2>2
<1>7. \A b \in 1..rcArrays' : OwnsAll(b)'
  <2> SUFFICES ASSUME NEW b \in 1..rcArrays PROVE OwnsAll(b)'
    BY <1>1
  <2>1. ASSUME NEW u \in Threads, Tends(u, b) PROVE Tends(u, b)' \/ rcArray'[b].freed
    <3>1. CASE u # t
      BY <2>1, <3>1, <1>1, <1>4 DEF Tends, Emptying, Old
    <3>2. CASE u = t
      BY <2>1, <3>2, <1>1, <1>2 DEF Tends, Emptying
    <3> QED BY <3>1, <3>2
  <2> QED BY <2>1, <1>2, <1>3, StillOwnsAll
<1> QED BY <1>5, <1>6, <1>7 DEF Owning, OwnersKept

\* The array alone is written in place; a shared one has a copy begun, which
\* owns nothing yet.
LEMMA PrepareOwners ==
    ASSUME RcShapes, Referring, Filled, Owning, OwnersCounted, NEW t \in Threads, PrepareMut(t)
    PROVE  OwnersKept
<1> DEFINE a == rcHeld[t]
<1>1. /\ a \in 1..rcArrays /\ a \in Arrays /\ rcThread[t].at = "idle" /\ rcArrays \in Nat
      /\ rcElement' = rcElement /\ rcElements' = rcElements /\ 1..rcArrays \subseteq Arrays
  BY PrepareDoes, RcFields
<1>2. CASE /\ ThreadBecomes(t, [RcIdle EXCEPT !.at = "write"])
           /\ rcArray' = rcArray /\ rcArrays' = rcArrays /\ rcHeld' = rcHeld
  <2>1. /\ rcThread'[t].at = "write"
        /\ \A u \in Threads : u # t => rcThread'[u] = rcThread[u]
    BY <1>2, IdleRcRecord DEF ThreadBecomes
  <2>2. \A b \in Arrays : SameContent(b) /\ rcArray'[b].freed = rcArray[b].freed
    BY <1>2 DEF SameContent
  <2>3. Filled' /\ OwnersCounted'
    BY <1>1, <2>2, SameOwners
  <2>4. \A u \in Threads : KeepsPace(u)'
    <3> SUFFICES ASSUME NEW u \in Threads PROVE KeepsPace(u)'
      OBVIOUS
    <3>1. CASE u # t
      BY <3>1, <1>1, <1>2, <2>1, <2>2, KeepsItsPace
    <3>2. CASE u = t
      BY <3>2, <2>1 DEF KeepsPace
    <3> QED BY <3>1, <3>2
  <2>5. \A b \in 1..rcArrays' : OwnsAll(b)'
    <3> SUFFICES ASSUME NEW b \in 1..rcArrays PROVE OwnsAll(b)'
      BY <1>2
    <3>1. \A u \in Threads : Tends(u, b) => Tends(u, b)'
      BY <1>1, <1>2, <2>1 DEF Tends, Emptying, Old
    <3> QED BY <3>1, <1>1, <2>2, StillOwnsAll
  <2> QED BY <2>3, <2>4, <2>5 DEF Owning, OwnersKept
<1>3. CASE /\ rcArrays + 1 \in Arrays /\ rcArrays' = rcArrays + 1
           /\ ArrayBecomes(rcArrays + 1, NewArray(rcArray[a].elems))
           /\ HeldBecomes(t, rcArrays + 1)
           /\ ThreadBecomes(t, [RcIdle EXCEPT !.at = "copy", !.old = a])
  <2>1. /\ rcThread'[t].at = "copy" /\ Old(t)' = a /\ rcThread'[t].next = 1
        /\ \A u \in Threads : u # t => rcThread'[u] = rcThread[u]
    <3> DEFINE r == [RcIdle EXCEPT !.at = "copy", !.old = a]
    <3>1. r.at = "copy" /\ r.old = a /\ r.next = 1
      <4>1. a \in Nat
        BY <1>1
      <4> HIDE DEF a
      <4> QED BY <4>1, CopyRecord
    <3>2. ThreadBecomes(t, r)
      BY <1>3
    <3> HIDE DEF r, a
    <3> QED BY <3>1, <3>2 DEF ThreadBecomes, Old
  <2>2. /\ rcArray'[rcArrays + 1].owned = {} /\ rcArray'[rcArrays + 1].elems = rcArray[a].elems
        /\ \A b \in Arrays : b # rcArrays + 1 => rcArray'[b] = rcArray[b]
    BY <1>1, <1>3, NewArrayRecord, ArrayRecordTypes DEF ArrayBecomes
  <2>3. rcArray[rcArrays + 1].owned = {}
    BY <1>1, <1>3 DEF Referring, FreedUnused
  <2>4. \A b \in 1..rcArrays : SameContent(b) /\ rcArray'[b].freed = rcArray[b].freed
    <3> SUFFICES ASSUME NEW b \in 1..rcArrays
                 PROVE  SameContent(b) /\ rcArray'[b].freed = rcArray[b].freed
      OBVIOUS
    <3>1. b \in Arrays /\ b # rcArrays + 1
      BY <1>1
    <3> QED BY <3>1, <2>2 DEF SameContent
  <2>5. Filled' /\ OwnersCounted'
    <3>1. \A b \in Arrays : b # rcArrays + 1 => SameContent(b)
      BY <2>2 DEF SameContent
    <3> QED BY <3>1, <1>1, <2>2, <2>3, SameOwners
  <2>6. \A u \in Threads : KeepsPace(u)'
    <3> SUFFICES ASSUME NEW u \in Threads PROVE KeepsPace(u)'
      OBVIOUS
    <3>1. CASE u # t
      <4>1. rcHeld'[u] = rcHeld[u]
        BY <3>1, <1>3 DEF HeldBecomes
      <4> QED BY <3>1, <4>1, <2>1, <2>4, KeepsItsPace
    <3>2. CASE u = t
      <4>1. rcHeld'[t] = rcArrays + 1
        BY <1>3 DEF HeldBecomes
      <4>2. rcArray'[Old(t)'].elems = rcArray[a].elems
        BY <1>1, <2>1, <2>4 DEF SameContent
      <4>3. Len(rcArray[a].elems) \in Nat
        BY <1>1, ArrayRecordTypes
      <4>4. Len(rcArray'[rcArrays + 1].elems) \in Nat
        BY <4>3, <2>2
      <4>5. rcArray'[rcHeld'[t]].owned = 1..(rcThread'[t].next - 1)
        BY <4>1, <2>1, <2>2
      <4> HIDE DEF a
      <4> QED BY <3>2, <4>1, <4>2, <4>4, <4>5, <2>1, <2>2 DEF KeepsPace
    <3> QED BY <3>1, <3>2
  <2>7. \A b \in 1..rcArrays' : OwnsAll(b)'
    <3> SUFFICES ASSUME NEW b \in 1..(rcArrays + 1) PROVE OwnsAll(b)'
      BY <1>3
    <3>1. CASE b = rcArrays + 1
      <4>1. Tends(t, b)'
        BY <3>1, <1>3, <2>1 DEF Tends, HeldBecomes
      <4> QED BY <4>1 DEF OwnsAll
    <3>2. CASE b # rcArrays + 1
      <4>1. b \in 1..rcArrays
        BY <3>2, <1>1
      <4>2. \A u \in Threads : Tends(u, b) => u # t
        BY <1>1 DEF Tends, Emptying
      <4>3. \A u \in Threads : u # t => rcThread'[u] = rcThread[u] /\ rcHeld'[u] = rcHeld[u]
        BY <2>1, <1>3 DEF HeldBecomes
      <4>4. \A u \in Threads : Tends(u, b) => Tends(u, b)'
        BY <4>2, <4>3 DEF Tends, Emptying, Old
      <4> QED BY <4>1, <4>4, <2>4, StillOwnsAll
    <3> QED BY <3>1, <3>2
  <2> QED BY <2>5, <2>6, <2>7 DEF Owning, OwnersKept
<1> QED BY <1>2, <1>3, PrepareDoes

\* t changes what a owns, and nobody else is concerned with a.
LEMMA OneOwning ==
    ASSUME RcShapes, Referring, Owning, NEW t \in Threads, NEW a \in 1..rcArrays,
           rcHeld' = rcHeld, rcArrays' = rcArrays,
           \A u \in Threads :
              u # t => rcThread'[u] = rcThread[u] /\ ~Refers(u, a) /\ ~Emptying(u, a),
           \A b \in Arrays : b # a => rcArray'[b] = rcArray[b],
           \A b \in 1..rcArrays : b # a /\ Tends(t, b) => Tends(t, b)',
           KeepsPace(t)', OwnsAll(a)'
    PROVE  Owning'
<1>1. 1..rcArrays \subseteq Arrays
  BY RcFields
<1>2. \A b \in 1..rcArrays : b # a => SameContent(b) /\ rcArray'[b].freed = rcArray[b].freed
  BY <1>1 DEF SameContent
<1>3. \A u \in Threads : KeepsPace(u)'
  <2> SUFFICES ASSUME NEW u \in Threads, u # t PROVE KeepsPace(u)'
    OBVIOUS
  <2>1. \A b \in 1..rcArrays : Refers(u, b) \/ Emptying(u, b) => SameContent(b)
    BY <1>2
  <2> QED BY <2>1, KeepsItsPace
<1>4. \A b \in 1..rcArrays' : OwnsAll(b)'
  <2> SUFFICES ASSUME NEW b \in 1..rcArrays, b # a PROVE OwnsAll(b)'
    OBVIOUS
  <2>1. ASSUME NEW u \in Threads, Tends(u, b) PROVE Tends(u, b)'
    <3>1. CASE u = t
      BY <2>1, <3>1
    <3>2. CASE u # t
      BY <2>1, <3>2 DEF Tends, Emptying, Old
    <3> QED BY <3>1, <3>2
  <2> QED BY <2>1, <1>2, StillOwnsAll
<1> QED BY <1>3, <1>4 DEF Owning

\* An element is counted by an array that has it, and is distinct in it.
LEMMA ElementPlace ==
    ASSUME RcShapes, Filled, NEW a \in Arrays, NEW i \in 1..Len(rcArray[a].elems)
    PROVE  /\ rcArray[a].owned \subseteq 1..Len(rcArray[a].elems)
           /\ \A j \in rcArray[a].owned : rcArray[a].elems[j] = rcArray[a].elems[i] => j = i
           /\ Has(a, rcArray[a].elems[i]) <=> i \in rcArray[a].owned
<1>1. rcArray[a].owned \subseteq 1..Len(rcArray[a].elems)
  BY DEF Filled
<1>2. \A j \in rcArray[a].owned : rcArray[a].elems[j] = rcArray[a].elems[i] => j = i
  BY <1>1 DEF Filled
<1> QED BY <1>1, <1>2 DEF Has

\* The elements stay where they are, one more or one less is owned.
LEMMA PlacesFilled ==
    ASSUME Filled, rcElements' = rcElements, NEW a \in Arrays,
           \A b \in Arrays : b # a => rcArray'[b] = rcArray[b],
           rcArray'[a].elems = rcArray[a].elems,
           rcArray'[a].owned \subseteq 1..Len(rcArray[a].elems)
    PROVE  Filled'
<1> SUFFICES ASSUME NEW b \in Arrays
             PROVE  /\ rcArray'[b].owned \subseteq 1..Len(rcArray'[b].elems)
                    /\ rcArray'[b].elems = rcArray[b].elems
  BY DEF Filled
<1>1. CASE b = a
  BY <1>1
<1>2. CASE b # a
  BY <1>2 DEF Filled
<1> QED BY <1>1, <1>2

LEMMA RetainElementOwners ==
    ASSUME RcShapes, Referring, Filled, Owning, OwnersCounted,
           NEW t \in Threads, RetainElement(t)
    PROVE  OwnersKept
<1>0. Writes(t) /\ rcHeld[t] # 0
  <2>1. Writes(t)
    BY DEF RetainElement, RcAt, Writes
  <2> QED BY <2>1 DEF Referring, WritersAlone
<1>1. PICK a \in 1..rcArrays, i \in Nat, e \in Elements :
         /\ a = rcHeld[t] /\ a \in Arrays /\ rcThread[t].at = "copy" /\ i = rcThread[t].next
         /\ i \in 1..Len(rcArray[a].elems) /\ e = rcArray[a].elems[i]
         /\ ArrayBecomes(a, [rcArray[a] EXCEPT !.owned = rcArray[a].owned \cup {i}])
         /\ ThreadBecomes(t, [rcThread[t] EXCEPT !.next = i + 1])
         /\ rcElement' = [rcElement EXCEPT ![e] = rcElement[e] + 1]
         /\ rcHeld' = rcHeld /\ rcElements' = rcElements /\ rcArrays' = rcArrays
  BY <1>0, RetainElementDoes, RcFields
<1>2. /\ rcArray[a].owned = 1..(i - 1) /\ Len(rcArray[a].elems) \in Nat
      /\ rcArray[a].elems = rcArray[Old(t)].elems
  BY <1>1, ArrayRecordTypes DEF Owning, KeepsPace
<1>3. /\ rcArray'[a].owned = 1..i /\ rcArray'[a].elems = rcArray[a].elems
      /\ \A b \in Arrays : b # a => rcArray'[b] = rcArray[b]
  <2>1. rcArray[a] \in ArrayRecords
    BY <1>1, ArrayRecordTypes
  <2>2. /\ rcArray'[a].owned = rcArray[a].owned \cup {i}
        /\ rcArray'[a].elems = rcArray[a].elems
        /\ \A b \in Arrays : b # a => rcArray'[b] = rcArray[b]
    BY <1>1, <2>1 DEF ArrayBecomes, ArrayRecords
  <2>3. 1..(i - 1) \cup {i} = 1..i
    BY <1>1
  <2> QED BY <1>2, <2>2, <2>3
<1>4. /\ rcThread'[t].at = "copy" /\ rcThread'[t].next = i + 1 /\ Old(t)' = Old(t)
      /\ \A u \in Threads : u # t => rcThread'[u] = rcThread[u]
  <2>1. rcThread[t] \in RcRecords
    BY RcFields
  <2> QED BY <1>1, <2>1, NextRecord DEF ThreadBecomes, Old
<1>5. Filled'
  <2>1. rcArray'[a].owned \subseteq 1..Len(rcArray[a].elems)
    BY <1>1, <1>2, <1>3
  <2> QED BY <2>1, <1>1, <1>3, PlacesFilled
<1>6. Owning'
  <2>1. \A u \in Threads : u # t => ~Refers(u, a) /\ ~Emptying(u, a)
    BY <1>0, <1>1, WriterHas, ReferredAlive DEF Sole
  <2>2. Old(t) \in Arrays /\ Old(t) # a
    BY <1>1, RcFields DEF Referring, WritersAlone, Old
  <2>3. rcArray'[Old(t)'].elems = rcArray[Old(t)].elems
    BY <1>3, <1>4, <2>2
  <2>4. KeepsPace(t)'
    <3>1. rcThread'[t].next - 1 = i /\ i + 1 <= Len(rcArray[a].elems) + 1
      BY <1>1, <1>2, <1>4
    <3>2. rcArray'[rcHeld'[t]] = rcArray'[a]
      BY <1>1
    <3> QED BY <3>1, <3>2, <2>3, <1>2, <1>3, <1>4 DEF KeepsPace
  <2>5. Tends(t, a)' /\ \A b \in 1..rcArrays : Tends(t, b) => Tends(t, b)'
    BY <1>1, <1>4 DEF Tends, Emptying
  <2>6. OwnsAll(a)'
    BY <2>5 DEF OwnsAll
  <2> QED BY <2>1, <2>4, <2>5, <2>6, <1>1, <1>3, <1>4, OneOwning
<1>7. OwnersCounted'
  <2>1. i \notin rcArray[a].owned /\ i \in rcArray'[a].owned
    BY <1>1, <1>2, <1>3
  <2>2. ~Has(a, e) /\ Has(a, e)'
    <3>1. Has(a, e)'
      BY <2>1, <1>1, <1>3 DEF Has
    <3> QED BY <3>1, <2>1, <1>1, ElementPlace
  <2>3. \A j : j \in rcArray'[a].owned <=> j \in rcArray[a].owned \/ j = i
    BY <1>1, <1>2, <1>3
  <2>4. \A f \in Elements : f # e => (Has(a, f)' <=> Has(a, f))
    BY <2>3, <1>1, <1>3 DEF Has
  <2>5. /\ rcElement'[e] = rcElement[e] + 1
        /\ \A f \in Elements : f # e => rcElement'[f] = rcElement[f]
    BY <1>1 DEF RcShapes
  <2>6. \A b \in Arrays : b # a => SameContent(b)
    BY <1>3 DEF SameContent
  <2>7. a \in Arrays
    BY <1>1
  <2> QED BY <2>2, <2>4, <2>5, <2>6, <2>7, OneOwner
<1> QED BY <1>5, <1>6, <1>7 DEF OwnersKept

LEMMA ReleaseElementOwners ==
    ASSUME RcShapes, Referring, Filled, Owning, OwnersCounted,
           NEW t \in Threads, ReleaseElement(t)
    PROVE  OwnersKept
<1>1. PICK a \in 1..rcArrays, i \in Nat, e \in Elements :
         /\ a = Old(t) /\ a \in Arrays /\ rcThread[t].at = "release" /\ i = rcThread[t].next
         /\ i \in 1..Len(rcArray[a].elems) /\ e = rcArray[a].elems[i]
         /\ ArrayBecomes(a, [rcArray[a] EXCEPT !.owned = rcArray[a].owned \ {i}])
         /\ ThreadBecomes(t, [rcThread[t] EXCEPT !.next = i + 1])
         /\ rcElement' = [rcElement EXCEPT ![e] = rcElement[e] - 1]
         /\ rcHeld' = rcHeld /\ rcElements' = rcElements /\ rcArrays' = rcArrays
  BY ReleaseElementDoes, RcFields
<1>2. rcArray[a].owned = i..Len(rcArray[a].elems) /\ Len(rcArray[a].elems) \in Nat
  BY <1>1, ArrayRecordTypes DEF Owning, KeepsPace
<1>3. /\ rcArray'[a].owned = (i + 1)..Len(rcArray[a].elems)
      /\ rcArray'[a].elems = rcArray[a].elems
      /\ \A b \in Arrays : b # a => rcArray'[b] = rcArray[b]
  <2>1. rcArray[a] \in ArrayRecords
    BY <1>1, ArrayRecordTypes
  <2>2. /\ rcArray'[a].owned = rcArray[a].owned \ {i}
        /\ rcArray'[a].elems = rcArray[a].elems
        /\ \A b \in Arrays : b # a => rcArray'[b] = rcArray[b]
    BY <1>1, <2>1 DEF ArrayBecomes, ArrayRecords
  <2>3. (i..Len(rcArray[a].elems)) \ {i} = (i + 1)..Len(rcArray[a].elems)
    BY <1>1, <1>2
  <2> QED BY <1>2, <2>2, <2>3
<1>4. /\ rcThread'[t].at = "release" /\ rcThread'[t].next = i + 1 /\ Old(t)' = a
      /\ \A u \in Threads : u # t => rcThread'[u] = rcThread[u]
  <2>1. rcThread[t] \in RcRecords
    BY RcFields
  <2> QED BY <1>1, <2>1, NextRecord, SMTT(30) DEF ThreadBecomes, Old
<1>5. Filled'
  <2>1. rcArray'[a].owned \subseteq 1..Len(rcArray[a].elems)
    BY <1>1, <1>2, <1>3
  <2> QED BY <2>1, <1>1, <1>3, PlacesFilled
<1>6. Owning'
  <2>0. Emptying(t, a)
    BY <1>1 DEF Emptying
  <2>1. \A u \in Threads : u # t => ~Refers(u, a) /\ ~Emptying(u, a)
    <3>1. \A u \in Threads : Emptying(u, a) => u = t
      BY <2>0 DEF Referring, DyingOnce
    <3> QED BY <3>1, <2>0, ReferredAlive
  <2>4. KeepsPace(t)'
    <3>1. i + 1 <= Len(rcArray[a].elems) + 1
      BY <1>1, <1>2
    <3>2. rcArray'[Old(t)'] = rcArray'[a]
      BY <1>4
    <3> QED BY <3>1, <3>2, <1>2, <1>3, <1>4 DEF KeepsPace
  <2>5. Tends(t, a)' /\ \A b \in 1..rcArrays : b # a => ~Tends(t, b)
    BY <1>1, <1>4 DEF Tends, Emptying
  <2>6. OwnsAll(a)'
    BY <2>5 DEF OwnsAll
  <2> QED BY <2>1, <2>4, <2>5, <2>6, <1>1, <1>3, <1>4, OneOwning
<1>7. OwnersCounted'
  <2>1. i \in rcArray[a].owned /\ i \notin rcArray'[a].owned
    BY <1>1, <1>2, <1>3
  <2>3. \A j : j \in rcArray'[a].owned <=> j \in rcArray[a].owned /\ j # i
    BY <1>1, <1>2, <1>3
  <2>2. Has(a, e) /\ ~Has(a, e)'
    <3>1. Has(a, e) /\ \A j \in rcArray[a].owned : rcArray[a].elems[j] = e => j = i
      BY <2>1, <1>1, ElementPlace
    <3> QED BY <3>1, <2>3, <1>3 DEF Has
  <2>4. \A f \in Elements : f # e => (Has(a, f)' <=> Has(a, f))
    BY <2>3, <1>1, <1>3 DEF Has
  <2>5. /\ rcElement'[e] = rcElement[e] - 1
        /\ \A f \in Elements : f # e => rcElement'[f] = rcElement[f]
    BY <1>1 DEF RcShapes
  <2>6. \A b \in Arrays : b # a => SameContent(b)
    BY <1>3 DEF SameContent
  <2>7. a \in Arrays
    BY <1>1
  <2> QED BY <2>2, <2>4, <2>5, <2>6, <2>7, OneOwner
<1> QED BY <1>5, <1>6, <1>7 DEF OwnersKept

\* The new element is put at the end of a.
LEMMA AppendedContent ==
    ASSUME RcShapes, NEW a \in Arrays, NEW n, n = Len(rcArray[a].elems),
           rcElements + 1 \in Elements,
           ArrayBecomes(a, [rcArray[a] EXCEPT
               !.elems = Append(rcArray[a].elems, rcElements + 1),
               !.owned = rcArray[a].owned \cup {n + 1}])
    PROVE  /\ rcArray'[a].owned = rcArray[a].owned \cup {n + 1}
           /\ Len(rcArray'[a].elems) = n + 1 /\ n \in Nat
           /\ \A i \in 1..n : rcArray'[a].elems[i] = rcArray[a].elems[i]
           /\ rcArray'[a].elems[n + 1] = rcElements + 1
           /\ \A b \in Arrays : b # a => rcArray'[b] = rcArray[b]
<1>0. PICK r : r = rcArray[a]
  OBVIOUS
<1>1. r \in ArrayRecords /\ r.elems \in Seq(Elements) /\ n \in Nat /\ n = Len(r.elems)
  BY <1>0, ArrayRecordTypes
<1>2. PICK s : s = Append(r.elems, rcElements + 1)
  OBVIOUS
<1>3. /\ s \in Seq(Elements) /\ Len(s) = n + 1 /\ s[n + 1] = rcElements + 1
      /\ \A i \in 1..n : s[i] = r.elems[i]
  BY <1>1, <1>2, AppendProperties
<1>4. PICK o : o = r.owned \cup {n + 1}
  OBVIOUS
<1>5. rcArray'[a] = [r EXCEPT !.elems = s, !.owned = o]
  BY <1>0, <1>2, <1>4 DEF ArrayBecomes
<1>6. rcArray'[a].elems = s /\ rcArray'[a].owned = o
  BY <1>1, <1>5 DEF ArrayRecords
<1> QED BY <1>0, <1>1, <1>3, <1>4, <1>6 DEF ArrayBecomes

LEMMA AppendOwners ==
    ASSUME RcShapes, Filled, OwnersCounted, NEW t \in Threads, rcHeld[t] \in Arrays,
           Appends(t), rcArray[rcHeld[t]].owned = 1..Len(rcArray[rcHeld[t]].elems)
    PROVE  /\ Filled' /\ OwnersCounted'
           /\ rcArray'[rcHeld[t]].owned = 1..Len(rcArray'[rcHeld[t]].elems)
           /\ \A b \in Arrays : b # rcHeld[t] => rcArray'[b] = rcArray[b]
<1>1. PICK a \in Arrays, n \in Nat, e \in Elements :
         /\ a = rcHeld[t] /\ n = Len(rcArray[a].elems) /\ e = rcElements + 1
         /\ rcElements' = e /\ rcElement' = [rcElement EXCEPT ![e] = 1]
         /\ ArrayBecomes(a, [rcArray[a] EXCEPT
                !.elems = Append(rcArray[a].elems, rcElements + 1),
                !.owned = rcArray[a].owned \cup {n + 1}])
  BY ArrayRecordTypes DEF Appends
<1>2. /\ rcArray'[a].owned = rcArray[a].owned \cup {n + 1}
      /\ Len(rcArray'[a].elems) = n + 1
      /\ \A i \in 1..n : rcArray'[a].elems[i] = rcArray[a].elems[i]
      /\ rcArray'[a].elems[n + 1] = e
      /\ \A b \in Arrays : b # a => rcArray'[b] = rcArray[b]
  BY <1>1, AppendedContent
<1>3. rcArray[a].owned = 1..n
  BY <1>1
<1>4. rcArray'[a].owned = 1..(n + 1)
  <2>1. 1..n \cup {n + 1} = 1..(n + 1)
    OBVIOUS
  <2> QED BY <1>2, <1>3, <2>1
<1>5. rcElements \in Nat /\ e \in Nat /\ e > rcElements
  <2>1. rcElements \in Nat
    BY RcAssumption DEF RcShapes
  <2> QED BY <2>1, <1>1
<1>6. \A b \in Arrays : \A i \in 1..Len(rcArray[b].elems) :
         rcArray[b].elems[i] \in Int /\ rcArray[b].elems[i] <= rcElements
  <2>1. \A b \in Arrays : \A i \in 1..Len(rcArray[b].elems) : rcArray[b].elems[i] \in Elements
    BY ArrayRecordTypes
  <2> QED BY <2>1 DEF Filled, Elements
<1>7. \A b \in Arrays : ~Has(b, e)
  <2> SUFFICES ASSUME NEW b \in Arrays, NEW i \in rcArray[b].owned PROVE rcArray[b].elems[i] # e
    BY DEF Has
  <2>1. i \in 1..Len(rcArray[b].elems)
    BY DEF Filled
  <2> QED BY <2>1, <1>5, <1>6
<1>8. Filled'
  <2> SUFFICES ASSUME NEW b \in Arrays
               PROVE  /\ rcArray'[b].owned \subseteq 1..Len(rcArray'[b].elems)
                      /\ \A i \in 1..Len(rcArray'[b].elems) : rcArray'[b].elems[i] <= e
                      /\ \A i, j \in 1..Len(rcArray'[b].elems) :
                            rcArray'[b].elems[i] = rcArray'[b].elems[j] => i = j
    BY <1>1 DEF Filled
  <2>1. CASE b # a
    <3>1. \A i \in 1..Len(rcArray[b].elems) : rcArray[b].elems[i] <= e
      BY <1>5, <1>6
    <3> QED BY <2>1, <3>1, <1>2 DEF Filled
  <2>2. CASE b = a
    <3>1. \A i \in 1..n : /\ rcArray'[a].elems[i] \in Int /\ rcArray'[a].elems[i] <= rcElements
                          /\ rcArray'[a].elems[i] # e
      BY <1>1, <1>2, <1>5, <1>6
    <3>2. \A i, j \in 1..n : rcArray'[a].elems[i] = rcArray'[a].elems[j] => i = j
      BY <1>1, <1>2, SMTT(30) DEF Filled
    <3>3. \A i \in 1..(n + 1) : i \in 1..n \/ i = n + 1
      OBVIOUS
    <3>4. \A i \in 1..(n + 1) : rcArray'[a].elems[i] <= e
      BY <3>1, <3>3, <1>2, <1>5
    <3>5. \A i, j \in 1..(n + 1) : rcArray'[a].elems[i] = rcArray'[a].elems[j] => i = j
      BY <3>1, <3>2, <3>3, <1>2
    <3> QED BY <2>2, <3>4, <3>5, <1>2, <1>4
  <2> QED BY <2>1, <2>2
<1>9. OwnersCounted'
  <2>1. Has(a, e)' /\ ~Has(a, e)
    <3>1. n + 1 \in 1..(n + 1)
      OBVIOUS
    <3> QED BY <3>1, <1>2, <1>4, <1>7 DEF Has
  <2>2. \A f \in Elements : f # e => (Has(a, f)' <=> Has(a, f))
    <3>1. \A i : i \in 1..(n + 1) <=> i \in 1..n \/ i = n + 1
      OBVIOUS
    <3> QED BY <3>1, <1>2, <1>3, <1>4 DEF Has
  <2>3. rcElement[e] = 0
    <3>1. Owners(e) = {}
      BY <1>7, OwnersHave
    <3> QED BY <3>1, FS_EmptySet DEF OwnersCounted
  <2>4. /\ rcElement'[e] = 1
        /\ \A f \in Elements : f # e => rcElement'[f] = rcElement[f]
    BY <1>1 DEF RcShapes
  <2>5. \A b \in Arrays : b # a => SameContent(b)
    BY <1>2 DEF SameContent
  <2> QED BY <2>1, <2>2, <2>3, <2>4, <2>5, OneOwner
<1> QED BY <1>1, <1>2, <1>4, <1>8, <1>9

\* The last element of a is taken away.
LEMMA ShortenedContent ==
    ASSUME RcShapes, NEW a \in Arrays, NEW n, n = Len(rcArray[a].elems), n > 0,
           ArrayBecomes(a, [rcArray[a] EXCEPT
               !.elems = SubSeq(rcArray[a].elems, 1, n - 1),
               !.owned = rcArray[a].owned \ {n}])
    PROVE  /\ rcArray'[a].owned = rcArray[a].owned \ {n}
           /\ Len(rcArray'[a].elems) = n - 1 /\ n \in Nat
           /\ \A i \in 1..(n - 1) : rcArray'[a].elems[i] = rcArray[a].elems[i]
           /\ \A b \in Arrays : b # a => rcArray'[b] = rcArray[b]
<1>0. PICK r : r = rcArray[a]
  OBVIOUS
<1>1. /\ r \in ArrayRecords /\ r.elems \in Seq(Elements) /\ n \in Nat
      /\ \A i \in 1..n : r.elems[i] \in Elements
  BY <1>0, ArrayRecordTypes
<1>2. PICK s : s = SubSeq(r.elems, 1, n - 1)
  OBVIOUS
<1>3. s = [i \in 1..(n - 1) |-> r.elems[i]]
  BY <1>1, <1>2
<1>4. /\ s \in Seq(Elements) /\ Len(s) = n - 1
      /\ \A i \in 1..(n - 1) : s[i] = r.elems[i]
  <2>1. n - 1 \in Nat
    BY <1>1
  <2>2. s \in [1..(n - 1) -> Elements]
    BY <1>1, <1>3
  <2> QED BY <1>3, <2>1, <2>2
<1>5. PICK o : o = r.owned \ {n}
  OBVIOUS
<1>6. rcArray'[a] = [r EXCEPT !.elems = s, !.owned = o]
  BY <1>0, <1>2, <1>5 DEF ArrayBecomes
<1>7. rcArray'[a].elems = s /\ rcArray'[a].owned = o
  BY <1>1, <1>6 DEF ArrayRecords
<1> QED BY <1>0, <1>1, <1>4, <1>5, <1>7 DEF ArrayBecomes

LEMMA TakeOwners ==
    ASSUME RcShapes, Filled, OwnersCounted, NEW t \in Threads, rcHeld[t] \in Arrays,
           TakesLast(t), rcArray[rcHeld[t]].owned = 1..Len(rcArray[rcHeld[t]].elems)
    PROVE  /\ Filled' /\ OwnersCounted'
           /\ rcArray'[rcHeld[t]].owned = 1..Len(rcArray'[rcHeld[t]].elems)
           /\ \A b \in Arrays : b # rcHeld[t] => rcArray'[b] = rcArray[b]
<1>1. PICK a \in Arrays, n \in Nat, e \in Elements :
         /\ a = rcHeld[t] /\ n = Len(rcArray[a].elems) /\ n > 0 /\ e = rcArray[a].elems[n]
         /\ rcElements' = rcElements /\ rcElement' = [rcElement EXCEPT ![e] = rcElement[e] - 1]
         /\ ArrayBecomes(a, [rcArray[a] EXCEPT
                !.elems = SubSeq(rcArray[a].elems, 1, n - 1),
                !.owned = rcArray[a].owned \ {n}])
  BY ArrayRecordTypes DEF TakesLast
<1>2. /\ rcArray'[a].owned = rcArray[a].owned \ {n}
      /\ Len(rcArray'[a].elems) = n - 1
      /\ \A i \in 1..(n - 1) : rcArray'[a].elems[i] = rcArray[a].elems[i]
      /\ \A b \in Arrays : b # a => rcArray'[b] = rcArray[b]
  BY <1>1, ShortenedContent
<1>3. rcArray[a].owned = 1..n
  BY <1>1
<1>4. rcArray'[a].owned = 1..(n - 1)
  <2>1. (1..n) \ {n} = 1..(n - 1)
    OBVIOUS
  <2> QED BY <1>2, <1>3, <2>1
<1>5. \A i : i \in 1..n <=> i \in 1..(n - 1) \/ i = n
  BY <1>1
<1>6. Filled'
  <2> SUFFICES ASSUME NEW b \in Arrays
               PROVE  /\ rcArray'[b].owned \subseteq 1..Len(rcArray'[b].elems)
                      /\ \A i \in 1..Len(rcArray'[b].elems) : rcArray'[b].elems[i] <= rcElements
                      /\ \A i, j \in 1..Len(rcArray'[b].elems) :
                            rcArray'[b].elems[i] = rcArray'[b].elems[j] => i = j
    BY <1>1 DEF Filled
  <2>1. CASE b # a
    BY <2>1, <1>2 DEF Filled
  <2>2. CASE b = a
    <3>1. /\ \A i \in 1..n : rcArray[a].elems[i] <= rcElements
          /\ \A i, j \in 1..n : rcArray[a].elems[i] = rcArray[a].elems[j] => i = j
      BY <1>1 DEF Filled
    <3> QED BY <2>2, <3>1, <1>2, <1>4, <1>5
  <2> QED BY <2>1, <2>2
<1>7. OwnersCounted'
  <2>1. n \in 1..Len(rcArray[a].elems) /\ n \in rcArray[a].owned
    BY <1>1, <1>3
  <2>2. Has(a, e) /\ \A j \in rcArray[a].owned : rcArray[a].elems[j] = e => j = n
    BY <2>1, <1>1, ElementPlace
  <2>3. ~Has(a, e)'
    <3> SUFFICES ASSUME NEW i \in 1..(n - 1) PROVE rcArray'[a].elems[i] # e
      BY <1>4 DEF Has
    <3>1. i \in rcArray[a].owned /\ i # n
      BY <1>1, <1>3
    <3> QED BY <3>1, <2>2, <1>2
  <2>4. \A f \in Elements : f # e => (Has(a, f)' <=> Has(a, f))
    BY <1>1, <1>2, <1>3, <1>4, <1>5 DEF Has
  <2>5. /\ rcElement'[e] = rcElement[e] - 1
        /\ \A f \in Elements : f # e => rcElement'[f] = rcElement[f]
    BY <1>1 DEF RcShapes
  <2>6. \A b \in Arrays : b # a => SameContent(b)
    BY <1>2 DEF SameContent
  <2> QED BY <2>2, <2>3, <2>4, <2>5, <2>6, OneOwner
<1> QED BY <1>1, <1>2, <1>4, <1>6, <1>7

LEMMA WriteOwners ==
    ASSUME RcShapes, Referring, Filled, Owning, OwnersCounted, NEW t \in Threads, WriteArray(t)
    PROVE  OwnersKept
<1>0. Writes(t) /\ rcHeld[t] # 0
  <2>1. Writes(t)
    BY DEF WriteArray, RcAt, Writes
  <2> QED BY <2>1 DEF Referring, WritersAlone
<1>1. PICK a \in 1..rcArrays :
         /\ a = rcHeld[t] /\ a \in Arrays /\ rcThread[t].at = "write"
         /\ ThreadBecomes(t, [RcIdle EXCEPT !.at = "idle"])
         /\ rcHeld' = rcHeld /\ rcArrays' = rcArrays
         /\ \/ Appends(t)
            \/ TakesLast(t)
            \/ rcArray' = rcArray /\ rcElement' = rcElement /\ rcElements' = rcElements
  BY <1>0, WriteDoes
<1>2. Sole(t, a)
  BY <1>0, <1>1, WriterHas
<1>3. rcArray[a].owned = 1..Len(rcArray[a].elems)
  BY <1>1, <1>2, SoleOwnsAll
<1>4. /\ Filled' /\ OwnersCounted' /\ rcArray'[a].owned = 1..Len(rcArray'[a].elems)
      /\ \A b \in Arrays : b # a => rcArray'[b] = rcArray[b]
  <2>1. CASE Appends(t)
    BY <2>1, <1>1, <1>3, AppendOwners
  <2>2. CASE TakesLast(t)
    BY <2>2, <1>1, <1>3, TakeOwners
  <2>3. CASE rcArray' = rcArray /\ rcElement' = rcElement /\ rcElements' = rcElements
    <3>1. \A b \in Arrays : SameContent(b)
      BY <2>3 DEF SameContent
    <3> QED BY <2>3, <3>1, <1>3, SameOwners
  <2> QED BY <1>1, <2>1, <2>2, <2>3
<1>5. /\ rcThread'[t].at = "idle"
      /\ \A u \in Threads : u # t => rcThread'[u] = rcThread[u]
  BY <1>1, IdleRcRecord DEF ThreadBecomes
<1>6. \A u \in Threads : u # t => ~Refers(u, a) /\ ~Emptying(u, a)
  BY <1>2, ReferredAlive DEF Sole
<1>7. KeepsPace(t)' /\ \A b \in 1..rcArrays : ~Tends(t, b)
  BY <1>1, <1>5 DEF KeepsPace, Tends, Emptying
<1>8. OwnsAll(a)'
  BY <1>4 DEF OwnsAll
<1>9. Owning'
  BY <1>1, <1>4, <1>5, <1>6, <1>7, <1>8, OneOwning
<1> QED BY <1>4, <1>9 DEF OwnersKept

-----------------------------------------------------------------------------
(* The invariant.                                                            *)
THEOREM InitRcInv == RcInit => RcInv
<1> SUFFICES ASSUME RcInit PROVE RcInv
  OBVIOUS
<1>1. /\ rcArrays = 0 /\ \A e \in Elements : rcElement[e] = 0
      /\ \A t \in Threads : rcThread[t].at = "idle"
  BY DEF RcInit, RcIdle
<1>2. \A a \in Arrays : /\ rcArray[a].freed = TRUE /\ rcArray[a].count = 0
                        /\ rcArray[a].owned = {} /\ rcArray[a].elems = <<>>
  BY DEF RcInit, NewArray
<1>3. RcShapes
  BY InitRcShapes
<1>4. Referring
  <2>1. 1..rcArrays = {}
    BY <1>1
  <2> QED BY <2>1, <1>1, <1>2 DEF Referring, CountsRight, DyingOnce, FreedUnused, WritersAlone,
                                  Writes
<1>5. Filled
  BY <1>2 DEF Filled
<1>6. Owning
  BY <1>1 DEF Owning, KeepsPace
<1>7. OwnersCounted
  <2>1. \A e \in Elements : Owners(e) = {}
    BY <1>2, OwnersHave DEF Has
  <2> QED BY <2>1, <1>1, FS_EmptySet DEF OwnersCounted
<1> QED BY <1>3, <1>4, <1>5, <1>6, <1>7 DEF RcInv

THEOREM RcInvKept == RcInv /\ [RcNext]_rcVars => RcInv'
<1> SUFFICES ASSUME RcShapes, Referring, Filled, Owning, OwnersCounted, [RcNext]_rcVars
             PROVE  RcInv'
  BY DEF RcInv
<1>1. RcShapes' /\ Referring'
  BY RcShapesKept, ReferringKept DEF Referring
<1>2. OwnersKept
  <2>1. CASE UNCHANGED rcVars
    <3>1. /\ rcArrays' = rcArrays /\ rcHeld' = rcHeld /\ rcThread' = rcThread
          /\ rcArray' = rcArray /\ rcElement' = rcElement /\ rcElements' = rcElements
      BY <2>1 DEF rcVars
    <3>2. \A b \in Arrays : SameContent(b) /\ rcArray'[b].freed = rcArray[b].freed
      BY <3>1 DEF SameContent
    <3>3. Filled' /\ OwnersCounted'
      BY <3>1, <3>2, SameOwners
    <3>4. 1..rcArrays \subseteq Arrays
      BY RcAssumption DEF RcShapes, Arrays
    <3>5. \A u \in Threads : KeepsPace(u)'
      BY <3>1, <3>2, <3>4, KeepsItsPace
    <3>6. \A u \in Threads, b \in 1..rcArrays : Tends(u, b) => Tends(u, b)'
      BY <3>1 DEF Tends, Emptying, Old
    <3>7. \A b \in 1..rcArrays : OwnsAll(b)'
      BY <3>2, <3>4, <3>6, StillOwnsAll
    <3> QED BY <3>1, <3>3, <3>5, <3>7 DEF Owning, OwnersKept
  <2>2. ASSUME NEW t \in Threads, AllocArray(t) PROVE OwnersKept
    BY <2>2, AllocOwners
  <2>3. ASSUME NEW t \in Threads, RetainArray(t) PROVE OwnersKept
    BY <2>3, RetainOwners
  <2>4. ASSUME NEW t \in Threads, DropArray(t) PROVE OwnersKept
    BY <2>4, DropOwners
  <2>5. ASSUME NEW t \in Threads, PrepareMut(t) PROVE OwnersKept
    BY <2>5, PrepareOwners
  <2>6. ASSUME NEW t \in Threads, RetainElement(t) PROVE OwnersKept
    BY <2>6, RetainElementOwners
  <2>7. ASSUME NEW t \in Threads, LeaveOld(t) PROVE OwnersKept
    BY <2>7, LeaveOwners
  <2>8. ASSUME NEW t \in Threads, ReleaseElement(t) PROVE OwnersKept
    BY <2>8, ReleaseElementOwners
  <2>9. ASSUME NEW t \in Threads, FreeArray(t) PROVE OwnersKept
    BY <2>9, FreeOwners
  <2>10. ASSUME NEW t \in Threads, WriteArray(t) PROVE OwnersKept
    BY <2>10, WriteOwners
  <2> QED BY <2>1, <2>2, <2>3, <2>4, <2>5, <2>6, <2>7, <2>8, <2>9, <2>10 DEF RcNext
<1> QED BY <1>1, <1>2 DEF RcInv, OwnersKept

\* What is held has no freed element: it owns all of them, or is being copied
\* from an array that does.
LEMMA HeldElementsCounted ==
    ASSUME RcInv, NEW a \in 1..rcArrays, References(a) # {},
           NEW i \in 1..Len(rcArray[a].elems)
    PROVE  rcElement[rcArray[a].elems[i]] > 0
<1> USE DEF RcInv
<1>0. PICK t \in Threads : Refers(t, a)
  BY ReferencesFinite
<1>1. a \in Arrays /\ rcArray[a].elems[i] \in Elements
  BY RcFields, ArrayRecordTypes
<1>2. \E b \in Arrays : Has(b, rcArray[a].elems[i])
  <2>1. ~rcArray[a].freed /\ \A u \in Threads : ~Emptying(u, a)
    BY <1>0, ReferredAlive
  <2>2. CASE rcArray[a].owned = 1..Len(rcArray[a].elems)
    BY <2>2, <1>1 DEF Has
  <2>3. CASE \E u \in Threads : rcThread[u].at = "copy" /\ rcHeld[u] = a
    <3>1. PICK u \in Threads : rcThread[u].at = "copy" /\ rcHeld[u] = a
      BY <2>3
    <3>2. rcArray[a].elems = rcArray[Old(u)].elems
      BY <3>1 DEF Owning, KeepsPace
    <3>3. Old(u) \in 1..rcArrays /\ Old(u) \in Arrays /\ Refers(u, Old(u))
      BY <3>1, RcFields DEF Refers, Old
    <3>4. ~rcArray[Old(u)].freed /\ \A v \in Threads : ~Emptying(v, Old(u))
      BY <3>3, ReferredAlive
    <3>5. \A v \in Threads : ~(rcThread[v].at = "copy" /\ rcHeld[v] = Old(u))
      <4> SUFFICES ASSUME NEW v \in Threads, rcThread[v].at = "copy", rcHeld[v] = Old(u)
                   PROVE  FALSE
        OBVIOUS
      <4>1. Writes(v) /\ rcHeld[u] # Old(u)
        BY <3>1 DEF Writes, Referring, WritersAlone
      <4>2. Sole(v, Old(u))
        BY <4>1, WriterHas
      <4>3. u = v
        BY <4>2, <3>3 DEF Sole
      <4> QED BY <4>1, <4>3
    <3>6. rcArray[Old(u)].owned = 1..Len(rcArray[Old(u)].elems)
      BY <3>3, <3>4, <3>5 DEF Owning, OwnsAll, Tends
    <3> QED BY <3>2, <3>3, <3>6 DEF Has
  <2> QED BY <2>1, <2>2, <2>3 DEF Owning, OwnsAll, Tends
<1>3. PICK e \in Elements : e = rcArray[a].elems[i]
  BY <1>1
<1>4. IsFiniteSet(Owners(e)) /\ Owners(e) # {}
  BY <1>2, <1>3, OwnersHave
<1>5. Cardinality(Owners(e)) \in Nat /\ Cardinality(Owners(e)) # 0
  BY <1>4, FS_CardinalityType, FS_EmptySet
<1> QED BY <1>3, <1>5 DEF OwnersCounted

THEOREM RcInvRefsCounted == RcInv => RefsCounted
<1> SUFFICES ASSUME RcInv PROVE RefsCounted
  OBVIOUS
<1>0. RcShapes /\ CountsRight /\ DyingOnce /\ FreedUnused /\ OwnersCounted
  BY DEF RcInv, Referring
<1> SUFFICES ASSUME NEW a \in 1..rcArrays
             PROVE  LET dying == {t \in Threads : RcAt(t, "release") /\ Old(t) = a}
                    IN  /\ rcArray[a].count = Cardinality(References(a))
                        /\ (rcArray[a].count = 0 /\ ~rcArray[a].freed) <=> dying # {}
                        /\ \A t, u \in dying : t = u
                        /\ rcArray[a].freed => rcArray[a].owned = {}
                        /\ References(a) # {} =>
                              \A i \in DOMAIN rcArray[a].elems :
                                 rcElement[rcArray[a].elems[i]] > 0
  BY <1>0 DEF RefsCounted, OwnersCounted
<1> DEFINE dying == {t \in Threads : RcAt(t, "release") /\ Old(t) = a}
<1>1. a \in Arrays /\ DOMAIN rcArray[a].elems = 1..Len(rcArray[a].elems)
  <2>1. a \in Arrays
    BY <1>0, RcAssumption DEF RcShapes, Arrays
  <2> QED BY <2>1, <1>0, ArrayRecordTypes, LenProperties
<1>2. \A t \in Threads : t \in dying <=> Emptying(t, a)
  BY DEF RcAt, Emptying
<1>3. (rcArray[a].count = 0 /\ ~rcArray[a].freed) <=> dying # {}
  BY <1>0, <1>2 DEF DyingOnce
<1>4. \A t, u \in dying : t = u
  BY <1>0, <1>2 DEF DyingOnce
<1>5. rcArray[a].count = Cardinality(References(a))
  BY <1>0 DEF CountsRight
<1>6. rcArray[a].freed => rcArray[a].owned = {}
  BY <1>0, <1>1 DEF FreedUnused
<1>7. References(a) # {} =>
         \A i \in DOMAIN rcArray[a].elems : rcElement[rcArray[a].elems[i]] > 0
  BY <1>1, HeldElementsCounted
<1> QED BY <1>3, <1>4, <1>5, <1>6, <1>7

\* Each count of an array is the number of its references, whoever drops the
\* last one releases its elements and frees it, once, and an array that is held
\* has no freed element: however its references are given, dropped and copied
\* on write (rc_obj.rs:418).
THEOREM ArraysAreCounted == RcInit /\ [][RcNext]_rcVars => []RefsCounted
<1>1. RcInit => RcInv
  BY InitRcInv
<1>2. RcInv /\ [RcNext]_rcVars => RcInv'
  BY RcInvKept
<1>3. RcInv => RefsCounted
  BY RcInvRefsCounted
<1> QED BY <1>1, <1>2, <1>3, PTL

-----------------------------------------------------------------------------
(* Databases.                                                                *)
\* Where a thread has a connection in its hands, where that has no transaction,
\* and where the thread is about a transaction with a handle.
Carrying == {"run", "pin", "tx open", "tx file", "tx finish", "tx undo", "tx drop"}
CarryingClean == {"run", "pin", "tx open", "tx drop"}
WithHandle == {"tx borrow", "tx open", "tx file", "tx end"}

DbPositions == {"idle", "borrow", "run", "pinned", "pin borrow", "pin", "tx borrow", "tx open",
              "tx file", "tx use", "tx run", "tx end", "tx finish", "tx undo", "tx drop",
              "close", "sweep"}

TxSets == SUBSET Txs

ThreadRecords == [at : DbPositions, conn : Connections \cup {None},
                  tx : 0..MaxTransactions, sweep : TxSets]

Shapes ==
    /\ dbIdle \subseteq Connections /\ dbPinned \in Connections \cup {None}
    /\ dbTable \subseteq Txs /\ dbTxs \in 0..MaxTransactions
    /\ dbSlot \in [Txs -> Connections \cup {None}]
    /\ dbThread \in [Threads -> ThreadRecords]
    /\ \A t \in Threads : dbThread[t].at \in WithHandle => Tx(t) \in Txs

\* A connection is idle, pinned, in one slot or in one thread's hands.
Separate ==
    /\ dbPinned \notin dbIdle
    /\ \A x \in Txs : dbSlot[x] # None => dbSlot[x] \notin dbIdle /\ dbSlot[x] # dbPinned
    /\ \A x, y \in Txs : dbSlot[x] = dbSlot[y] /\ dbSlot[x] # None => x = y
    /\ \A t \in Threads : Conn(t) # None =>
          /\ Conn(t) \notin dbIdle /\ Conn(t) # dbPinned
          /\ \A x \in Txs : dbSlot[x] # Conn(t)
    /\ \A t, u \in Threads : Conn(t) = Conn(u) /\ Conn(t) # None => t = u

\* What a thread has in its hands tells its position.
Hands ==
    \A t \in Threads :
        /\ dbThread[t].at \in Carrying <=> Conn(t) # None
        /\ dbThread[t].at \in CarryingClean => Conn(t) \notin dbOpen

\* What the steps keep.
DbInv == Shapes /\ Separate /\ Hands /\ IdleConnectionsClean

-----------------------------------------------------------------------------
\* A thread is somewhere else, and the others are where they were.
Becomes(t, at, conn, tx) ==
    /\ dbThread' \in [Threads -> ThreadRecords]
    /\ dbThread'[t].at = at /\ dbThread'[t].conn = conn /\ dbThread'[t].tx = tx
    /\ \A u \in Threads \ {t} : dbThread'[u] = dbThread[u]

LEMMA RecordBecomes ==
  ASSUME dbThread \in [Threads -> ThreadRecords], NEW t \in Threads,
         NEW r \in ThreadRecords, dbThread' = [dbThread EXCEPT ![t] = r]
  PROVE  Becomes(t, r.at, r.conn, r.tx)
  BY DEF Becomes

LEMMA TxNumbers ==
  /\ 0 \in 0..MaxTransactions /\ Txs \subseteq 0..MaxTransactions
  /\ \A i \in 0..MaxTransactions : i < MaxTransactions => i + 1 \in Txs
  <1>1. MaxTransactions \in Nat
    BY DbAssumption
  <1> QED
    BY <1>1 DEF Txs

LEMMA NoneIsNoConnection == None \notin Connections
  BY DbAssumption

LEMMA IdleRecord == DbIdle \in ThreadRecords
  <1>1. {} \in TxSets /\ None \in Connections \cup {None}
    BY DEF TxSets
  <1>2. "idle" \in DbPositions
    BY DEF DbPositions
  <1> QED
    BY <1>1, <1>2, TxNumbers DEF DbIdle, ThreadRecords

LEMMA ReturnsBecomes ==
  ASSUME Shapes, NEW t \in Threads, DbReturns(t)
  PROVE  Becomes(t, "idle", None, 0)
  <1>1. dbThread' = [dbThread EXCEPT ![t] = DbIdle]
    BY DEF DbReturns
  <1>2. DbIdle.at = "idle" /\ DbIdle.conn = None /\ DbIdle.tx = 0
    BY DEF DbIdle
  <1> QED
    BY <1>1, <1>2, IdleRecord, RecordBecomes DEF Shapes

\* Parts of a record that steps change.
LEMMA RecordAt ==
  ASSUME NEW r \in ThreadRecords, NEW p \in DbPositions
  PROVE  /\ [r EXCEPT !.at = p] \in ThreadRecords
         /\ [r EXCEPT !.at = p].at = p /\ [r EXCEPT !.at = p].conn = r.conn
         /\ [r EXCEPT !.at = p].tx = r.tx
  BY DEF ThreadRecords

LEMMA GoBecomes ==
  ASSUME Shapes, NEW t \in Threads, NEW p \in DbPositions, DbGo(t, p)
  PROVE  Becomes(t, p, Conn(t), Tx(t))
  <1>1. dbThread[t] \in ThreadRecords /\ dbThread \in [Threads -> ThreadRecords]
    BY DEF Shapes
  <1>2. dbThread' = [dbThread EXCEPT ![t] = [dbThread[t] EXCEPT !.at = p]]
    BY DEF DbGo
  <1>3. /\ [dbThread[t] EXCEPT !.at = p] \in ThreadRecords
        /\ [dbThread[t] EXCEPT !.at = p].at = p
        /\ [dbThread[t] EXCEPT !.at = p].conn = Conn(t)
        /\ [dbThread[t] EXCEPT !.at = p].tx = Tx(t)
    BY <1>1, RecordAt DEF Conn, Tx
  <1> QED
    BY <1>1, <1>2, <1>3, RecordBecomes

LEMMA GivenBecomes ==
  ASSUME Shapes, NEW t \in Threads, NEW p \in DbPositions, NEW c \in Connections,
         dbThread' = [dbThread EXCEPT ![t].conn = c, ![t].at = p]
  PROVE  Becomes(t, p, c, Tx(t))
  <1>1. dbThread[t] \in ThreadRecords /\ dbThread \in [Threads -> ThreadRecords]
    BY DEF Shapes
  <1>2. PICK q : /\ q = [dbThread[t] EXCEPT !.conn = c, !.at = p]
                 /\ dbThread' = [dbThread EXCEPT ![t] = q]
    BY <1>1
  <1>3. q \in ThreadRecords
    BY <1>1, <1>2 DEF ThreadRecords
  <1>4. q.at = p /\ q.conn = c /\ q.tx = dbThread[t].tx
    BY <1>1, <1>2 DEF ThreadRecords
  <1>5. Becomes(t, q.at, q.conn, q.tx)
    BY <1>1, <1>2, <1>3, RecordBecomes
  <1> QED
    BY <1>4, <1>5 DEF Conn, Tx

LEMMA BegunBecomes ==
  ASSUME Shapes, NEW t \in Threads, NEW p \in DbPositions, NEW x \in 0..MaxTransactions,
         dbThread' = [dbThread EXCEPT ![t].at = p, ![t].tx = x]
  PROVE  Becomes(t, p, Conn(t), x)
  <1>1. dbThread[t] \in ThreadRecords /\ dbThread \in [Threads -> ThreadRecords]
    BY DEF Shapes
  <1>2. PICK q : /\ q = [dbThread[t] EXCEPT !.at = p, !.tx = x]
                 /\ dbThread' = [dbThread EXCEPT ![t] = q]
    BY <1>1
  <1>3. q \in ThreadRecords
    BY <1>1, <1>2 DEF ThreadRecords
  <1>4. q.at = p /\ q.conn = dbThread[t].conn /\ q.tx = x
    BY <1>1, <1>2 DEF ThreadRecords
  <1>5. Becomes(t, q.at, q.conn, q.tx)
    BY <1>1, <1>2, <1>3, RecordBecomes
  <1> QED
    BY <1>4, <1>5 DEF Conn, Tx

LEMMA SweepBecomes ==
  ASSUME Shapes, NEW t \in Threads, NEW p \in DbPositions, NEW s \in TxSets,
         dbThread' = [dbThread EXCEPT ![t].at = p, ![t].sweep = s]
  PROVE  Becomes(t, p, Conn(t), Tx(t))
  <1>1. dbThread[t] \in ThreadRecords /\ dbThread \in [Threads -> ThreadRecords]
    BY DEF Shapes
  <1>2. PICK q : /\ q = [dbThread[t] EXCEPT !.at = p, !.sweep = s]
                 /\ dbThread' = [dbThread EXCEPT ![t] = q]
    BY <1>1
  <1>3. q \in ThreadRecords
    BY <1>1, <1>2 DEF ThreadRecords
  <1>4. q.at = p /\ q.conn = dbThread[t].conn /\ q.tx = dbThread[t].tx
    BY <1>1, <1>2 DEF ThreadRecords
  <1>5. Becomes(t, q.at, q.conn, q.tx)
    BY <1>1, <1>2, <1>3, RecordBecomes
  <1> QED
    BY <1>4, <1>5 DEF Conn, Tx

LEMMA SweptBecomes ==
  ASSUME Shapes, NEW t \in Threads, NEW s \in TxSets,
         dbThread' = [dbThread EXCEPT ![t].sweep = s]
  PROVE  Becomes(t, dbThread[t].at, Conn(t), Tx(t))
  <1>1. dbThread[t] \in ThreadRecords /\ dbThread \in [Threads -> ThreadRecords]
    BY DEF Shapes
  <1>2. PICK q : /\ q = [dbThread[t] EXCEPT !.sweep = s]
                 /\ dbThread' = [dbThread EXCEPT ![t] = q]
    BY <1>1
  <1>3. q \in ThreadRecords /\ q.at = dbThread[t].at
    BY <1>1, <1>2 DEF ThreadRecords
  <1>4. q.conn = dbThread[t].conn /\ q.tx = dbThread[t].tx
    BY <1>1, <1>2 DEF ThreadRecords
  <1>5. Becomes(t, q.at, q.conn, q.tx)
    BY <1>1, <1>2, <1>3, RecordBecomes
  <1> QED
    BY <1>3, <1>4, <1>5 DEF Conn, Tx

-----------------------------------------------------------------------------
(* What a step may do with connections, whoever's step it is.                *)

LEMMA OthersKept ==
  ASSUME NEW t \in Threads, NEW at, NEW conn, NEW tx, Becomes(t, at, conn, tx)
  PROVE  /\ \A u \in Threads : u # t => /\ Conn(u)' = Conn(u) /\ Tx(u)' = Tx(u)
                                        /\ dbThread'[u].at = dbThread[u].at
         /\ Conn(t)' = conn /\ Tx(t)' = tx
  BY DEF Becomes, Conn, Tx

LEMMA ShapesKept ==
  ASSUME Shapes, NEW t \in Threads, NEW at, NEW conn, NEW tx, Becomes(t, at, conn, tx),
         at \in WithHandle => tx \in Txs,
         dbIdle' \subseteq Connections, dbPinned' \in Connections \cup {None},
         dbTable' \subseteq Txs, dbTxs' \in 0..MaxTransactions,
         dbSlot' \in [Txs -> Connections \cup {None}]
  PROVE  Shapes'
  <1>1. dbThread' \in [Threads -> ThreadRecords]
    BY DEF Becomes
  <1>2. \A u \in Threads : dbThread'[u].at \in WithHandle => Tx(u)' \in Txs
    BY OthersKept DEF Shapes, Becomes
  <1> QED
    BY <1>1, <1>2 DEF Shapes

\* Connections stay where they are.
LEMMA Stays ==
  ASSUME DbInv, NEW t \in Threads, NEW at, NEW tx, Becomes(t, at, Conn(t), tx),
         at \in Carrying <=> dbThread[t].at \in Carrying,
         at \in CarryingClean => Conn(t) \notin dbOpen',
         at \in WithHandle => tx \in Txs,
         dbIdle' = dbIdle, dbPinned' = dbPinned, dbSlot' = dbSlot,
         dbTable' \subseteq Txs, dbTxs' \in 0..MaxTransactions,
         \A c \in dbOpen' : c \in dbOpen \/ c = Conn(t)
  PROVE  DbInv'
  <1> USE DEF DbInv
  <1>1. \A u \in Threads : Conn(u)' = Conn(u)
    BY OthersKept
  <1>2. Shapes'
    BY ShapesKept DEF Shapes
  <1>3. Separate'
    BY <1>1 DEF Separate
  <1>4. Hands'
    <2>1. SUFFICES ASSUME NEW u \in Threads
                   PROVE  /\ dbThread'[u].at \in Carrying <=> Conn(u)' # None
                          /\ dbThread'[u].at \in CarryingClean => Conn(u)' \notin dbOpen'
      BY DEF Hands
    <2>2. CASE u = t
      BY <2>2, <1>1 DEF Hands, Becomes
    <2>3. CASE u # t
      <3>1. dbThread'[u].at = dbThread[u].at
        BY <2>3, OthersKept
      <3>2. Conn(u) # None => Conn(u) # Conn(t)
        BY <2>3 DEF Separate
      <3>3. dbThread[u].at \in CarryingClean => Conn(u) # None
        BY DEF Hands, Carrying, CarryingClean
      <3> QED
        BY <1>1, <3>1, <3>2, <3>3 DEF Hands
    <2> QED
      BY <2>2, <2>3
  <1>5. IdleConnectionsClean'
    <2>1. Conn(t) \notin dbIdle
      BY NoneIsNoConnection DEF Separate, Shapes
    <2> QED
      BY <2>1 DEF IdleConnectionsClean
  <1> QED
    BY <1>2, <1>3, <1>4, <1>5

\* A thread gives its connection back, without a transaction.
LEMMA GivesBack ==
  ASSUME DbInv, NEW t \in Threads, Becomes(t, "idle", None, 0),
         Conn(t) # None, Conn(t) \notin dbOpen', dbIdle' = dbIdle \cup {Conn(t)},
         dbPinned' = dbPinned, dbSlot' = dbSlot, dbTable' = dbTable, dbTxs' = dbTxs,
         dbOpen' \subseteq dbOpen
  PROVE  DbInv'
  <1> USE DEF DbInv
  <1>1. \A u \in Threads : Conn(u)' = IF u = t THEN None ELSE Conn(u)
    BY OthersKept
  <1>2. Conn(t) \in Connections
    BY DEF Shapes, ThreadRecords, Conn
  <1>3. Shapes'
    BY <1>2, ShapesKept DEF Shapes, WithHandle
  <1>4. Separate'
    BY <1>1 DEF Separate
  <1>5. Hands'
    <2>1. \A u \in Threads \ {t} : dbThread'[u].at = dbThread[u].at
      BY OthersKept
    <2>2. dbThread'[t].at = "idle" /\ "idle" \notin Carrying /\ "idle" \notin CarryingClean
      BY DEF Becomes, Carrying, CarryingClean
    <2> QED
      BY <1>1, <2>1, <2>2 DEF Hands
  <1>6. IdleConnectionsClean'
    BY DEF IdleConnectionsClean
  <1> QED
    BY <1>3, <1>4, <1>5, <1>6

\* A thread is given an idle connection.
LEMMA IsGiven ==
  ASSUME DbInv, NEW t \in Threads, NEW next \in CarryingClean, Borrow(t, next),
         next \in WithHandle => Tx(t) \in Txs,
         UNCHANGED <<dbOpen, dbPinned, dbTable, dbSlot, dbTxs>>
  PROVE  DbInv'
  <1> USE DEF DbInv
  <1>1. PICK c \in dbIdle :
          /\ dbIdle' = dbIdle \ {c}
          /\ dbThread' = [dbThread EXCEPT ![t].conn = c, ![t].at = next]
    BY DEF Borrow
  <1>2. c \in Connections /\ c # None /\ next \in DbPositions
    BY NoneIsNoConnection DEF Shapes, CarryingClean, DbPositions
  <1>3. Becomes(t, next, c, Tx(t))
    BY <1>1, <1>2, GivenBecomes
  <1>4. \A u \in Threads : Conn(u)' = IF u = t THEN c ELSE Conn(u)
    BY <1>3, OthersKept
  <1>5. Shapes'
    BY <1>1, <1>3, ShapesKept DEF Shapes
  <1>6. c # dbPinned /\ (\A x \in Txs : dbSlot[x] # c) /\ (\A u \in Threads : Conn(u) # c)
    BY <1>1, <1>2 DEF Separate
  <1>7. Separate'
    BY <1>1, <1>4, <1>6 DEF Separate
  <1>8. Hands'
    <2>1. \A u \in Threads \ {t} : dbThread'[u].at = dbThread[u].at
      BY <1>3, OthersKept
    <2>2. dbThread'[t].at = next /\ next \in Carrying
      BY <1>3 DEF Becomes, Carrying, CarryingClean
    <2>3. c \notin dbOpen'
      BY <1>1 DEF IdleConnectionsClean
    <2> QED
      BY <1>2, <1>4, <2>1, <2>2, <2>3 DEF Hands
  <1>9. IdleConnectionsClean'
    BY <1>1 DEF IdleConnectionsClean
  <1> QED
    BY <1>5, <1>7, <1>8, <1>9

\* A thread's call returns, without a connection in its hands.
LEMMA ReturnsEmpty ==
  ASSUME DbInv, NEW t \in Threads, DbReturns(t), dbThread[t].at \notin Carrying,
         UNCHANGED <<dbIdle, dbOpen, dbPinned, dbTable, dbSlot, dbTxs>>
  PROVE  DbInv'
  <1>1. Becomes(t, "idle", None, 0) /\ Conn(t) = None
    BY ReturnsBecomes DEF DbInv, Hands
  <1>2. "idle" \notin Carrying /\ "idle" \notin CarryingClean /\ "idle" \notin WithHandle
    BY DEF Carrying, CarryingClean, WithHandle
  <1> QED
    BY <1>1, <1>2, Stays DEF DbInv, Shapes

\* A thread goes on, with what it has in its hands.
LEMMA GoesOn ==
  ASSUME DbInv, NEW t \in Threads, NEW p \in DbPositions, DbGo(t, p),
         p \in Carrying <=> dbThread[t].at \in Carrying,
         p \in CarryingClean => Conn(t) \notin dbOpen',
         p \in WithHandle => dbThread[t].at \in WithHandle,
         UNCHANGED <<dbIdle, dbPinned, dbTable, dbSlot, dbTxs>>,
         \A c \in dbOpen' : c \in dbOpen \/ c = Conn(t)
  PROVE  DbInv'
  <1>1. Becomes(t, p, Conn(t), Tx(t))
    BY GoBecomes DEF DbInv
  <1>2. p \in WithHandle => Tx(t) \in Txs
    BY DEF DbInv, Shapes
  <1> QED
    BY <1>1, <1>2, Stays DEF DbInv, Shapes

-----------------------------------------------------------------------------
(* The steps.                                                                *)

LEMMA DbInitial == DbInit => DbInv
  <1> SUFFICES ASSUME DbInit PROVE DbInv
    OBVIOUS
  <1> USE NoneIsNoConnection
  <1>1. \A t \in Threads : /\ dbThread[t] = DbIdle /\ Conn(t) = None
                           /\ dbThread[t].at = "idle"
    BY DEF DbInit, DbIdle, Conn
  <1>2. Shapes
    BY <1>1, IdleRecord, TxNumbers DEF DbInit, Shapes, WithHandle
  <1>3. Separate
    BY <1>1 DEF DbInit, Separate
  <1>4. Hands
    BY <1>1 DEF Hands, Carrying, CarryingClean
  <1>5. IdleConnectionsClean
    BY DEF DbInit, IdleConnectionsClean
  <1> QED
    BY <1>2, <1>3, <1>4, <1>5 DEF DbInv

\* Where nothing moves, a transaction less is no harm.
LEMMA LessOpen ==
  ASSUME DbInv, dbOpen' \subseteq dbOpen, dbThread' = dbThread,
         UNCHANGED <<dbIdle, dbPinned, dbTable, dbSlot, dbTxs>>
  PROVE  DbInv'
  <1> USE DEF DbInv
  <1>1. \A t \in Threads : Conn(t)' = Conn(t) /\ Tx(t)' = Tx(t)
    BY DEF Conn, Tx
  <1>2. Shapes'
    BY <1>1 DEF Shapes
  <1>3. Separate'
    BY <1>1 DEF Separate
  <1>4. Hands' /\ IdleConnectionsClean'
    BY <1>1 DEF Hands, IdleConnectionsClean
  <1> QED
    BY <1>2, <1>3, <1>4

LEMMA BreaksKeeps ==
  ASSUME DbInv, DbBreaks
  PROVE  DbInv'
  <1>1. dbOpen' \subseteq dbOpen
    BY DEF DbBreaks
  <1> QED
    BY <1>1, LessOpen DEF DbBreaks, dbOwners

LEMMA StatementKeeps ==
  ASSUME DbInv, NEW t \in Threads, DbStatement(t)
  PROVE  DbInv'
  <1>1. CASE DbGo(t, "borrow")
    BY <1>1, GoesOn DEF DbStatement, DbAt, dbOwners, Carrying, CarryingClean, WithHandle, DbPositions
  <1>2. CASE DbGo(t, "pinned")
    BY <1>2, GoesOn DEF DbStatement, DbAt, dbOwners, Carrying, CarryingClean, WithHandle, DbPositions
  <1> QED
    BY <1>1, <1>2 DEF DbStatement

LEMMA PinnedStatementKeeps ==
  ASSUME DbInv, NEW t \in Threads, DbPinnedStatement(t)
  PROVE  DbInv'
  BY ReturnsEmpty DEF DbPinnedStatement, DbAt, dbOwners, Carrying

LEMMA BorrowKeeps ==
  ASSUME DbInv, NEW t \in Threads, DbBorrow(t)
  PROVE  DbInv'
  <1>1. dbThread[t].at \in WithHandle \/ "run" \notin WithHandle
    BY DEF DbBorrow, DbAt, WithHandle
  <1> QED
    BY <1>1, IsGiven DEF DbBorrow, dbOwners, CarryingClean, DbInv, Shapes

LEMMA RunKeeps ==
  ASSUME DbInv, NEW t \in Threads, DbRun(t)
  PROVE  DbInv'
  <1>1. Becomes(t, "idle", None, 0) /\ Conn(t) # None /\ Conn(t) \notin dbOpen
    BY ReturnsBecomes DEF DbRun, DbAt, DbInv, Hands, Carrying, CarryingClean
  <1> QED
    BY <1>1, GivesBack DEF DbRun, DropsConnection, dbOwners

LEMMA TimesOutKeeps ==
  ASSUME DbInv, NEW t \in Threads, DbTimesOut(t)
  PROVE  DbInv'
  BY ReturnsEmpty DEF DbTimesOut, DbAt, dbOwners, Carrying

LEMMA PinBeginKeeps ==
  ASSUME DbInv, NEW t \in Threads, DbPinBegin(t)
  PROVE  DbInv'
  <1>1. dbThread[t].at = "idle" /\ DbGo(t, "pin borrow")
    BY DEF DbPinBegin, DbAt
  <1> QED
    BY <1>1, GoesOn DEF DbPinBegin, dbOwners, Carrying, CarryingClean, WithHandle, DbPositions

LEMMA PinBorrowKeeps ==
  ASSUME DbInv, NEW t \in Threads, DbPinBorrow(t)
  PROVE  DbInv'
  <1>1. dbThread[t].at \in WithHandle \/ "pin" \notin WithHandle
    BY DEF DbPinBorrow, DbAt, WithHandle
  <1> QED
    BY <1>1, IsGiven DEF DbPinBorrow, dbOwners, CarryingClean, DbInv, Shapes

LEMMA TxBorrowKeeps ==
  ASSUME DbInv, NEW t \in Threads, DbTxBorrow(t)
  PROVE  DbInv'
  <1>1. dbThread[t].at \in WithHandle \/ "tx open" \notin WithHandle
    BY DEF DbTxBorrow, DbAt, WithHandle
  <1> QED
    BY <1>1, IsGiven DEF DbTxBorrow, dbOwners, CarryingClean, DbInv, Shapes

LEMMA TxDropKeeps ==
  ASSUME DbInv, NEW t \in Threads, DbTxDrop(t)
  PROVE  DbInv'
  <1>1. Becomes(t, "idle", None, 0) /\ Conn(t) # None /\ Conn(t) \notin dbOpen
    BY ReturnsBecomes DEF DbTxDrop, DbAt, DbInv, Hands, Carrying, CarryingClean
  <1> QED
    BY <1>1, GivesBack DEF DbTxDrop, DropsConnection, dbOwners

LEMMA TxRunKeeps ==
  ASSUME DbInv, NEW t \in Threads, DbTxRun(t)
  PROVE  DbInv'
  BY ReturnsEmpty DEF DbTxRun, DbAt, dbOwners, Carrying

LEMMA TxUseKeeps ==
  ASSUME DbInv, NEW t \in Threads, DbTxUse(t)
  PROVE  DbInv'
  <1>1. CASE DbReturns(t)
    BY <1>1, ReturnsEmpty DEF DbTxUse, DbAt, dbOwners, Carrying
  <1>2. CASE DbGo(t, "tx run")
    BY <1>2, GoesOn DEF DbTxUse, DbAt, dbOwners, Carrying, CarryingClean, WithHandle, DbPositions
  <1> QED
    BY <1>1, <1>2 DEF DbTxUse

LEMMA TxFinishKeeps ==
  ASSUME DbInv, NEW t \in Threads, DbTxFinish(t)
  PROVE  DbInv'
  <1>1. CASE dbOpen' = dbOpen \ {Conn(t)} /\ DbGo(t, "tx drop")
    BY <1>1, GoesOn DEF DbTxFinish, DbAt, dbOwners, Carrying, CarryingClean, WithHandle, DbPositions
  <1>2. CASE UNCHANGED dbOpen /\ DbGo(t, "tx undo")
    BY <1>2, GoesOn DEF DbTxFinish, DbAt, dbOwners, Carrying, CarryingClean, WithHandle, DbPositions
  <1> QED
    BY <1>1, <1>2 DEF DbTxFinish

LEMMA TxUndoKeeps ==
  ASSUME DbInv, NEW t \in Threads, DbTxUndo(t)
  PROVE  DbInv'
  <1>1. dbThread[t].at = "tx undo" /\ DbGo(t, "tx drop")
    BY DEF DbTxUndo, DbAt
  <1> QED
    BY <1>1, GoesOn DEF DbTxUndo, dbOwners, Carrying, CarryingClean, WithHandle, DbPositions

LEMMA PinKeeps ==
  ASSUME DbInv, NEW t \in Threads, DbPin(t)
  PROVE  DbInv'
  <1> USE DEF DbInv
  <1>1. Becomes(t, "idle", None, 0)
    BY ReturnsBecomes DEF DbPin
  <1>2. Conn(t) # None /\ Conn(t) \notin dbOpen
    BY DEF DbPin, DbAt, Hands, Carrying, CarryingClean
  <1>3. CASE DropsConnection(t) /\ UNCHANGED <<dbOpen, dbPinned>>
    BY <1>1, <1>2, <1>3, GivesBack DEF DbPin, DropsConnection
  <1>4. CASE /\ dbOpen' = dbOpen \cup {Conn(t)} /\ dbPinned' = Conn(t)
             /\ UNCHANGED dbIdle
    <2>1. \A u \in Threads : Conn(u)' = IF u = t THEN None ELSE Conn(u)
      BY <1>1, OthersKept
    <2>2. Conn(t) \in Connections
      BY <1>2 DEF Shapes, ThreadRecords, Conn
    <2>3. Shapes'
      BY <1>1, <1>4, <2>2, ShapesKept DEF DbPin, Shapes, WithHandle
    <2>4. Separate'
      BY <1>2, <1>4, <2>1 DEF DbPin, Separate
    <2>5. Hands'
      <3>1. \A u \in Threads \ {t} : dbThread'[u].at = dbThread[u].at
        BY <1>1, OthersKept
      <3>2. dbThread'[t].at = "idle" /\ "idle" \notin Carrying /\ "idle" \notin CarryingClean
        BY <1>1 DEF Becomes, Carrying, CarryingClean
      <3>3. \A u \in Threads \ {t} : Conn(u) # Conn(t)
        BY <1>2 DEF Separate
      <3> QED
        BY <1>4, <2>1, <3>1, <3>2, <3>3 DEF Hands
    <2>6. IdleConnectionsClean'
      BY <1>2, <1>4 DEF IdleConnectionsClean, Separate
    <2> QED
      BY <2>3, <2>4, <2>5, <2>6
  <1> QED
    BY <1>3, <1>4 DEF DbPin

\* The pinned connection goes back, its transaction ended.
LEMMA PinnedGoesBack ==
  ASSUME DbInv, NEW t \in Threads, NEW p \in DbPositions, Becomes(t, p, Conn(t), Tx(t)),
         p \in Carrying <=> dbThread[t].at \in Carrying,
         p \in CarryingClean => dbThread[t].at \in CarryingClean,
         p \in WithHandle => dbThread[t].at \in WithHandle,
         dbPinned # None, dbPinned' = None,
         dbIdle' = dbIdle \cup {dbPinned}, dbOpen' = dbOpen \ {dbPinned},
         UNCHANGED <<dbTable, dbSlot, dbTxs>>
  PROVE  DbInv'
  <1> USE DEF DbInv
  <1>1. \A u \in Threads : Conn(u)' = Conn(u)
    BY OthersKept
  <1>2. Shapes'
    BY ShapesKept DEF Shapes
  <1>3. Separate'
    <2>1. None \notin dbIdle'
      BY NoneIsNoConnection DEF Shapes
    <2>2. \A x \in Txs : dbSlot[x] # None => dbSlot[x] \notin dbIdle'
      BY DEF Separate
    <2>3. \A u \in Threads : Conn(u) # None =>
             Conn(u) \notin dbIdle' /\ \A x \in Txs : dbSlot[x] # Conn(u)
      BY DEF Separate
    <2>4. dbSlot' = dbSlot
      OBVIOUS
    <2>5. \A u, v \in Threads : Conn(u) = Conn(v) /\ Conn(u) # None => u = v
      BY DEF Separate
    <2>6. \A x, y \in Txs : dbSlot[x] = dbSlot[y] /\ dbSlot[x] # None => x = y
      BY DEF Separate
    <2> QED
      BY <1>1, <2>1, <2>2, <2>3, <2>4, <2>5, <2>6 DEF Separate
  <1>4. Hands'
    <2>1. \A u \in Threads \ {t} : dbThread'[u].at = dbThread[u].at
      BY OthersKept
    <2>2. dbThread'[t].at = p
      BY DEF Becomes
    <2> QED
      BY <1>1, <2>1, <2>2 DEF Hands
  <1>5. IdleConnectionsClean'
    BY DEF IdleConnectionsClean
  <1> QED
    BY <1>2, <1>3, <1>4, <1>5

LEMMA UnpinKeeps ==
  ASSUME DbInv, NEW t \in Threads, DbUnpin(t)
  PROVE  DbInv'
  <1>1. dbThread' = dbThread /\ dbThread[t].at = "idle" /\ "idle" \in DbPositions
    BY DEF DbUnpin, DbAt, DbPositions
  <1>2. Becomes(t, "idle", Conn(t), Tx(t))
    BY <1>1 DEF Becomes, DbInv, Shapes, Conn, Tx
  <1> QED
    BY <1>1, <1>2, PinnedGoesBack DEF DbUnpin

LEMMA CloseKeeps ==
  ASSUME DbInv, NEW t \in Threads, DbClose(t)
  PROVE  DbInv'
  <1>1. dbThread[t].at = "idle" /\ DbGo(t, "close") /\ "close" \in DbPositions
    BY DEF DbClose, DbAt, DbPositions
  <1>2. Becomes(t, "close", Conn(t), Tx(t))
    BY <1>1, GoBecomes DEF DbInv
  <1>3. CASE dbPinned = None
    BY <1>1, <1>3, GoesOn DEF DbClose, Carrying, CarryingClean, WithHandle
  <1>4. CASE dbPinned # None
    BY <1>1, <1>2, <1>4, PinnedGoesBack DEF DbClose, Carrying, CarryingClean, WithHandle
  <1> QED
    BY <1>3, <1>4

LEMMA TxBeginKeeps ==
  ASSUME DbInv, NEW t \in Threads, DbTxBegin(t)
  PROVE  DbInv'
  <1>1. dbTxs + 1 \in Txs /\ dbTxs + 1 \in 0..MaxTransactions
    BY TxNumbers DEF DbTxBegin, DbInv, Shapes
  <1>2. dbThread[t].at = "idle" /\ "tx borrow" \in DbPositions
    BY DEF DbTxBegin, DbAt, DbPositions
  <1>3. Becomes(t, "tx borrow", Conn(t), dbTxs + 1)
    BY <1>1, <1>2, BegunBecomes DEF DbTxBegin, DbInv
  <1> QED
    BY <1>1, <1>2, <1>3, Stays DEF DbTxBegin, DbInv, Shapes, Carrying, CarryingClean

LEMMA TxFindKeeps ==
  ASSUME DbInv, NEW t \in Threads, DbTxFind(t)
  PROVE  DbInv'
  <1>1. PICK x \in dbTable :
          \/ /\ dbThread' = [dbThread EXCEPT ![t].at = "tx use", ![t].tx = x]
             /\ UNCHANGED dbTable
          \/ /\ dbThread' = [dbThread EXCEPT ![t].at = "tx end", ![t].tx = x]
             /\ dbTable' = dbTable \ {x}
    BY DEF DbTxFind
  <1>2. x \in Txs /\ x \in 0..MaxTransactions /\ dbTable' \subseteq Txs
    BY <1>1, TxNumbers DEF DbInv, Shapes
  <1>3. dbThread[t].at = "idle" /\ "tx use" \in DbPositions /\ "tx end" \in DbPositions
    BY DEF DbTxFind, DbAt, DbPositions
  <1>4. Becomes(t, "tx use", Conn(t), x) \/ Becomes(t, "tx end", Conn(t), x)
    BY <1>1, <1>2, <1>3, BegunBecomes DEF DbInv
  <1> QED
    BY <1>2, <1>3, <1>4, Stays DEF DbTxFind, DbInv, Shapes, Carrying, CarryingClean

LEMMA CloseTableKeeps ==
  ASSUME DbInv, NEW t \in Threads, DbCloseTable(t)
  PROVE  DbInv'
  <1>1. dbThread[t].at = "close" /\ "sweep" \in DbPositions /\ dbTable \in TxSets
    BY DEF DbCloseTable, DbAt, DbPositions, DbInv, Shapes, TxSets
  <1>2. Becomes(t, "sweep", Conn(t), Tx(t))
    BY <1>1, SweepBecomes DEF DbCloseTable, DbInv
  <1> QED
    BY <1>1, <1>2, Stays DEF DbCloseTable, DbInv, Shapes, Carrying, CarryingClean, WithHandle

LEMMA TxOpenKeeps ==
  ASSUME DbInv, NEW t \in Threads, DbTxOpen(t)
  PROVE  DbInv'
  <1>1. Conn(t) # None /\ Conn(t) \notin dbOpen /\ dbThread[t].at = "tx open"
    BY DEF DbTxOpen, DbAt, DbInv, Hands, Carrying, CarryingClean
  <1>2. CASE dbOpen' = dbOpen \cup {Conn(t)} /\ DbGo(t, "tx file") /\ UNCHANGED dbIdle
    BY <1>1, <1>2, GoesOn DEF DbTxOpen, dbOwners, Carrying, CarryingClean, WithHandle, DbPositions
  <1>3. CASE DropsConnection(t) /\ DbReturns(t) /\ UNCHANGED dbOpen
    <2>1. Becomes(t, "idle", None, 0)
      BY <1>3, ReturnsBecomes DEF DbInv
    <2> QED
      BY <1>1, <1>3, <2>1, GivesBack DEF DbTxOpen, DropsConnection, dbOwners
  <1> QED
    BY <1>2, <1>3 DEF DbTxOpen

\* One slot becomes something else.
LEMMA SlotBecomes ==
  ASSUME dbSlot \in [Txs -> Connections \cup {None}], NEW x \in Txs,
         NEW c \in Connections \cup {None}, dbSlot' = [dbSlot EXCEPT ![x] = c]
  PROVE  /\ dbSlot' \in [Txs -> Connections \cup {None}]
         /\ dbSlot'[x] = c /\ \A y \in Txs \ {x} : dbSlot'[y] = dbSlot[y]
  OBVIOUS

LEMMA TxFileKeeps ==
  ASSUME DbInv, NEW t \in Threads, DbTxFile(t)
  PROVE  DbInv'
  <1> USE DEF DbInv
  <1>1. Becomes(t, "idle", None, 0)
    BY ReturnsBecomes DEF DbTxFile
  <1>2. Conn(t) # None /\ dbThread[t].at = "tx file" /\ Tx(t) \in Txs
    BY DEF DbTxFile, DbAt, Hands, Carrying, Shapes, WithHandle
  <1>3. Conn(t) \in Connections
    BY <1>2 DEF Shapes, ThreadRecords, Conn
  <1>4. /\ dbSlot' \in [Txs -> Connections \cup {None}]
        /\ dbSlot'[Tx(t)] = Conn(t) /\ \A y \in Txs \ {Tx(t)} : dbSlot'[y] = dbSlot[y]
    BY <1>2, <1>3, SlotBecomes DEF DbTxFile, Shapes
  <1>5. \A u \in Threads : Conn(u)' = IF u = t THEN None ELSE Conn(u)
    BY <1>1, OthersKept
  <1>6. dbIdle' = dbIdle /\ dbOpen' = dbOpen /\ dbPinned' = dbPinned /\ dbTxs' = dbTxs
    BY DEF DbTxFile
  <1>7. Shapes'
    <2>1. dbTable' \subseteq Txs
      BY <1>2 DEF DbTxFile, Shapes
    <2> QED
      BY <1>1, <1>4, <1>6, <2>1, ShapesKept DEF Shapes, WithHandle
  <1>8. Separate'
    <2>1. \A x \in Txs : dbSlot'[x] # None => dbSlot'[x] \notin dbIdle /\ dbSlot'[x] # dbPinned
      BY <1>2, <1>4 DEF Separate
    <2>2. \A x, y \in Txs : dbSlot'[x] = dbSlot'[y] /\ dbSlot'[x] # None => x = y
      BY <1>2, <1>4 DEF Separate
    <2>3. \A u \in Threads \ {t} : Conn(u) # None =>
             \A x \in Txs : dbSlot'[x] # Conn(u)
      BY <1>2, <1>4 DEF Separate
    <2>4. \A u \in Threads : Conn(u) # None => Conn(u) \notin dbIdle /\ Conn(u) # dbPinned
      BY DEF Separate
    <2>5. \A u, v \in Threads : Conn(u) = Conn(v) /\ Conn(u) # None => u = v
      BY DEF Separate
    <2>6. dbPinned \notin dbIdle
      BY DEF Separate
    <2> QED
      BY <1>5, <1>6, <2>1, <2>2, <2>3, <2>4, <2>5, <2>6 DEF Separate
  <1>9. Hands'
    <2>1. \A u \in Threads \ {t} : dbThread'[u].at = dbThread[u].at
      BY <1>1, OthersKept
    <2>2. dbThread'[t].at = "idle" /\ "idle" \notin Carrying /\ "idle" \notin CarryingClean
      BY <1>1 DEF Becomes, Carrying, CarryingClean
    <2> QED
      BY <1>5, <1>6, <2>1, <2>2 DEF Hands
  <1> QED
    BY <1>6, <1>7, <1>8, <1>9 DEF IdleConnectionsClean

LEMMA TxTakeKeeps ==
  ASSUME DbInv, NEW t \in Threads, DbTxTake(t)
  PROVE  DbInv'
  <1> USE DEF DbInv
  <1>1. dbThread[t].at = "tx end" /\ Tx(t) \in Txs /\ Conn(t) = None
    BY DEF DbTxTake, DbAt, Shapes, WithHandle, Hands, Carrying
  <1>2. CASE dbSlot[Tx(t)] = None
    BY <1>1, <1>2, ReturnsEmpty DEF DbTxTake, Carrying
  <1>3. CASE dbSlot[Tx(t)] # None
    <2> DEFINE c == dbSlot[Tx(t)]
    <2>1. c \in Connections
      BY <1>1, <1>3 DEF Shapes
    <2>2. dbThread' = [dbThread EXCEPT ![t].at = "tx finish", ![t].conn = c]
      BY <1>3 DEF DbTxTake
    <2>3. dbThread' = [dbThread EXCEPT ![t].conn = c, ![t].at = "tx finish"]
      BY <2>2 DEF Shapes
    <2>4. Becomes(t, "tx finish", c, Tx(t))
      <3>1. "tx finish" \in DbPositions
        BY DEF DbPositions
      <3> HIDE DEF c
      <3> QED
        BY <2>1, <2>3, <3>1, GivenBecomes
    <2>5. /\ dbSlot' \in [Txs -> Connections \cup {None}]
          /\ dbSlot'[Tx(t)] = None /\ \A y \in Txs \ {Tx(t)} : dbSlot'[y] = dbSlot[y]
      BY <1>1, <1>3, SlotBecomes DEF DbTxTake, Shapes
    <2>6. \A u \in Threads : Conn(u)' = IF u = t THEN c ELSE Conn(u)
      BY <2>4, OthersKept
    <2>7. /\ dbIdle' = dbIdle /\ dbOpen' = dbOpen /\ dbPinned' = dbPinned
          /\ dbTxs' = dbTxs /\ dbTable' = dbTable
      BY DEF DbTxTake
    <2>8. Shapes'
      BY <1>1, <2>4, <2>5, <2>7, ShapesKept DEF Shapes
    <2>9. Separate'
      <3>1. \A x \in Txs : dbSlot'[x] # None => /\ dbSlot'[x] = dbSlot[x] /\ x # Tx(t)
                                               /\ dbSlot'[x] # c
        BY <1>1, <1>3, <2>5 DEF Separate
      <3>2. c \notin dbIdle /\ c # dbPinned /\ \A u \in Threads : Conn(u) # c
        BY <1>1, <1>3 DEF Separate
      <3>3. \A u \in Threads : Conn(u) # None =>
               /\ Conn(u) \notin dbIdle /\ Conn(u) # dbPinned
               /\ \A x \in Txs : dbSlot[x] # Conn(u)
        BY DEF Separate
      <3>4. \A u, v \in Threads : Conn(u) = Conn(v) /\ Conn(u) # None => u = v
        BY DEF Separate
      <3>5. \A x, y \in Txs : dbSlot[x] = dbSlot[y] /\ dbSlot[x] # None => x = y
        BY DEF Separate
      <3>6. \A x \in Txs : dbSlot[x] # None => dbSlot[x] \notin dbIdle /\ dbSlot[x] # dbPinned
        BY DEF Separate
      <3>7. dbPinned \notin dbIdle /\ c # None
        BY <1>3 DEF Separate
      <3> HIDE DEF c
      <3>8. \A u \in Threads : Conn(u)' # None =>
               /\ Conn(u)' \notin dbIdle' /\ Conn(u)' # dbPinned'
               /\ \A x \in Txs : dbSlot'[x] # Conn(u)'
        BY <2>6, <2>7, <3>1, <3>2, <3>3, <3>7
      <3>9. \A u, v \in Threads : Conn(u)' = Conn(v)' /\ Conn(u)' # None => u = v
        BY <2>6, <3>2, <3>4
      <3>10. /\ \A x \in Txs : dbSlot'[x] # None => dbSlot'[x] \notin dbIdle' /\ dbSlot'[x] # dbPinned'
             /\ \A x, y \in Txs : dbSlot'[x] = dbSlot'[y] /\ dbSlot'[x] # None => x = y
        BY <2>7, <3>1, <3>5, <3>6
      <3> QED
        BY <2>7, <3>7, <3>8, <3>9, <3>10 DEF Separate
    <2>10. Hands'
      <3>1. \A u \in Threads \ {t} : dbThread'[u].at = dbThread[u].at
        BY <2>4, OthersKept
      <3>2. /\ dbThread'[t].at = "tx finish" /\ "tx finish" \in Carrying
            /\ "tx finish" \notin CarryingClean
        BY <2>4 DEF Becomes, Carrying, CarryingClean
      <3> QED
        BY <1>3, <2>6, <2>7, <3>1, <3>2 DEF Hands
    <2> QED
      BY <2>7, <2>8, <2>9, <2>10 DEF IdleConnectionsClean
  <1> QED
    BY <1>2, <1>3

LEMMA SweepKeeps ==
  ASSUME DbInv, NEW t \in Threads, DbSweep(t)
  PROVE  DbInv'
  <1> USE DEF DbInv
  <1>1. dbThread[t].at = "sweep" /\ "sweep" \in DbPositions
    BY DEF DbSweep, DbAt, DbPositions
  <1>2. CASE dbThread[t].sweep = {} /\ DbReturns(t) /\ UNCHANGED <<dbOpen, dbIdle, dbSlot>>
    BY <1>1, <1>2, ReturnsEmpty DEF DbSweep, Carrying
  <1>3. ASSUME NEW x \in dbThread[t].sweep,
               dbThread' = [dbThread EXCEPT ![t].sweep = @ \ {x}],
               IF dbSlot[x] = None THEN UNCHANGED <<dbOpen, dbIdle>>
               ELSE dbOpen' = dbOpen \ {dbSlot[x]} /\ dbIdle' = dbIdle \cup {dbSlot[x]},
               dbSlot' = [dbSlot EXCEPT ![x] = None]
        PROVE  DbInv'
    <2>1. dbThread[t].sweep \in TxSets
      BY DEF Shapes, ThreadRecords
    <2>2. x \in Txs /\ dbThread[t].sweep \ {x} \in TxSets
      BY <1>3, <2>1 DEF TxSets
    <2>3. dbThread' = [dbThread EXCEPT ![t].sweep = dbThread[t].sweep \ {x}]
      BY <1>3
    <2>4. Becomes(t, "sweep", Conn(t), Tx(t))
      <3> DEFINE s == dbThread[t].sweep \ {x}
      <3>1. dbThread' = [dbThread EXCEPT ![t].sweep = s] /\ s \in TxSets
        BY <2>2, <2>3
      <3> HIDE DEF s
      <3> QED
        BY <1>1, <3>1, SweptBecomes
    <2>5. /\ dbSlot' \in [Txs -> Connections \cup {None}]
          /\ dbSlot'[x] = None /\ \A y \in Txs \ {x} : dbSlot'[y] = dbSlot[y]
      BY <1>3, <2>2, SlotBecomes DEF Shapes
    <2>6. \A u \in Threads : Conn(u)' = Conn(u)
      BY <2>4, OthersKept
    <2>7. dbPinned' = dbPinned /\ dbTxs' = dbTxs /\ dbTable' = dbTable
      BY DEF DbSweep
    <2>8. /\ \A c : c \in dbIdle' => c \in dbIdle \/ (c = dbSlot[x] /\ c # None)
          /\ \A c : c \in dbOpen' => c \in dbOpen /\ (dbSlot[x] = None \/ c # dbSlot[x])
      <3>1. CASE dbSlot[x] = None
        BY <1>3, <3>1
      <3>2. CASE dbSlot[x] # None
        BY <1>3, <3>2
      <3> QED
        BY <3>1, <3>2
    <2>9. Shapes'
      <3>1. dbIdle' \subseteq Connections
        BY <2>2, <2>8 DEF Shapes
      <3> QED
        BY <1>1, <2>4, <2>5, <2>7, <3>1, ShapesKept DEF Shapes, WithHandle
    <2>10. Separate'
      <3>1. dbPinned \notin dbIdle'
        BY <2>2, <2>8 DEF Separate
      <3>2. \A y \in Txs : dbSlot'[y] # None => dbSlot'[y] \notin dbIdle' /\ dbSlot'[y] # dbPinned
        BY <2>2, <2>5, <2>8 DEF Separate
      <3>3. \A y, z \in Txs : dbSlot'[y] = dbSlot'[z] /\ dbSlot'[y] # None => y = z
        BY <2>2, <2>5 DEF Separate
      <3>4. \A u \in Threads : Conn(u) # None =>
               /\ Conn(u) \notin dbIdle' /\ Conn(u) # dbPinned
               /\ \A y \in Txs : dbSlot'[y] # Conn(u)
        BY <2>2, <2>5, <2>8 DEF Separate
      <3>5. \A u, v \in Threads : Conn(u) = Conn(v) /\ Conn(u) # None => u = v
        BY DEF Separate
      <3> QED
        BY <2>6, <2>7, <3>1, <3>2, <3>3, <3>4, <3>5 DEF Separate
    <2>11. Hands'
      <3>1. \A u \in Threads : dbThread'[u].at = dbThread[u].at
        BY <1>1, <2>4, OthersKept DEF Becomes
      <3> QED
        BY <2>6, <2>8, <3>1 DEF Hands
    <2>12. IdleConnectionsClean'
      BY <2>8 DEF IdleConnectionsClean
    <2> QED
      BY <2>9, <2>10, <2>11, <2>12
  <1> QED
    BY <1>2, <1>3 DEF DbSweep

-----------------------------------------------------------------------------
DbSpec == DbInit /\ [][DbNext]_dbVars

LEMMA DbStep == DbInv /\ [DbNext]_dbVars => DbInv'
  <1> SUFFICES ASSUME DbInv, [DbNext]_dbVars PROVE DbInv'
    OBVIOUS
  <1>1. CASE UNCHANGED dbVars
    BY <1>1, LessOpen DEF dbVars
  <1>2. CASE DbBreaks
    BY <1>2, BreaksKeeps
  <1>3. ASSUME NEW t \in Threads,
               \/ DbStatement(t) \/ DbPinnedStatement(t) \/ DbBorrow(t) \/ DbRun(t)
               \/ DbTimesOut(t) \/ DbPinBegin(t) \/ DbPinBorrow(t) \/ DbPin(t)
               \/ DbUnpin(t) \/ DbClose(t) \/ DbCloseTable(t) \/ DbSweep(t)
        PROVE  DbInv'
    BY <1>3, StatementKeeps, PinnedStatementKeeps, BorrowKeeps, RunKeeps, TimesOutKeeps,
       PinBeginKeeps, PinBorrowKeeps, PinKeeps, UnpinKeeps, CloseKeeps, CloseTableKeeps,
       SweepKeeps
  <1>4. ASSUME NEW t \in Threads,
               \/ DbTxBegin(t) \/ DbTxBorrow(t) \/ DbTxOpen(t) \/ DbTxFile(t)
               \/ DbTxFind(t) \/ DbTxUse(t) \/ DbTxRun(t) \/ DbTxTake(t)
               \/ DbTxFinish(t) \/ DbTxUndo(t) \/ DbTxDrop(t)
        PROVE  DbInv'
    BY <1>4, TxBeginKeeps, TxBorrowKeeps, TxOpenKeeps, TxFileKeeps, TxFindKeeps,
       TxUseKeeps, TxRunKeeps, TxTakeKeeps, TxFinishKeeps, TxUndoKeeps, TxDropKeeps
  <1> QED
    BY <1>1, <1>2, <1>3, <1>4 DEF DbNext

\* However statements, transactions of both kinds, failures, broken connections
\* and closes meet, a connection that r2d2 may lend has no transaction open
\* (回滚并归还 at 连接池.rs:335, and the order of its callers).
THEOREM IdleAlwaysClean == DbSpec => []IdleConnectionsClean
  <1>1. DbInv => IdleConnectionsClean
    BY DEF DbInv
  <1> QED
    BY <1>1, DbInitial, DbStep, PTL DEF DbSpec

-----------------------------------------------------------------------------
(* Where the connections of a pool are.                                      *)
\* The pinned connection's mutex, and who pins one where none is pinned.
PinLocked == {"pinned", "pin borrow", "pin"}
PinEmpty == {"pin borrow", "pin"}
Pinning ==
    \A t \in Threads :
        /\ dbThread[t].at \in PinLocked => dbPinLock = t
        /\ dbThread[t].at \in PinEmpty => dbPinned = None

\* Who opens a transaction has its number alone, and the slot is empty.
Opening == {"tx borrow", "tx open", "tx file"}
Numbers ==
    /\ \A x \in Txs : x > dbTxs => dbSlot[x] = None
    /\ \A t \in Threads : dbThread[t].at \in Opening => Tx(t) <= dbTxs /\ dbSlot[Tx(t)] = None
    /\ \A t, u \in Threads :
          dbThread[t].at \in Opening /\ dbThread[u].at \in Opening /\ Tx(t) = Tx(u) => t = u

\* No connection is lost.
Placed(c) ==
    \/ c \in dbIdle \/ dbPinned = c \/ (\E x \in Txs : dbSlot[x] = c)
    \/ \E t \in Threads : Conn(t) = c

DbKeptInv == DbInv /\ Pinning /\ Numbers /\ \A c \in Connections : Placed(c)

\* Nobody else is where the mutex has to be held, if t holds it or nobody does.
LEMMA PinningKept ==
    ASSUME Pinning, NEW t \in Threads, NEW at, NEW conn, NEW tx, Becomes(t, at, conn, tx),
           at \in PinLocked => dbPinLock' = t, at \in PinEmpty => dbPinned' = None,
           \/ dbPinLock' = dbPinLock /\ dbPinned' = dbPinned
           \/ dbPinLock \in {t, None}
    PROVE  Pinning'
<1>1. dbThread'[t].at = at /\ \A u \in Threads : u # t => dbThread'[u].at = dbThread[u].at
  BY OthersKept DEF Becomes
<1>2. PinEmpty \subseteq PinLocked
  BY DEF PinEmpty, PinLocked
<1>3. \A u \in Threads : u # t /\ dbThread[u].at \in PinLocked =>
          dbPinLock' = dbPinLock /\ dbPinned' = dbPinned
  BY ThreadsAssumption DEF Pinning
<1> QED
  BY <1>1, <1>2, <1>3 DEF Pinning

LEMMA NumbersKept ==
    ASSUME Numbers, NEW t \in Threads, NEW at, NEW conn, NEW tx, Becomes(t, at, conn, tx),
           at \in Opening => dbThread[t].at \in Opening /\ tx = Tx(t),
           \A x \in Txs : dbSlot'[x] = dbSlot[x] \/ dbSlot'[x] = None, dbTxs' = dbTxs, Shapes
    PROVE  Numbers'
<1>1. /\ dbThread'[t].at = at /\ Tx(t)' = tx
      /\ \A u \in Threads : u # t => dbThread'[u].at = dbThread[u].at /\ Tx(u)' = Tx(u)
  BY OthersKept DEF Becomes
<1>2. \A u \in Threads : dbThread'[u].at \in Opening => dbThread[u].at \in Opening /\ Tx(u)' = Tx(u)
  BY <1>1
<1>3. \A u \in Threads : dbThread[u].at \in Opening => Tx(u) \in Txs
  BY DEF Shapes, Opening, WithHandle
<1> QED
  BY <1>2, <1>3 DEF Numbers

LEMMA PlacedKept ==
    ASSUME \A c \in Connections : Placed(c),
           NEW t \in Threads, NEW at, NEW conn, NEW tx, Becomes(t, at, conn, tx),
           \A c \in dbIdle : c \in dbIdle' \/ c = conn,
           dbPinned \in dbIdle' \cup {dbPinned', None},
           \A x \in Txs : dbSlot[x] \in dbIdle' \cup {dbSlot'[x], conn, None},
           \/ Conn(t) \in dbIdle' \cup {dbPinned', conn, None}
           \/ \E x \in Txs : dbSlot'[x] = Conn(t)
    PROVE  \A c \in Connections : Placed(c)'
<1>1. Conn(t)' = conn /\ \A u \in Threads : u # t => Conn(u)' = Conn(u)
  BY OthersKept
<1> SUFFICES ASSUME NEW c \in Connections PROVE Placed(c)'
  OBVIOUS
<1>2. c # None
  BY NoneIsNoConnection
<1>3. conn = c => Placed(c)'
  BY <1>1 DEF Placed
<1>4. CASE c \in dbIdle
  BY <1>3, <1>4 DEF Placed
<1>5. CASE dbPinned = c
  BY <1>2, <1>5 DEF Placed
<1>6. CASE \E x \in Txs : dbSlot[x] = c
  BY <1>2, <1>3, <1>6 DEF Placed
<1>7. CASE \E u \in Threads : Conn(u) = c
  BY <1>1, <1>2, <1>3, <1>7 DEF Placed
<1> QED
  BY <1>4, <1>5, <1>6, <1>7 DEF Placed

\* What remains to be shown of a step.
KeptParts == Pinning /\ Numbers /\ \A c \in Connections : Placed(c)

LEMMA DbKeptInit == DbInit => KeptParts
<1> SUFFICES ASSUME DbInit PROVE KeptParts
  OBVIOUS
<1>1. \A t \in Threads : dbThread[t].at = "idle"
  BY DEF DbInit, DbIdle
<1>2. Pinning
  BY <1>1 DEF Pinning, PinLocked, PinEmpty
<1>3. Numbers
  BY <1>1 DEF Numbers, Opening, DbInit
<1>4. \A c \in Connections : Placed(c)
  BY DEF DbInit, Placed
<1> QED
  BY <1>2, <1>3, <1>4 DEF KeptParts

\* Steps that leave every connection where it is, and the pin's mutex alone.
LEMMA StaysKept ==
    ASSUME DbInv, KeptParts, NEW t \in Threads, NEW at, NEW tx, Becomes(t, at, Conn(t), tx),
           at \notin PinLocked \/ (dbThread[t].at = at),
           at \in Opening => dbThread[t].at \in Opening /\ tx = Tx(t),
           UNCHANGED <<dbIdle, dbPinned, dbSlot, dbTxs, dbPinLock>>
    PROVE  KeptParts'
<1>1. Pinning'
  <2>1. PinEmpty \subseteq PinLocked
    BY DEF PinEmpty, PinLocked
  <2>2. at \in PinLocked => dbPinLock' = t
    BY DEF KeptParts, Pinning
  <2>3. at \in PinEmpty => dbPinned' = None
    BY <2>1 DEF KeptParts, Pinning
  <2> QED
    BY <2>2, <2>3, PinningKept DEF KeptParts
<1>2. Numbers'
  BY NumbersKept DEF KeptParts, DbInv
<1>3. \A c \in Connections : Placed(c)'
  BY PlacedKept DEF KeptParts
<1> QED
  BY <1>1, <1>2, <1>3 DEF KeptParts

\* Who returns with nothing in its hands.
LEMMA ReturnsKept ==
    ASSUME DbInv, KeptParts, NEW t \in Threads, DbReturns(t), dbThread[t].at \notin Carrying,
           dbPinLock' = dbPinLock \/ dbPinLock \in {t, None},
           UNCHANGED <<dbIdle, dbPinned, dbSlot, dbTxs>>
    PROVE  KeptParts'
<1>1. Becomes(t, "idle", None, 0) /\ Conn(t) = None
  BY ReturnsBecomes DEF DbInv, Hands
<1>2. "idle" \notin PinLocked /\ "idle" \notin PinEmpty /\ "idle" \notin Opening
  BY DEF PinLocked, PinEmpty, Opening
<1>3. Pinning'
  BY <1>1, <1>2, PinningKept DEF KeptParts
<1>4. Numbers'
  BY <1>1, <1>2, NumbersKept DEF KeptParts, DbInv
<1>5. \A c \in Connections : Placed(c)'
  BY <1>1, PlacedKept DEF KeptParts
<1> QED
  BY <1>3, <1>4, <1>5 DEF KeptParts

\* Who returns after it has given a connection back, or pinned it.
LEMMA GivesKept ==
    ASSUME DbInv, KeptParts, NEW t \in Threads, DbReturns(t),
           \/ dbIdle' = dbIdle \cup {Conn(t)} /\ dbPinned' = dbPinned
           \/ dbPinned = None /\ dbPinned' = Conn(t) /\ dbIdle' = dbIdle,
           (dbPinLock' = dbPinLock /\ dbPinned' = dbPinned) \/ dbPinLock \in {t, None},
           UNCHANGED <<dbSlot, dbTxs>>
    PROVE  KeptParts'
<1>1. Becomes(t, "idle", None, 0)
  BY ReturnsBecomes DEF DbInv
<1>2. "idle" \notin PinLocked /\ "idle" \notin PinEmpty /\ "idle" \notin Opening
  BY DEF PinLocked, PinEmpty, Opening
<1>3. Pinning'
  BY <1>1, <1>2, PinningKept DEF KeptParts
<1>4. Numbers'
  BY <1>1, <1>2, NumbersKept DEF KeptParts, DbInv
<1>5. \A c \in Connections : Placed(c)'
  BY <1>1, PlacedKept DEF KeptParts
<1> QED
  BY <1>3, <1>4, <1>5 DEF KeptParts

\* Who is lent a connection.
LEMMA LentKept ==
    ASSUME DbInv, KeptParts, NEW t \in Threads, NEW next \in DbPositions, Borrow(t, next),
           dbThread[t].at \notin Carrying,
           next \in PinLocked => dbThread[t].at \in PinEmpty,
           next \in Opening => dbThread[t].at \in Opening,
           UNCHANGED <<dbPinned, dbSlot, dbTxs, dbPinLock>>
    PROVE  KeptParts'
<1>1. PICK c \in dbIdle :
          /\ dbIdle' = dbIdle \ {c}
          /\ dbThread' = [dbThread EXCEPT ![t].conn = c, ![t].at = next]
  BY DEF Borrow
<1>2. c \in Connections /\ Conn(t) = None
  BY DEF DbInv, Shapes, Hands
<1>3. Becomes(t, next, c, Tx(t))
  BY <1>1, <1>2, GivenBecomes DEF DbInv
<1>4. Pinning'
  <2>1. PinEmpty \subseteq PinLocked
    BY DEF PinEmpty, PinLocked
  <2>2. next \in PinLocked => dbPinLock' = t
    BY <2>1 DEF KeptParts, Pinning
  <2>3. next \in PinEmpty => dbPinned' = None
    BY <2>1 DEF KeptParts, Pinning
  <2> QED
    BY <1>3, <2>2, <2>3, PinningKept DEF KeptParts
<1>5. Numbers'
  BY <1>3, NumbersKept DEF KeptParts, DbInv
<1>6. \A d \in Connections : Placed(d)'
  BY <1>1, <1>2, <1>3, PlacedKept DEF KeptParts
<1> QED
  BY <1>4, <1>5, <1>6 DEF KeptParts

-----------------------------------------------------------------------------
LEMMA StatementsKept ==
    ASSUME DbInv, KeptParts, NEW t \in Threads,
           \/ DbStatement(t) \/ DbPinnedStatement(t) \/ DbBorrow(t) \/ DbRun(t) \/ DbTimesOut(t)
    PROVE  KeptParts'
<1>1. CASE DbStatement(t)
  <2>1. CASE dbPinned = None /\ DbGo(t, "borrow") /\ UNCHANGED dbPinLock
    <3>1. Becomes(t, "borrow", Conn(t), Tx(t)) /\ "borrow" \notin PinLocked /\ "borrow" \notin Opening
      BY <2>1, GoBecomes DEF DbInv, DbPositions, PinLocked, Opening
    <3> QED
      BY <1>1, <2>1, <3>1, StaysKept DEF DbStatement, dbOwners
  <2>2. CASE dbPinned # None /\ dbPinLock' = t /\ DbGo(t, "pinned")
    <3>1. Becomes(t, "pinned", Conn(t), Tx(t)) /\ "pinned" \notin PinEmpty /\ "pinned" \notin Opening
      BY <2>2, GoBecomes DEF DbInv, DbPositions, PinEmpty, Opening
    <3>2. UNCHANGED <<dbIdle, dbPinned, dbSlot, dbTxs>> /\ dbPinLock = None
      BY <1>1 DEF DbStatement, dbOwners
    <3>3. Pinning'
      BY <2>2, <3>1, <3>2, PinningKept DEF KeptParts
    <3>4. Numbers'
      BY <3>1, <3>2, NumbersKept DEF KeptParts, DbInv
    <3>5. \A c \in Connections : Placed(c)'
      BY <3>1, <3>2, PlacedKept DEF KeptParts
    <3> QED
      BY <3>3, <3>4, <3>5 DEF KeptParts
  <2> QED
    BY <1>1, <2>1, <2>2 DEF DbStatement
<1>2. CASE DbPinnedStatement(t)
  <2>1. dbPinLock = t
    BY <1>2 DEF DbPinnedStatement, DbAt, KeptParts, Pinning, PinLocked
  <2> QED
    BY <1>2, <2>1, ReturnsKept DEF DbPinnedStatement, DbAt, dbOwners, Carrying
<1>3. CASE DbBorrow(t)
  BY <1>3, LentKept DEF DbBorrow, DbAt, dbOwners, dbLocks, Carrying, DbPositions, PinLocked, Opening
<1>4. CASE DbRun(t)
  BY <1>4, GivesKept DEF DbRun, DropsConnection, dbOwners, dbLocks
<1>5. CASE DbTimesOut(t)
  <2>1. dbPinLock' = dbPinLock \/ dbPinLock = t
    BY <1>5 DEF DbTimesOut, DbAt, KeptParts, Pinning, PinLocked
  <2>2. dbThread[t].at \notin Carrying /\ DbReturns(t) /\ UNCHANGED <<dbIdle, dbPinned, dbSlot, dbTxs>>
    BY <1>5 DEF DbTimesOut, DbAt, dbOwners, Carrying
  <2> QED
    BY <2>1, <2>2, ReturnsKept
<1> QED
  BY <1>1, <1>2, <1>3, <1>4, <1>5

LEMMA PinsKept ==
    ASSUME DbInv, KeptParts, NEW t \in Threads,
           DbPinBegin(t) \/ DbPinBorrow(t) \/ DbPin(t) \/ DbUnpin(t)
    PROVE  KeptParts'
<1>1. CASE DbPinBegin(t)
  <2>1. DbGo(t, "pin borrow") /\ dbPinned = None /\ dbPinLock = None /\ dbPinLock' = t
        /\ UNCHANGED <<dbIdle, dbPinned, dbSlot, dbTxs>>
    BY <1>1 DEF DbPinBegin, dbOwners
  <2>2. Becomes(t, "pin borrow", Conn(t), Tx(t)) /\ "pin borrow" \notin Opening
    BY <2>1, GoBecomes DEF DbInv, DbPositions, Opening
  <2>3. Pinning'
    BY <2>1, <2>2, PinningKept DEF KeptParts
  <2>4. Numbers'
    BY <2>1, <2>2, NumbersKept DEF KeptParts, DbInv
  <2>5. \A c \in Connections : Placed(c)'
    BY <2>1, <2>2, PlacedKept DEF KeptParts
  <2> QED
    BY <2>3, <2>4, <2>5 DEF KeptParts
<1>2. CASE DbPinBorrow(t)
  BY <1>2, LentKept
  DEF DbPinBorrow, DbAt, dbOwners, dbLocks, Carrying, DbPositions, PinEmpty, Opening
<1>3. CASE DbPin(t)
  <2>1. dbPinLock = t /\ dbPinned = None
    BY <1>3 DEF DbPin, DbAt, KeptParts, Pinning, PinLocked, PinEmpty
  <2> QED
    BY <1>3, <2>1, GivesKept DEF DbPin, DropsConnection
<1>4. CASE DbUnpin(t)
  <2>1. /\ dbThread' = dbThread /\ dbPinLock = None /\ dbIdle' = dbIdle \cup {dbPinned}
        /\ dbPinned' = None /\ UNCHANGED <<dbSlot, dbTxs, dbPinLock>>
        /\ dbThread[t].at = "idle"
    BY <1>4 DEF DbUnpin, dbLocks, DbAt
  <2>2. Becomes(t, "idle", Conn(t), Tx(t))
    BY <2>1 DEF Becomes, DbInv, Shapes, Conn, Tx
  <2>3. "idle" \notin PinLocked /\ "idle" \notin PinEmpty /\ "idle" \notin Opening
    BY DEF PinLocked, PinEmpty, Opening
  <2>4. Pinning'
    BY <2>1, <2>2, <2>3, PinningKept DEF KeptParts
  <2>5. Numbers'
    BY <2>1, <2>2, <2>3, NumbersKept DEF KeptParts, DbInv
  <2>6. \A c \in Connections : Placed(c)'
    BY <2>1, <2>2, PlacedKept DEF KeptParts
  <2> QED
    BY <2>4, <2>5, <2>6 DEF KeptParts
<1> QED
  BY <1>1, <1>2, <1>3, <1>4

LEMMA TxOrder ==
    /\ \A n \in 0..MaxTransactions : n + 1 > n /\ n + 1 <= n + 1
    /\ \A n \in 0..MaxTransactions : \A x \in Txs :
          /\ x \in Nat /\ (x > n + 1 => x > n)
          /\ x <= n => x <= n + 1 /\ x # n + 1 /\ ~(x > n)
  <1>1. MaxTransactions \in Nat
    BY DbAssumption
  <1> QED
    BY <1>1 DEF Txs

LEMMA TxBeginKept ==
    ASSUME DbInv, KeptParts, NEW t \in Threads, DbTxBegin(t)
    PROVE  KeptParts'
<1>1. /\ dbThread' = [dbThread EXCEPT ![t].at = "tx borrow", ![t].tx = dbTxs + 1]
      /\ dbTxs' = dbTxs + 1 /\ UNCHANGED <<dbIdle, dbPinned, dbSlot, dbPinLock>>
      /\ dbTxs \in 0..MaxTransactions
  BY DEF DbTxBegin, dbLocks, DbInv, Shapes
<1>2. dbTxs + 1 \in Txs /\ dbTxs + 1 \in 0..MaxTransactions
  BY TxNumbers DEF DbTxBegin, DbInv, Shapes
<1>3. Becomes(t, "tx borrow", Conn(t), dbTxs + 1)
  BY <1>1, <1>2, BegunBecomes DEF DbInv, DbPositions
<1>4. "tx borrow" \notin PinLocked /\ "tx borrow" \notin PinEmpty
  BY DEF PinLocked, PinEmpty
<1>5. Pinning'
  BY <1>1, <1>3, <1>4, PinningKept DEF KeptParts
<1> DEFINE next == dbTxs + 1
<1>6. /\ dbThread'[t].at = "tx borrow" /\ Tx(t)' = next
      /\ \A u \in Threads : u # t => dbThread'[u].at = dbThread[u].at /\ Tx(u)' = Tx(u)
  BY <1>3 DEF Becomes, Tx
<1>7. Numbers'
  <2>1. \A x \in Txs : x > dbTxs' => x > dbTxs
    BY <1>1, TxOrder
  <2>2. \A u \in Threads : dbThread[u].at \in Opening => Tx(u) \in Txs
    BY DEF DbInv, Shapes, Opening, WithHandle
  <2>3. \A x \in Txs : x <= dbTxs => x <= dbTxs' /\ x # dbTxs + 1
    BY <1>1, TxOrder
  <2>4. dbSlot[dbTxs + 1] = None /\ dbTxs + 1 <= dbTxs'
    <3>1. dbTxs + 1 > dbTxs /\ dbTxs + 1 <= dbTxs'
      BY <1>1, TxOrder
    <3> QED
      BY <1>2, <3>1 DEF KeptParts, Numbers
  <2>5. ASSUME NEW u \in Threads, dbThread'[u].at \in Opening
        PROVE  /\ Tx(u)' <= dbTxs' /\ dbSlot[Tx(u)'] = None
               /\ u # t => dbThread[u].at \in Opening /\ Tx(u)' = Tx(u) /\ Tx(u)' # dbTxs + 1
    BY <1>6, <2>2, <2>3, <2>4, <2>5 DEF KeptParts, Numbers
  <2>6. ASSUME NEW u \in Threads, NEW v \in Threads, dbThread'[u].at \in Opening,
               dbThread'[v].at \in Opening, Tx(u)' = Tx(v)'
        PROVE  u = v
    BY <1>6, <2>5, <2>6 DEF KeptParts, Numbers
  <2>7. \A x \in Txs : x > dbTxs' => dbSlot'[x] = None
    BY <1>1, <2>1 DEF KeptParts, Numbers
  <2>8. \A u \in Threads : dbThread'[u].at \in Opening => Tx(u)' <= dbTxs' /\ dbSlot'[Tx(u)'] = None
    BY <1>1, <2>5
  <2> QED
    BY <2>6, <2>7, <2>8 DEF Numbers
<1>8. \A c \in Connections : Placed(c)'
  BY <1>1, <1>3, PlacedKept DEF KeptParts
<1> QED
  BY <1>5, <1>7, <1>8 DEF KeptParts

LEMMA TxFileKept ==
    ASSUME DbInv, KeptParts, NEW t \in Threads, DbTxFile(t)
    PROVE  KeptParts'
<1>1. /\ dbThread[t].at = "tx file" /\ dbThread[t].at \in Opening /\ Tx(t) \in Txs
      /\ UNCHANGED <<dbIdle, dbPinned, dbTxs, dbPinLock>>
      /\ dbSlot' = [dbSlot EXCEPT ![Tx(t)] = Conn(t)]
  BY DEF DbTxFile, DbAt, Opening, DbInv, Shapes, WithHandle, dbLocks
<1>2. /\ dbSlot[Tx(t)] = None /\ Tx(t) <= dbTxs
      /\ \A u \in Threads : u # t /\ dbThread[u].at \in Opening => Tx(u) # Tx(t)
  BY <1>1 DEF KeptParts, Numbers
<1>3. dbSlot'[Tx(t)] = Conn(t) /\ \A x \in Txs : x # Tx(t) => dbSlot'[x] = dbSlot[x]
  BY <1>1 DEF DbInv, Shapes
<1>4. Becomes(t, "idle", None, 0)
  BY ReturnsBecomes DEF DbTxFile, DbInv
<1>5. "idle" \notin PinLocked /\ "idle" \notin PinEmpty /\ "idle" \notin Opening
  BY DEF PinLocked, PinEmpty, Opening
<1>6. Pinning'
  BY <1>1, <1>4, <1>5, PinningKept DEF KeptParts
<1>7. Numbers'
  <2>1. \A u \in Threads : dbThread'[u].at \in Opening =>
            u # t /\ dbThread[u].at \in Opening /\ Tx(u)' = Tx(u)
    BY <1>4, <1>5, OthersKept DEF Becomes
  <2>2. \A u \in Threads : dbThread[u].at \in Opening => Tx(u) \in Txs
    BY DEF DbInv, Shapes, Opening, WithHandle
  <2>3. \A x \in Txs : x > dbTxs => x # Tx(t)
    <3>1. dbTxs \in 0..MaxTransactions
      BY DEF DbInv, Shapes
    <3> QED
      BY <1>1, <1>2, <3>1, TxOrder
  <2>4. \A x \in Txs : x > dbTxs' => dbSlot'[x] = None
    BY <1>1, <1>3, <2>3 DEF KeptParts, Numbers
  <2>5. ASSUME NEW u \in Threads, dbThread'[u].at \in Opening
        PROVE  /\ Tx(u)' <= dbTxs' /\ dbSlot'[Tx(u)'] = None
               /\ dbThread[u].at \in Opening /\ Tx(u)' = Tx(u)
    <3>1. u # t /\ dbThread[u].at \in Opening /\ Tx(u)' = Tx(u) /\ Tx(u) \in Txs
      BY <2>1, <2>2, <2>5
    <3>2. Tx(u) # Tx(t) /\ Tx(u) <= dbTxs /\ dbSlot[Tx(u)] = None
      BY <1>2, <3>1 DEF KeptParts, Numbers
    <3> QED
      BY <1>1, <1>3, <3>1, <3>2
  <2>6. \A u, v \in Threads : dbThread'[u].at \in Opening /\ dbThread'[v].at \in Opening
                                 /\ Tx(u)' = Tx(v)' => u = v
    BY <2>5 DEF KeptParts, Numbers
  <2> QED
    BY <2>4, <2>5, <2>6 DEF Numbers
<1>8. \A c \in Connections : Placed(c)'
  <2>1. \A x \in Txs : dbSlot[x] \in {dbSlot'[x], None}
    BY <1>2, <1>3
  <2> QED
    BY <1>1, <1>3, <1>4, <2>1, PlacedKept DEF KeptParts
<1> QED
  BY <1>6, <1>7, <1>8 DEF KeptParts

LEMMA TxsKept ==
    ASSUME DbInv, KeptParts, NEW t \in Threads,
           \/ DbTxBorrow(t) \/ DbTxOpen(t) \/ DbTxFind(t) \/ DbTxUse(t) \/ DbTxRun(t)
           \/ DbTxFinish(t) \/ DbTxUndo(t) \/ DbTxDrop(t)
    PROVE  KeptParts'
<1>1. CASE DbTxBorrow(t)
  BY <1>1, LentKept
  DEF DbTxBorrow, DbAt, dbOwners, dbLocks, Carrying, DbPositions, PinLocked, Opening
<1>2. CASE DbTxOpen(t)
  <2>1. CASE DbGo(t, "tx file") /\ UNCHANGED dbIdle
    <3>1. /\ Becomes(t, "tx file", Conn(t), Tx(t)) /\ "tx file" \notin PinLocked
          /\ dbThread[t].at \in Opening
      BY <1>2, <2>1, GoBecomes DEF DbTxOpen, DbAt, DbInv, DbPositions, PinLocked, Opening
    <3> QED
      BY <1>2, <2>1, <3>1, StaysKept DEF DbTxOpen, dbOwners, dbLocks
  <2>2. CASE DropsConnection(t) /\ DbReturns(t)
    BY <1>2, <2>2, GivesKept DEF DbTxOpen, DropsConnection, dbOwners, dbLocks
  <2> QED
    BY <1>2, <2>1, <2>2 DEF DbTxOpen
<1>3. CASE DbTxFind(t)
  <2>1. PICK x \in dbTable, p \in {"tx use", "tx end"} :
            dbThread' = [dbThread EXCEPT ![t].at = p, ![t].tx = x]
    BY <1>3 DEF DbTxFind
  <2>2. x \in 0..MaxTransactions /\ p \in DbPositions /\ p \notin PinLocked /\ p \notin Opening
    BY <2>1, TxNumbers DEF DbInv, Shapes, DbPositions, PinLocked, Opening
  <2>3. Becomes(t, p, Conn(t), x)
    BY <2>1, <2>2, BegunBecomes DEF DbInv
  <2> QED
    BY <1>3, <2>2, <2>3, StaysKept DEF DbTxFind, dbLocks
<1>4. CASE DbTxUse(t)
  <2>1. CASE DbReturns(t)
    BY <1>4, <2>1, ReturnsKept DEF DbTxUse, DbAt, dbOwners, Carrying
  <2>2. CASE DbGo(t, "tx run")
    <3>1. /\ Becomes(t, "tx run", Conn(t), Tx(t)) /\ "tx run" \notin PinLocked
          /\ "tx run" \notin Opening
      BY <2>2, GoBecomes DEF DbInv, DbPositions, PinLocked, Opening
    <3> QED
      BY <1>4, <3>1, StaysKept DEF DbTxUse, dbOwners
  <2> QED
    BY <1>4, <2>1, <2>2 DEF DbTxUse
<1>5. CASE DbTxRun(t)
  BY <1>5, ReturnsKept DEF DbTxRun, DbAt, dbOwners, Carrying
<1>6. CASE DbTxFinish(t) \/ DbTxUndo(t)
  <2>1. PICK p \in {"tx drop", "tx undo"} : DbGo(t, p)
    BY <1>6 DEF DbTxFinish, DbTxUndo
  <2>2. Becomes(t, p, Conn(t), Tx(t)) /\ p \notin PinLocked /\ p \notin Opening
    BY <2>1, GoBecomes DEF DbInv, DbPositions, PinLocked, Opening
  <2> QED
    BY <1>6, <2>2, StaysKept DEF DbTxFinish, DbTxUndo, dbOwners, dbLocks
<1>7. CASE DbTxDrop(t)
  BY <1>7, GivesKept DEF DbTxDrop, DropsConnection, dbOwners
<1> QED
  BY <1>1, <1>2, <1>3, <1>4, <1>5, <1>6, <1>7

LEMMA TxTakeKept ==
    ASSUME DbInv, KeptParts, NEW t \in Threads, DbTxTake(t)
    PROVE  KeptParts'
<1>1. dbThread[t].at = "tx end" /\ Tx(t) \in Txs /\ Conn(t) = None /\ "tx end" \notin Carrying
  BY DEF DbTxTake, DbAt, DbInv, Shapes, WithHandle, Hands, Carrying
<1>2. UNCHANGED <<dbIdle, dbPinned, dbTxs, dbPinLock>>
  BY DEF DbTxTake
<1>3. CASE dbSlot[Tx(t)] = None
  BY <1>1, <1>2, <1>3, ReturnsKept DEF DbTxTake
<1>4. CASE dbSlot[Tx(t)] # None
  <2>1. PICK c \in Connections : c = dbSlot[Tx(t)]
    BY <1>1, <1>4 DEF DbInv, Shapes
  <2>2. dbThread' = [dbThread EXCEPT ![t].at = "tx finish", ![t].conn = c]
    BY <1>4, <2>1 DEF DbTxTake
  <2>3. dbThread' = [dbThread EXCEPT ![t].conn = c, ![t].at = "tx finish"]
    BY <2>2 DEF DbInv, Shapes
  <2>4. Becomes(t, "tx finish", c, Tx(t))
    BY <2>3, GivenBecomes DEF DbInv, DbPositions
  <2>5. dbSlot'[Tx(t)] = None /\ \A x \in Txs : x # Tx(t) => dbSlot'[x] = dbSlot[x]
    BY <1>1, <1>4 DEF DbTxTake, DbInv, Shapes
  <2>6. "tx finish" \notin PinLocked /\ "tx finish" \notin PinEmpty /\ "tx finish" \notin Opening
    BY DEF PinLocked, PinEmpty, Opening
  <2>7. Pinning'
    BY <1>2, <2>4, <2>6, PinningKept DEF KeptParts
  <2>8. Numbers'
    BY <1>2, <2>4, <2>5, <2>6, NumbersKept DEF KeptParts, DbInv
  <2>9. \A d \in Connections : Placed(d)'
    BY <1>1, <1>2, <2>1, <2>4, <2>5, PlacedKept DEF KeptParts
  <2> QED
    BY <2>7, <2>8, <2>9 DEF KeptParts
<1> QED
  BY <1>3, <1>4

LEMMA ClosesKept ==
    ASSUME DbInv, KeptParts, NEW t \in Threads, DbClose(t) \/ DbCloseTable(t)
    PROVE  KeptParts'
<1>1. CASE DbClose(t)
  <2>1. /\ DbGo(t, "close") /\ dbPinLock = None /\ dbPinned' = None
        /\ UNCHANGED <<dbSlot, dbTxs, dbPinLock>>
        /\ (dbIdle' = dbIdle /\ dbPinned = None) \/ dbIdle' = dbIdle \cup {dbPinned}
    BY <1>1 DEF DbClose, dbLocks
  <2>2. Becomes(t, "close", Conn(t), Tx(t))
    BY <2>1, GoBecomes DEF DbInv, DbPositions
  <2>3. "close" \notin PinLocked /\ "close" \notin PinEmpty /\ "close" \notin Opening
    BY DEF PinLocked, PinEmpty, Opening
  <2>4. Pinning'
    BY <2>1, <2>2, <2>3, PinningKept DEF KeptParts
  <2>5. Numbers'
    BY <2>1, <2>2, <2>3, NumbersKept DEF KeptParts, DbInv
  <2>6. \A c \in Connections : Placed(c)'
    BY <2>1, <2>2, PlacedKept DEF KeptParts
  <2> QED
    BY <2>4, <2>5, <2>6 DEF KeptParts
<1>2. CASE DbCloseTable(t)
  <2>1. dbTable \in TxSets
    BY DEF DbInv, Shapes, TxSets
  <2>2. Becomes(t, "sweep", Conn(t), Tx(t)) /\ "sweep" \notin PinLocked /\ "sweep" \notin Opening
    BY <1>2, <2>1, SweepBecomes DEF DbCloseTable, DbInv, DbPositions, PinLocked, Opening
  <2> QED
    BY <1>2, <2>2, StaysKept DEF DbCloseTable, dbLocks
<1> QED
  BY <1>1, <1>2

LEMMA SweepKept ==
    ASSUME DbInv, KeptParts, NEW t \in Threads, DbSweep(t)
    PROVE  KeptParts'
<1>1. dbThread[t].at = "sweep" /\ UNCHANGED <<dbPinned, dbTxs, dbPinLock>>
  BY DEF DbSweep, DbAt, dbLocks
<1>2. CASE DbReturns(t) /\ UNCHANGED <<dbIdle, dbSlot>>
  BY <1>1, <1>2, ReturnsKept DEF Carrying
<1>3. ASSUME NEW x \in dbThread[t].sweep,
             dbThread' = [dbThread EXCEPT ![t].sweep = @ \ {x}],
             (dbIdle' = dbIdle /\ dbSlot[x] = None) \/ dbIdle' = dbIdle \cup {dbSlot[x]},
             dbSlot' = [dbSlot EXCEPT ![x] = None]
      PROVE  KeptParts'
  <2>1. dbThread[t].sweep \in TxSets
    BY DEF DbInv, Shapes, ThreadRecords
  <2>2. PICK s \in TxSets : s = dbThread[t].sweep \ {x}
    BY <1>3, <2>1 DEF TxSets
  <2>3. dbThread' = [dbThread EXCEPT ![t].sweep = s]
    BY <1>3, <2>2
  <2>4. Becomes(t, "sweep", Conn(t), Tx(t)) /\ "sweep" \notin PinLocked /\ "sweep" \notin PinEmpty
        /\ "sweep" \notin Opening
    BY <1>1, <2>3, SweptBecomes DEF DbInv, PinLocked, PinEmpty, Opening
  <2>5. x \in Txs /\ dbSlot'[x] = None /\ \A y \in Txs : y # x => dbSlot'[y] = dbSlot[y]
    BY <1>3, <2>1 DEF DbInv, Shapes, TxSets
  <2>6. Pinning'
    BY <1>1, <2>4, PinningKept DEF KeptParts
  <2>7. Numbers'
    BY <1>1, <2>4, <2>5, NumbersKept DEF KeptParts, DbInv
  <2>8. \A c \in Connections : Placed(c)'
    <3>1. \A y \in Txs : dbSlot[y] \in dbIdle' \cup {dbSlot'[y], None}
      BY <1>3, <2>5
    <3>2. \A c \in dbIdle : c \in dbIdle'
      BY <1>3
    <3> QED
      BY <1>1, <2>4, <3>1, <3>2, PlacedKept DEF KeptParts
  <2> QED
    BY <2>6, <2>7, <2>8 DEF KeptParts
<1> QED
  BY <1>2, <1>3 DEF DbSweep

LEMMA KeptStep ==
    ASSUME DbInv, KeptParts, [DbNext]_dbVars
    PROVE  KeptParts'
<1>1. CASE UNCHANGED dbVars \/ DbBreaks
  <2>1. UNCHANGED <<dbIdle, dbPinned, dbSlot, dbTxs, dbPinLock, dbThread>>
    BY <1>1 DEF dbVars, DbBreaks, dbOwners, dbLocks
  <2> QED
    BY <2>1 DEF KeptParts, Pinning, Numbers, Placed, Conn, Tx
<1> QED
  BY <1>1, StatementsKept, PinsKept, TxBeginKept, TxFileKept, TxsKept, TxTakeKept, ClosesKept,
     SweepKept DEF DbNext

-----------------------------------------------------------------------------
LEMMA OneOrNone ==
    ASSUME NEW S, \A x, y \in S : x = y
    PROVE  /\ S = {} => Cardinality(S) = 0
           /\ S # {} => Cardinality(S) = 1
<1>1. S = {} => Cardinality(S) = 0
  BY FS_EmptySet
<1>2. ASSUME NEW x \in S PROVE Cardinality(S) = 1
  <2>1. S = {x}
    OBVIOUS
  <2>2. Cardinality({x}) = 1
    BY FS_Singleton, Zenon
  <2> QED
    BY <2>1, <2>2
<1> QED
  BY <1>1, <1>2

\* Every connection is in exactly one place, whatever fails and however calls
\* and closes meet: none is lent twice, and none is lost to the pool.
THEOREM ConnectionsStayKept == DbSpec => []ConnectionsKept
<1>1. DbInit => DbInv /\ KeptParts
  BY DbInitial, DbKeptInit
<1>2. DbInv /\ KeptParts /\ [DbNext]_dbVars => (DbInv /\ KeptParts)'
  BY DbStep, KeptStep
<1>3. ASSUME DbInv, KeptParts PROVE ConnectionsKept
  <2> SUFFICES ASSUME NEW c \in Connections PROVE Places(c) = 1
    BY DEF ConnectionsKept
  <2> DEFINE S == {x \in Txs : dbSlot[x] = c}
             T == {t \in Threads : Conn(t) = c}
  <2>1. c # None /\ Placed(c)
    BY <1>3, NoneIsNoConnection DEF KeptParts
  <2>2. (\A x, y \in S : x = y) /\ (\A t, u \in T : t = u)
    BY <1>3, <2>1 DEF DbInv, Separate
  <2>3. /\ c \in dbIdle => dbPinned # c /\ S = {} /\ T = {}
        /\ dbPinned = c => S = {} /\ T = {}
        /\ S # {} => T = {}
    BY <1>3, <2>1 DEF DbInv, Separate
  <2>4. c \in dbIdle \/ dbPinned = c \/ S # {} \/ T # {}
    BY <2>1 DEF Placed
  <2>5. Places(c) = (IF c \in dbIdle THEN 1 ELSE 0) + (IF dbPinned = c THEN 1 ELSE 0)
                    + Cardinality(S) + Cardinality(T)
    BY DEF Places
  <2> HIDE DEF S, T
  <2>6. /\ S = {} => Cardinality(S) = 0
        /\ S # {} => Cardinality(S) = 1
    BY <2>2, OneOrNone
  <2>7. /\ T = {} => Cardinality(T) = 0
        /\ T # {} => Cardinality(T) = 1
    BY <2>2, OneOrNone
  <2> QED
    BY <2>3, <2>4, <2>5, <2>6, <2>7
<1> QED
  BY <1>1, <1>2, <1>3, PTL DEF DbSpec

-----------------------------------------------------------------------------
(* Handles of databases with one connection.                                 *)
DhPlaces == {"idle", "found", "run", "file", "unfile", "close", "leave"}
DhCallNames == DirectCalls \cup TxCalls \cup {"none"}
DhCallers == [at : DhPlaces, call : DhCallNames, on : 0..MaxConnects, tx : 0..MaxDbTxs]

DhShapes ==
    /\ dhMade \in 0..MaxConnects /\ dhOpen \subseteq 1..dhMade
    /\ dhTxs \in 0..MaxDbTxs
    /\ dhTable \in [DbTxs -> 0..MaxConnects]
    /\ dhActive \in [Databases -> 0..MaxDbTxs \cup {None}]
    /\ dhSql \in [Databases -> BOOLEAN]
    /\ dhThread \in [Threads -> DhCallers]

\* A database that was not opened yet.
DhNew ==
    \A c \in Databases : c > dhMade =>
        /\ dhActive[c] = None /\ ~dhSql[c] /\ \A n \in DbTxs : dhTable[n] # c
        /\ \A t \in Threads : dhThread[t].on # c

\* What a call carries.
DhCarried ==
    \A t \in Threads :
        /\ dhThread[t].at = "idle" <=> dhThread[t].on = 0
        /\ dhThread[t].at = "close" => dhThread[t].on \notin dhOpen
        /\ dhThread[t].at = "found" => dhThread[t].call \in TxCalls
        /\ \/ dhThread[t].at \in {"file", "unfile"}
           \/ dhThread[t].at \in {"found", "run"} /\ dhThread[t].call \in TxCalls \cup {"open"}
           => dhThread[t].tx \in 1..dhTxs
        /\ dhThread[t].at = "run" /\ dhThread[t].call \notin TxCalls \cup {"open"}
           => dhThread[t].tx = 0

\* Who opens the transaction n, files it, takes it out, or calls with it.
DhOpener(t, n) == dhThread[t].at = "run" /\ dhThread[t].call = "open" /\ dhThread[t].tx = n
DhFiler(t, n) == dhThread[t].at = "file" /\ dhThread[t].tx = n
DhUnfiler(t, n) == dhThread[t].at = "unfile" /\ dhThread[t].tx = n
DhUser(t, n) ==
    dhThread[t].at \in {"found", "run"} /\ dhThread[t].call \in TxCalls /\ dhThread[t].tx = n
DhBetween(n) == \E t \in Threads : DhFiler(t, n) \/ DhUnfiler(t, n)

\* A number is given out once, and is on record at one connection at most.
DhOnce ==
    /\ \A n \in DbTxs : n > dhTxs => dhTable[n] = 0 /\ \A c \in Databases : dhActive[c] # n
    /\ \A t \in Threads, n \in DbTxs : DhOpener(t, n) =>
          /\ dhTable[n] = 0 /\ \A c \in Databases : dhActive[c] # n
          /\ \A u \in Threads : /\ ~DhFiler(u, n) /\ ~DhUnfiler(u, n) /\ ~DhUser(u, n)
                                /\ DhOpener(u, n) => u = t
    /\ \A c, d \in Databases : dhActive[c] \in DbTxs /\ dhActive[c] = dhActive[d] => c = d

\* Who files a number has the connection it is on record at, if at all; who
\* takes it out has taken it from the record before.
DhFiling ==
    /\ \A t \in Threads, n \in DbTxs : DhFiler(t, n) =>
          /\ dhTable[n] = 0 /\ (dhThread[t].on \in dhOpen => dhActive[dhThread[t].on] = n)
          /\ \A c \in Databases : dhActive[c] = n => c = dhThread[t].on
          /\ \A u \in Threads : ~DhUser(u, n) /\ (DhFiler(u, n) => u = t)
    /\ \A t \in Threads, n \in DbTxs : DhUnfiler(t, n) => \A c \in Databases : dhActive[c] # n

\* The three parts of TransactionsFiled.
DhRecorded == \A c \in Databases : dhSql[c] => dhActive[c] # None
DhTabled ==
    \A c \in dhOpen, n \in DbTxs : ~DhBetween(n) => (dhTable[n] = c <=> dhActive[c] = n)
DhDropped ==
    \A c \in Databases : c \notin dhOpen /\ (\A t \in Threads : ~DhHas(t, c)) => ~dhSql[c]

DhFiledInv ==
    /\ DhShapes /\ DhNew /\ DhCarried /\ DhOnce /\ DhFiling
    /\ DhRecorded /\ DhTabled /\ DhDropped

\* A connection somebody can still come to has open what it has on record, but
\* for a transaction that SQLite rolled back.
DhReached(c) == c \in dhOpen \/ \E t \in Threads : DhHas(t, c)
DhOnRecord ==
    \A c \in Databases, n \in DbTxs :
        dhActive[c] = n /\ DhReached(c) /\ ~dhSql[c] => n \in dhFell

\* What is written and not yet kept is of the transaction on record.
DhWritten ==
    /\ dhPending \in [Databases -> SUBSET DbTxs]
    /\ \A c \in Databases, n \in DbTxs : n \in dhPending[c] => dhSql[c] /\ dhActive[c] = n

\* A transaction still to begin or to end has neither writes kept nor lost.
DhSpent == dhKept \cup dhLost \cup dhCommitted \cup dhFell
DhUnborn(n) == n > dhTxs \/ \E t \in Threads : DhOpener(t, n)
DhAhead ==
    /\ \A n \in DbTxs : DhUnborn(n) => n \notin DhSpent
    /\ \A c \in Databases, n \in DbTxs :
          DhReached(c) /\ dhActive[c] = n /\ dhSql[c] => n \notin DhSpent

\* TransactionsWhole, with what a run's bounds make of it.
DhWhole ==
    /\ dhKept \subseteq dhCommitted \cup dhFell /\ dhCommitted \subseteq DbTxs
    /\ dhLost \subseteq DbTxs /\ dhLost \cap dhCommitted = {}
    /\ dhFell \subseteq DbTxs /\ dhFell \cap dhCommitted = {}

DhKeeps == DhOnRecord /\ DhWritten /\ DhAhead /\ DhWhole
DhWholeInv == DhFiledInv /\ DhKeeps

LEMMA DhNumbers ==
    /\ \A n \in DbTxs : n \in 0..MaxDbTxs /\ n # 0 /\ n # None
    /\ \A c \in Databases : c \in 0..MaxConnects /\ c # 0 /\ c \in Nat
    /\ \A c \in 0..MaxConnects : c # 0 => c \in Databases
    /\ \A n \in 0..MaxDbTxs : n # None /\ (n # 0 => n \in DbTxs)
    /\ \A c \in 0..MaxConnects : \A d \in 1..c : d \in Databases
    /\ \A m \in 0..MaxDbTxs : \A n \in 1..m : n \in DbTxs
  BY DbHandlesAssumption DEF DbTxs, Databases

LEMMA DhFiledInit == DhInit => DhFiledInv
<1> SUFFICES ASSUME DhInit PROVE DhFiledInv
  OBVIOUS
<1>1. DhIdle \in DhCallers
  BY DbHandlesAssumption DEF DhIdle, DhCallers, DhPlaces, DhCallNames
<1>2. DhShapes
  BY <1>1, DbHandlesAssumption DEF DhInit, DhShapes
<1>3. \A t \in Threads : dhThread[t] = DhIdle
  BY DEF DhInit
<1>4. DhNew
  BY <1>3, DhNumbers DEF DhInit, DhNew, DhIdle
<1>5. DhCarried
  <2>1. \A t \in Threads : dhThread[t].at = "idle" /\ dhThread[t].on = 0
    <3>1. DhIdle.at = "idle" /\ DhIdle.on = 0
      BY DEF DhIdle
    <3> QED
      BY <1>3, <3>1
  <2> QED
    BY <2>1 DEF DhCarried
<1>6. DhOnce
  BY <1>3, DhNumbers DEF DhOnce, DhOpener, DhInit, DhIdle
<1>7. DhFiling
  BY <1>3 DEF DhFiling, DhFiler, DhUnfiler, DhIdle
<1> QED
  BY <1>2, <1>4, <1>5, <1>6, <1>7 DEF DhFiledInv, DhRecorded, DhTabled, DhDropped, DhInit

\* One thread moves.
DhElse(t) ==
    /\ dhThread' \in [Threads -> DhCallers]
    /\ \A u \in Threads : u # t => dhThread'[u] = dhThread[u]

DhMovedTo(t, p) ==
    /\ DhElse(t) /\ dhThread'[t].at = p /\ dhThread'[t].call = dhThread[t].call
    /\ dhThread'[t].on = dhThread[t].on /\ dhThread'[t].tx = dhThread[t].tx

LEMMA DhBecomes ==
    ASSUME DhShapes, NEW t \in Threads, NEW r \in DhCallers,
           dhThread' = [dhThread EXCEPT ![t] = r]
    PROVE  DhElse(t) /\ dhThread'[t] = r
<1>1. dhThread \in [Threads -> DhCallers]
  BY DEF DhShapes
<1> QED
  BY <1>1 DEF DhElse

LEMMA DhGoes ==
    ASSUME DhShapes, NEW t \in Threads, NEW p \in DhPlaces, DhGo(t, p)
    PROVE  DhMovedTo(t, p)
<1>1. dhThread[t] \in DhCallers
  BY DEF DhShapes
<1> DEFINE r == [dhThread[t] EXCEPT !.at = p]
<1>2. /\ r \in DhCallers /\ r.at = p /\ r.call = dhThread[t].call
      /\ r.on = dhThread[t].on /\ r.tx = dhThread[t].tx
  BY <1>1 DEF DhCallers
<1>3. dhThread' = [dhThread EXCEPT ![t] = r]
  BY DEF DhGo
<1> HIDE DEF r
<1> QED
  BY <1>2, <1>3, DhBecomes DEF DhMovedTo

LEMMA DhTyped ==
    ASSUME DhShapes, NEW t \in Threads
    PROVE  /\ dhThread[t] \in DhCallers /\ dhThread[t].at \in DhPlaces
           /\ dhThread[t].call \in DhCallNames
           /\ dhThread[t].on \in 0..MaxConnects /\ dhThread[t].tx \in 0..MaxDbTxs
<1>1. dhThread[t] \in DhCallers
  BY DEF DhShapes
<1> QED
  BY <1>1 DEF DhCallers

\* What the others do stays, and who leaves does nothing more.
LEMMA DhRolesKept ==
    ASSUME NEW t \in Threads, DhElse(t)
    PROVE  /\ \A u \in Threads : \A n : u # t =>
                 /\ DhOpener(u, n)' <=> DhOpener(u, n)
                 /\ DhFiler(u, n)' <=> DhFiler(u, n)
                 /\ DhUnfiler(u, n)' <=> DhUnfiler(u, n)
                 /\ DhUser(u, n)' <=> DhUser(u, n)
           /\ \A u \in Threads : \A c : u # t => (DhHas(u, c)' <=> DhHas(u, c))
           /\ dhThread'[t].at \in {"idle", "close", "leave"} => \A n :
                 ~DhOpener(t, n)' /\ ~DhFiler(t, n)' /\ ~DhUnfiler(t, n)' /\ ~DhUser(t, n)'
  BY DEF DhElse, DhOpener, DhFiler, DhUnfiler, DhUser, DhHas, DhAt

\* A call that changes no record: it leaves the connection, or drops it.
LEMMA DhQuiet ==
    ASSUME DhFiledInv, NEW t \in Threads, DhMovedTo(t, "leave"), dhThread[t].at = "run",
           UNCHANGED <<dhOpen, dhMade, dhTable, dhTxs, dhActive>>,
           dhSql' \in [Databases -> BOOLEAN], \A c \in Databases : dhSql'[c] => dhSql[c]
    PROVE  DhFiledInv'
<1>0. DhShapes /\ DhElse(t) /\ dhThread'[t].at = "leave"
  BY DEF DhFiledInv, DhMovedTo
<1>1. DhShapes'
  BY <1>0 DEF DhShapes, DhElse
<1>2. DhNew'
  BY DEF DhFiledInv, DhNew, DhMovedTo, DhElse
<1>3. DhCarried'
  BY DEF DhFiledInv, DhCarried, DhMovedTo, DhElse
<1>4. DhOnce'
  BY <1>0, DhRolesKept DEF DhFiledInv, DhOnce
<1>5. DhFiling'
  <2>1. ASSUME NEW u \in Threads, NEW n \in DbTxs, DhFiler(u, n)'
        PROVE  u # t /\ DhFiler(u, n) /\ dhThread'[u] = dhThread[u]
    BY <1>0, <2>1, DhRolesKept DEF DhElse
  <2> QED
    BY <1>0, <2>1, DhRolesKept DEF DhFiledInv, DhFiling
<1>6. DhTabled'
  <2>1. \A n : DhBetween(n) => DhBetween(n)'
    BY <1>0, DhRolesKept DEF DhBetween, DhFiler, DhUnfiler
  <2> QED
    BY <2>1 DEF DhFiledInv, DhTabled
<1>7. DhDropped'
  <2>1. \A u \in Threads : \A c : DhHas(u, c) => DhHas(u, c)'
    BY <1>0, DhRolesKept DEF DhHas, DhAt, DhMovedTo
  <2> QED
    BY <2>1 DEF DhFiledInv, DhDropped
<1> QED
  BY <1>1, <1>2, <1>3, <1>4, <1>5, <1>6, <1>7 DEF DhFiledInv, DhRecorded

\* A database is opened: nothing has referred to it.
LEMMA DhConnectKept ==
    ASSUME DhFiledInv, NEW t \in Threads, DhConnect(t)
    PROVE  DhFiledInv'
<1>1. /\ dhMade \in 0..MaxConnects /\ dhMade < MaxConnects /\ dhMade' = dhMade + 1
      /\ dhOpen' = dhOpen \cup {dhMade'} /\ dhOpen \subseteq 1..dhMade
      /\ UNCHANGED <<dhTable, dhTxs, dhActive, dhSql, dhThread>>
  BY DEF DhConnect, DhFiledInv, DhShapes, dhData
<1>2. /\ dhMade' \in 0..MaxConnects /\ dhOpen' \subseteq 1..dhMade' /\ dhMade' \in Databases
      /\ dhMade' > dhMade
  BY <1>1, DbHandlesAssumption DEF Databases
<1>3. /\ dhActive[dhMade'] = None /\ ~dhSql[dhMade'] /\ (\A n \in DbTxs : dhTable[n] # dhMade')
      /\ \A u \in Threads : dhThread[u].on # dhMade'
  BY <1>2 DEF DhFiledInv, DhNew
<1>4. DhShapes'
  BY <1>1, <1>2 DEF DhFiledInv, DhShapes
<1>5. DhNew'
  <2>1. \A c \in Databases : c > dhMade' => c > dhMade
    BY <1>1, DhNumbers
  <2> QED
    BY <1>1, <2>1 DEF DhFiledInv, DhNew
<1>6. DhCarried'
  <2>1. \A u \in Threads : dhThread[u].on \notin dhOpen => dhThread[u].on \notin dhOpen'
    BY <1>1, <1>3
  <2> QED
    BY <1>1, <2>1 DEF DhFiledInv, DhCarried
<1>7. DhOnce'
  BY <1>1 DEF DhFiledInv, DhOnce, DhOpener, DhFiler, DhUnfiler, DhUser
<1>8. DhFiling'
  BY <1>1, <1>3 DEF DhFiledInv, DhFiling, DhFiler, DhUnfiler, DhUser
<1>9. DhTabled'
  BY <1>1, <1>3, DhNumbers DEF DhFiledInv, DhTabled, DhBetween, DhFiler, DhUnfiler
<1>10. DhDropped'
  BY <1>1 DEF DhFiledInv, DhDropped, DhHas, DhAt
<1> QED
  BY <1>1, <1>4, <1>5, <1>6, <1>7, <1>8, <1>9, <1>10 DEF DhFiledInv, DhRecorded

\* A call begins, with a new number if it opens a transaction.
LEMMA DhLookupKept ==
    ASSUME DhFiledInv, NEW t \in Threads, DhLookup(t)
    PROVE  DhFiledInv'
<1>1. PICK c \in dhOpen, call \in DirectCalls :
          /\ call = "open" => dhTxs < MaxDbTxs
          /\ dhTxs' = IF call = "open" THEN dhTxs + 1 ELSE dhTxs
          /\ dhThread' = [dhThread EXCEPT ![t] =
                [at |-> "run", call |-> call, on |-> c,
                 tx |-> IF call = "open" THEN dhTxs' ELSE 0]]
  BY DEF DhLookup
<1>2. /\ dhTxs \in 0..MaxDbTxs /\ dhOpen \subseteq Databases /\ dhOpen \subseteq 0..MaxConnects
      /\ UNCHANGED <<dhOpen, dhMade, dhTable, dhActive, dhSql>> /\ dhThread[t].at = "idle"
  BY DhNumbers DEF DhFiledInv, DhShapes, DhLookup, DhAt, dhFiles, dhData
<1>3. dhTxs' \in 0..MaxDbTxs /\ dhTxs <= dhTxs' /\ (call = "open" => dhTxs' \in DbTxs /\ dhTxs' > dhTxs)
  BY <1>1, <1>2, DbHandlesAssumption DEF DbTxs
<1> DEFINE tx == IF call = "open" THEN dhTxs' ELSE 0
<1> DEFINE r == [at |-> "run", call |-> call, on |-> c, tx |-> tx]
<1>4. tx \in 0..MaxDbTxs /\ (call = "open" => tx = dhTxs') /\ (call # "open" => tx = 0)
  BY <1>3, DbHandlesAssumption
<1>5. dhThread' = [dhThread EXCEPT ![t] = r]
  BY <1>1
<1> HIDE DEF tx
<1>6. r \in DhCallers /\ r.at = "run" /\ r.call = call /\ r.on = c /\ r.tx = tx
  BY <1>1, <1>2, <1>4 DEF DhCallers, DhPlaces, DhCallNames
<1> HIDE DEF r
<1>7. DhElse(t) /\ dhThread'[t] = r
  BY <1>5, <1>6, DhBecomes DEF DhFiledInv
<1>8. call \notin TxCalls
  BY DEF DirectCalls, TxCalls
<1>9. DhShapes'
  BY <1>2, <1>3, <1>7 DEF DhFiledInv, DhShapes, DhElse
<1>10. DhNew'
  <2>1. dhMade \in 0..MaxConnects /\ dhOpen \subseteq 1..dhMade
    BY DEF DhFiledInv, DhShapes
  <2>2. \A d \in Databases : d > dhMade => c # d
    BY <1>1, <2>1, DhNumbers
  <2> QED
    BY <1>2, <1>6, <1>7, <2>2 DEF DhFiledInv, DhNew, DhElse
<1>11. DhCarried'
  <2>1. ASSUME NEW u \in Threads, u # t, dhThread[u].tx \in 1..dhTxs
        PROVE  dhThread'[u].tx \in 1..dhTxs'
    BY <1>2, <1>3, <1>7, <2>1 DEF DhElse
  <2>2. call = "open" => tx \in 1..dhTxs'
    BY <1>2, <1>3, <1>4
  <2>3. c # 0 /\ c \in dhOpen
    BY <1>1, <1>2, DhNumbers
  <2> QED
    BY <1>2, <1>4, <1>6, <1>7, <1>8, <2>1, <2>2, <2>3 DEF DhFiledInv, DhCarried, DhElse
<1>12. \A n \in DbTxs : /\ ~DhFiler(t, n)' /\ ~DhUnfiler(t, n)' /\ ~DhUser(t, n)'
                        /\ DhOpener(t, n)' => n > dhTxs /\ n = dhTxs'
  BY <1>3, <1>4, <1>6, <1>7, <1>8 DEF DhFiler, DhUnfiler, DhUser, DhOpener
<1>13. ASSUME NEW u \in Threads, NEW n \in DbTxs, n > dhTxs
       PROVE  ~DhOpener(u, n) /\ ~DhFiler(u, n) /\ ~DhUnfiler(u, n) /\ ~DhUser(u, n)
  <2>1. n \notin 1..dhTxs
    BY <1>2, <1>13, DhNumbers
  <2> QED
    BY <2>1 DEF DhFiledInv, DhCarried, DhOpener, DhFiler, DhUnfiler, DhUser
<1>14. DhOnce'
  <2>1. \A n \in DbTxs : n > dhTxs' => n > dhTxs
    BY <1>2, <1>3, DhNumbers
  <2>2. ASSUME NEW u \in Threads, NEW n \in DbTxs, DhOpener(u, n)'
        PROVE  /\ dhTable[n] = 0 /\ \A d \in Databases : dhActive[d] # n
               /\ \A v \in Threads : /\ ~DhFiler(v, n)' /\ ~DhUnfiler(v, n)' /\ ~DhUser(v, n)'
                                     /\ DhOpener(v, n)' => v = u
    <3>1. CASE u = t
      BY <1>7, <1>12, <1>13, <2>2, <3>1, DhRolesKept DEF DhFiledInv, DhOnce
    <3>2. CASE u # t
      <4>1. DhOpener(u, n)
        BY <1>7, <2>2, <3>2, DhRolesKept
      <4>2. ~DhOpener(t, n)'
        BY <1>12, <1>13, <4>1
      <4> QED
        BY <1>7, <1>12, <4>1, <4>2, DhRolesKept DEF DhFiledInv, DhOnce
    <3> QED
      BY <3>1, <3>2
  <2> QED
    BY <1>2, <2>1, <2>2 DEF DhFiledInv, DhOnce
<1>15. DhFiling'
  <2>1. ASSUME NEW u \in Threads, NEW n \in DbTxs, DhFiler(u, n)' \/ DhUnfiler(u, n)'
        PROVE  u # t /\ dhThread'[u] = dhThread[u]
    BY <1>7, <1>12, <2>1 DEF DhElse
  <2> QED
    BY <1>2, <1>7, <1>12, <2>1, DhRolesKept DEF DhFiledInv, DhFiling
<1>16. DhTabled'
  <2>1. ASSUME NEW n \in DbTxs, DhBetween(n) PROVE DhBetween(n)'
    BY <1>2, <1>7, <2>1, DhRolesKept DEF DhBetween, DhFiler, DhUnfiler
  <2> QED
    BY <1>2, <2>1 DEF DhFiledInv, DhTabled
<1>17. DhDropped'
  <2>1. \A u \in Threads, d \in Databases : DhHas(u, d) => DhHas(u, d)'
    BY <1>2, <1>7, DhRolesKept, DhNumbers DEF DhFiledInv, DhCarried, DhHas, DhAt
  <2> QED
    BY <1>2, <2>1 DEF DhFiledInv, DhDropped
<1> QED
  BY <1>2, <1>9, <1>10, <1>11, <1>14, <1>15, <1>16, <1>17 DEF DhFiledInv, DhRecorded

\* A step of a call with a transaction's handle before it has the connection.
LEMMA DhUserStep ==
    ASSUME DhFiledInv, NEW t \in Threads, DhElse(t),
           dhThread[t].at \in {"idle", "found"},
           UNCHANGED <<dhOpen, dhMade, dhTable, dhTxs, dhActive, dhSql>>,
           NEW n \in DbTxs, NEW c \in Databases, n \in 1..dhTxs, c <= dhMade,
           \/ dhThread'[t].at = "idle" /\ dhThread'[t].on = 0
           \/ /\ dhThread'[t].at \in {"found", "run"} /\ dhThread'[t].call \in TxCalls
              /\ dhThread'[t].on = c /\ dhThread'[t].tx = n
              /\ dhThread[t].at = "found" \/ dhTable[n] # 0
              /\ dhThread[t].at = "found" => DhUser(t, n)
    PROVE  DhFiledInv'
<1>1. \A m \in DbTxs : /\ ~DhOpener(t, m)' /\ ~DhFiler(t, m)' /\ ~DhUnfiler(t, m)'
                       /\ DhUser(t, m)' => m = n /\ (dhTable[n] # 0 \/ DhUser(t, n))
  BY DEF DhOpener, DhFiler, DhUnfiler, DhUser, TxCalls
<1>2. \A m \in DbTxs : ~DhFiler(t, m) /\ ~DhUnfiler(t, m)
  BY DEF DhFiler, DhUnfiler
<1>3. DhShapes'
  BY DEF DhFiledInv, DhShapes, DhElse
<1>4. DhNew'
  <2>1. \A d \in Databases : d > dhMade => d # c /\ d # 0
    BY DhNumbers DEF DhFiledInv, DhShapes
  <2> QED
    BY <2>1 DEF DhFiledInv, DhNew, DhElse
<1>5. DhCarried'
  <2>1. ASSUME NEW u \in Threads, u # t
        PROVE  dhThread'[u] = dhThread[u]
    BY <2>1 DEF DhElse
  <2>2. c # 0 /\ "open" \notin TxCalls
    BY DhNumbers DEF TxCalls
  <2>3. /\ dhThread'[t].at = "idle" <=> dhThread'[t].on = 0
        /\ dhThread'[t].at \in {"idle", "found", "run"}
        /\ dhThread'[t].at # "idle" => dhThread'[t].call \in TxCalls /\ dhThread'[t].tx \in 1..dhTxs
    BY <2>2
  <2> QED
    BY <2>1, <2>3 DEF DhFiledInv, DhCarried
<1>6. DhOnce'
  <2>1. ASSUME NEW u \in Threads, NEW m \in DbTxs, DhOpener(u, m)'
        PROVE  u # t /\ DhOpener(u, m) /\ ~DhUser(t, m)'
    <3>1. u # t /\ DhOpener(u, m)
      BY <1>1, <2>1, DhRolesKept
    <3>2. dhTable[m] = 0 /\ ~DhUser(t, m)
      BY <3>1 DEF DhFiledInv, DhOnce
    <3> QED
      BY <1>1, <3>1, <3>2
  <2>2. ASSUME NEW u \in Threads, NEW m \in DbTxs, DhOpener(u, m)'
        PROVE  /\ dhTable[m] = 0 /\ \A d \in Databases : dhActive[d] # m
               /\ \A v \in Threads : /\ ~DhFiler(v, m)' /\ ~DhUnfiler(v, m)' /\ ~DhUser(v, m)'
                                     /\ DhOpener(v, m)' => v = u
    <3>1. /\ dhTable[m] = 0 /\ \A d \in Databases : dhActive[d] # m
          /\ \A v \in Threads : /\ ~DhFiler(v, m) /\ ~DhUnfiler(v, m) /\ ~DhUser(v, m)
                                /\ DhOpener(v, m) => v = u
      BY <2>1, <2>2 DEF DhFiledInv, DhOnce
    <3> QED
      BY <1>1, <2>1, <2>2, <3>1, DhRolesKept
  <2> QED
    BY <2>2 DEF DhFiledInv, DhOnce
<1>7. DhFiling'
  <2>1. ASSUME NEW u \in Threads, NEW m \in DbTxs, DhFiler(u, m)' \/ DhUnfiler(u, m)'
        PROVE  u # t /\ dhThread'[u] = dhThread[u]
    BY <1>1, <2>1 DEF DhElse
  <2>2. ASSUME NEW u \in Threads, NEW m \in DbTxs, DhFiler(u, m)'
        PROVE  ~DhUser(t, m)'
    <3>1. dhTable[m] = 0 /\ ~DhUser(t, m)
      BY <2>1, <2>2, DhRolesKept DEF DhFiledInv, DhFiling
    <3> QED
      BY <1>1, <3>1
  <2> QED
    BY <1>1, <2>1, <2>2, DhRolesKept DEF DhFiledInv, DhFiling
<1>8. DhTabled'
  <2>1. ASSUME NEW m \in DbTxs, DhBetween(m) PROVE DhBetween(m)'
    <3>1. PICK u \in Threads : DhFiler(u, m) \/ DhUnfiler(u, m)
      BY <2>1 DEF DhBetween
    <3>2. DhFiler(u, m)' \/ DhUnfiler(u, m)'
      BY <1>2, <3>1, DhRolesKept
    <3> QED
      BY <3>2 DEF DhBetween
  <2> SUFFICES ASSUME NEW d \in dhOpen, NEW m \in DbTxs, ~DhBetween(m)'
               PROVE  dhTable[m] = d <=> dhActive[d] = m
    BY DEF DhTabled
  <2> QED
    BY <2>1 DEF DhFiledInv, DhTabled
<1>9. DhDropped'
  <2>1. \A u \in Threads, d \in Databases : DhHas(u, d) => DhHas(u, d)'
    <3>1. \A d \in Databases : ~DhHas(t, d)
      BY DhNumbers DEF DhFiledInv, DhCarried, DhHas, DhAt
    <3> QED
      BY <3>1, DhRolesKept
  <2> QED
    BY <2>1 DEF DhFiledInv, DhDropped
<1> QED
  BY <1>3, <1>4, <1>5, <1>6, <1>7, <1>8, <1>9 DEF DhFiledInv, DhRecorded

LEMMA DhTxLookupKept ==
    ASSUME DhFiledInv, NEW t \in Threads, DhTxLookup(t)
    PROVE  DhFiledInv'
<1>1. PICK n \in 1..dhTxs, call \in TxCalls :
          /\ dhTable[n] # 0
          /\ dhThread' = [dhThread EXCEPT ![t] =
                [at |-> "found", call |-> call, on |-> dhTable[n], tx |-> n]]
  BY DEF DhTxLookup
<1>2. /\ dhTxs \in 0..MaxDbTxs /\ dhTable \in [DbTxs -> 0..MaxConnects] /\ dhMade \in 0..MaxConnects
      /\ UNCHANGED <<dhOpen, dhMade, dhTable, dhTxs, dhActive, dhSql>> /\ dhThread[t].at = "idle"
  BY DEF DhFiledInv, DhShapes, DhTxLookup, DhAt, dhFiles, dhData
<1>3. n \in DbTxs /\ n \in 0..MaxDbTxs
  BY <1>2, DhNumbers
<1>4. dhTable[n] \in 0..MaxConnects /\ dhTable[n] \in Databases /\ dhTable[n] <= dhMade
  <2>1. dhTable[n] \in 0..MaxConnects
    BY <1>2, <1>3
  <2>2. dhTable[n] \in Databases
    BY <1>1, <2>1, DhNumbers
  <2>3. ~(dhTable[n] > dhMade)
    BY <1>3, <2>2 DEF DhFiledInv, DhNew
  <2> QED
    BY <1>2, <2>1, <2>2, <2>3
<1> DEFINE r == [at |-> "found", call |-> call, on |-> dhTable[n], tx |-> n]
<1>5. r \in DhCallers /\ r.at = "found" /\ r.call = call /\ r.on = dhTable[n] /\ r.tx = n
  BY <1>3, <1>4 DEF DhCallers, DhPlaces, DhCallNames
<1> HIDE DEF r
<1>6. /\ DhElse(t) /\ dhThread'[t].at = "found" /\ dhThread'[t].call = call
      /\ dhThread'[t].on = dhTable[n] /\ dhThread'[t].tx = n
  BY <1>1, <1>5, DhBecomes DEF DhFiledInv, r
<1> QED
  BY <1>1, <1>2, <1>3, <1>4, <1>6, DhUserStep

LEMMA DhTxFindsKept ==
    ASSUME DhFiledInv, NEW t \in Threads, DhTxFinds(t)
    PROVE  DhFiledInv'
<1>1. /\ dhThread[t].at = "found" /\ dhThread[t].call \in TxCalls /\ dhThread[t].tx \in 1..dhTxs
      /\ UNCHANGED <<dhOpen, dhMade, dhTable, dhTxs, dhActive, dhSql>>
  BY DEF DhFiledInv, DhCarried, DhTxFinds, DhAt, dhFiles, dhData
<1>2. /\ dhThread[t] \in DhCallers /\ dhThread[t].on \in Databases /\ dhThread[t].on <= dhMade
      /\ dhThread[t].tx \in DbTxs
  <2>1. dhThread[t] \in DhCallers /\ dhThread[t].on \in 0..MaxConnects /\ dhThread[t].on # 0
    BY <1>1, DhTyped DEF DhFiledInv, DhCarried
  <2>2. dhThread[t].on \in Databases
    BY <2>1, DhNumbers
  <2>3. ~(dhThread[t].on > dhMade) /\ dhMade \in 0..MaxConnects /\ dhTxs \in 0..MaxDbTxs
    BY <2>2 DEF DhFiledInv, DhNew, DhShapes
  <2> QED
    BY <1>1, <2>1, <2>2, <2>3, DhNumbers
<1>3. \/ DhMovedTo(t, "run")
      \/ DhElse(t) /\ dhThread'[t].at = "idle" /\ dhThread'[t].on = 0
  <2>1. CASE dhThread[t].on \in dhOpen
    <3>1. DhGo(t, "run") /\ "run" \in DhPlaces
      BY <2>1 DEF DhTxFinds, DhGo, DhPlaces
    <3> QED
      BY <3>1, DhGoes DEF DhFiledInv
  <2>2. CASE dhThread[t].on \notin dhOpen
    <3>1. dhThread' = [dhThread EXCEPT ![t] = DhIdle]
      BY <2>2 DEF DhTxFinds
    <3>2. DhIdle \in DhCallers /\ DhIdle.at = "idle" /\ DhIdle.on = 0
      BY DbHandlesAssumption DEF DhIdle, DhCallers, DhPlaces, DhCallNames
    <3> QED
      BY <3>1, <3>2, DhBecomes DEF DhFiledInv
  <2> QED
    BY <2>1, <2>2
<1>4. DhUser(t, dhThread[t].tx)
  BY <1>1 DEF DhUser
<1> QED
  BY <1>1, <1>2, <1>3, <1>4, DhUserStep DEF DhMovedTo

\* The connection of a call.
LEMMA DhOfCall ==
    ASSUME DhFiledInv, NEW t \in Threads, dhThread[t].at # "idle"
    PROVE  /\ dhThread[t].on \in Databases /\ dhThread[t].on \in 0..MaxConnects
           /\ ~(dhThread[t].on > dhMade)
           /\ dhThread[t].at # "found" => DhHas(t, dhThread[t].on)
<1>1. dhThread[t].on \in 0..MaxConnects /\ dhThread[t].on # 0
  BY DhTyped DEF DhFiledInv, DhCarried
<1>2. dhThread[t].on \in Databases
  BY <1>1, DhNumbers
<1> QED
  BY <1>1, <1>2 DEF DhFiledInv, DhNew, DhHas, DhAt

\* What changes at one connection.
LEMMA DhActiveAt ==
    ASSUME DhFiledInv, NEW c \in Databases, NEW v \in 0..MaxDbTxs \cup {None}, NEW b \in BOOLEAN,
           dhActive' = [dhActive EXCEPT ![c] = v],
           dhSql' = [dhSql EXCEPT ![c] = b]
    PROVE  /\ dhActive' \in [Databases -> 0..MaxDbTxs \cup {None}]
           /\ dhSql' \in [Databases -> BOOLEAN]
           /\ dhActive'[c] = v /\ dhSql'[c] = b
           /\ \A d \in Databases : d # c => dhActive'[d] = dhActive[d] /\ dhSql'[d] = dhSql[d]
<1>1. dhActive \in [Databases -> 0..MaxDbTxs \cup {None}] /\ dhSql \in [Databases -> BOOLEAN]
  BY DEF DhFiledInv, DhShapes
<1> QED
  BY <1>1

\* The connection's own transaction begins or ends: no number changes place.
LEMMA DhOwnStep ==
    ASSUME DhFiledInv, NEW t \in Threads, dhThread[t].at \in {"run", "close"},
           DhMovedTo(t, "leave"), UNCHANGED <<dhOpen, dhMade, dhTable, dhTxs>>,
           NEW v \in 0..MaxDbTxs \cup {None}, NEW b \in BOOLEAN,
           dhActive' = [dhActive EXCEPT ![dhThread[t].on] = v],
           dhSql' = [dhSql EXCEPT ![dhThread[t].on] = b],
           dhActive[dhThread[t].on] \notin DbTxs, v \notin DbTxs, b => v # None
    PROVE  DhFiledInv'
<1> DEFINE c == dhThread[t].on
<1>1. c \in Databases /\ ~(c > dhMade)
  BY DhOfCall
<1>2. /\ dhActive' \in [Databases -> 0..MaxDbTxs \cup {None}]
      /\ dhSql' \in [Databases -> BOOLEAN]
      /\ dhActive'[c] = v /\ dhSql'[c] = b
      /\ \A d \in Databases : d # c => dhActive'[d] = dhActive[d] /\ dhSql'[d] = dhSql[d]
  BY <1>1, DhActiveAt
<1>3. DhElse(t) /\ dhThread'[t].at = "leave" /\ dhThread'[t].on = c
  BY DEF DhMovedTo
<1> HIDE DEF c
<1>4. \A d \in Databases, n \in DbTxs : dhActive'[d] = n <=> dhActive[d] = n
  BY <1>2 DEF c
<1>5. DhShapes'
  BY <1>2, <1>3 DEF DhFiledInv, DhShapes, DhElse
<1>6. DhNew'
  BY <1>1, <1>2, <1>3 DEF DhFiledInv, DhNew, DhElse, c
<1>7. DhCarried'
  BY DEF DhFiledInv, DhCarried, DhMovedTo, DhElse
<1>8. DhOnce'
  <2>1. \A d, e \in Databases : dhActive'[d] \in DbTxs /\ dhActive'[d] = dhActive'[e] => d = e
    BY <1>4 DEF DhFiledInv, DhOnce
  <2>2. ASSUME NEW u \in Threads, NEW m \in DbTxs, DhOpener(u, m)'
        PROVE  /\ dhTable[m] = 0 /\ \A d \in Databases : dhActive'[d] # m
               /\ \A w \in Threads : /\ ~DhFiler(w, m)' /\ ~DhUnfiler(w, m)' /\ ~DhUser(w, m)'
                                     /\ DhOpener(w, m)' => w = u
    <3>1. u # t /\ DhOpener(u, m)
      BY <1>3, <2>2, DhRolesKept
    <3>2. /\ dhTable[m] = 0 /\ \A d \in Databases : dhActive[d] # m
          /\ \A w \in Threads : /\ ~DhFiler(w, m) /\ ~DhUnfiler(w, m) /\ ~DhUser(w, m)
                                /\ DhOpener(w, m) => w = u
      BY <3>1 DEF DhFiledInv, DhOnce
    <3> QED
      BY <1>3, <1>4, <3>2, DhRolesKept
  <2>3. \A n \in DbTxs : n > dhTxs => dhTable[n] = 0 /\ \A d \in Databases : dhActive'[d] # n
    BY <1>4 DEF DhFiledInv, DhOnce
  <2> QED
    BY <2>1, <2>2, <2>3 DEF DhOnce
<1>9. DhFiling'
  <2>1. ASSUME NEW u \in Threads, NEW n \in DbTxs, DhFiler(u, n)'
        PROVE  u # t /\ DhFiler(u, n) /\ dhThread'[u] = dhThread[u]
    BY <1>3, <2>1, DhRolesKept DEF DhElse
  <2>2. ASSUME NEW u \in Threads, NEW n \in DbTxs, DhFiler(u, n)'
        PROVE  /\ dhTable[n] = 0
               /\ dhThread'[u].on \in dhOpen => dhActive'[dhThread'[u].on] = n
               /\ \A d \in Databases : dhActive'[d] = n => d = dhThread'[u].on
               /\ \A w \in Threads : ~DhUser(w, n)' /\ (DhFiler(w, n)' => w = u)
    <3>1. /\ dhTable[n] = 0 /\ (dhThread[u].on \in dhOpen => dhActive[dhThread[u].on] = n)
          /\ \A d \in Databases : dhActive[d] = n => d = dhThread[u].on
          /\ \A w \in Threads : ~DhUser(w, n) /\ (DhFiler(w, n) => w = u)
      BY <2>1, <2>2 DEF DhFiledInv, DhFiling
    <3>2. dhThread[u].on \in Databases /\ dhThread'[u] = dhThread[u]
      BY <2>1, <2>2, DhOfCall DEF DhFiler
    <3> QED
      BY <1>3, <1>4, <3>1, <3>2, DhRolesKept
  <2>3. ASSUME NEW u \in Threads, NEW n \in DbTxs, DhUnfiler(u, n)'
        PROVE  \A d \in Databases : dhActive'[d] # n
    BY <1>3, <1>4, <2>3, DhRolesKept DEF DhFiledInv, DhFiling
  <2> QED
    BY <2>2, <2>3 DEF DhFiling
<1>10. DhTabled'
  <2>1. ASSUME NEW m \in DbTxs, DhBetween(m) PROVE DhBetween(m)'
    BY <1>3, <2>1, DhRolesKept DEF DhBetween, DhFiler, DhUnfiler
  <2>2. dhOpen \subseteq Databases
    BY DhNumbers DEF DhFiledInv, DhShapes
  <2> SUFFICES ASSUME NEW d \in dhOpen, NEW m \in DbTxs, ~DhBetween(m)'
               PROVE  dhTable[m] = d <=> dhActive'[d] = m
    BY DEF DhTabled
  <2> QED
    BY <1>4, <2>1, <2>2 DEF DhFiledInv, DhTabled
<1>11. DhDropped'
  <2>1. \A u \in Threads : \A d : DhHas(u, d) => DhHas(u, d)'
    BY <1>3, DhRolesKept DEF DhHas, DhAt, c
  <2>2. \A d : ~DhHas(t, d)' => d # c
    BY <1>3 DEF DhHas, DhAt
  <2> SUFFICES ASSUME NEW d \in Databases, d \notin dhOpen, \A u \in Threads : ~DhHas(u, d)'
               PROVE  ~dhSql'[d]
    BY DEF DhDropped
  <2> QED
    BY <1>2, <2>1, <2>2 DEF DhFiledInv, DhDropped
<1>12. DhRecorded'
  BY <1>2 DEF DhFiledInv, DhRecorded
<1> QED
  BY <1>5, <1>6, <1>7, <1>8, <1>9, <1>10, <1>11, <1>12 DEF DhFiledInv

LEMMA DhBeginKept ==
    ASSUME DhFiledInv, NEW t \in Threads, DhBegin(t)
    PROVE  DhFiledInv'
<1> DEFINE c == dhThread[t].on
<1>1. /\ dhThread[t].at = "run" /\ DhMovedTo(t, "leave")
      /\ UNCHANGED <<dhOpen, dhMade, dhTable, dhTxs>>
  <2>1. DhGo(t, "leave") /\ "leave" \in DhPlaces
    BY DEF DhBegin, DhPlaces
  <2> QED
    BY <2>1, DhGoes DEF DhBegin, DhCalls, DhAt, DhRunFrame, dhFiles, DhFiledInv
<1>2. CASE UNCHANGED <<dhActive, dhData>>
  BY <1>1, <1>2, DhQuiet DEF dhData, DhFiledInv, DhShapes
<1>3. CASE /\ dhActive[c] = None /\ SqlBegins(c) /\ dhActive' = [dhActive EXCEPT ![c] = 0]
  <2>1. 0 \in 0..MaxDbTxs \cup {None} /\ 0 \notin DbTxs /\ None \notin DbTxs /\ 0 # None
    BY DhNumbers, DbHandlesAssumption DEF DbTxs
  <2>2. dhSql' = [dhSql EXCEPT ![c] = TRUE]
    BY <1>3 DEF SqlBegins
  <2> QED
    BY <1>1, <1>3, <2>1, <2>2, DhOwnStep
<1> QED
  BY <1>2, <1>3 DEF DhBegin

LEMMA DhExecutesKept ==
    ASSUME DhFiledInv, NEW t \in Threads, DhExecute(t) \/ DhExecuteParams(t) \/ DhTxExecute(t)
    PROVE  DhFiledInv'
<1>1. /\ dhThread[t].at = "run" /\ DhMovedTo(t, "leave")
      /\ UNCHANGED <<dhOpen, dhMade, dhTable, dhTxs, dhActive>>
  <2>1. DhGo(t, "leave") /\ "leave" \in DhPlaces
    BY DEF DhExecute, DhExecuteParams, DhTxExecute, DhPlaces
  <2>2. DhMovedTo(t, "leave")
    BY <2>1, DhGoes DEF DhFiledInv
  <2> QED
    BY <2>2 DEF DhExecute, DhExecuteParams, DhTxExecute, DhCalls, DhAt, DhRunFrame, dhFiles
<1>2. dhSql' = dhSql \/ dhSql' = [dhSql EXCEPT ![dhThread[t].on] = FALSE]
  BY DEF DhExecute, DhExecuteParams, DhTxExecute, SqlWrites, SqlFalls, dhData
<1>3. dhSql \in [Databases -> BOOLEAN]
  BY DEF DhFiledInv, DhShapes
<1>4. dhSql' \in [Databases -> BOOLEAN] /\ \A d \in Databases : dhSql'[d] => dhSql[d]
  BY <1>2, <1>3
<1> QED
  BY <1>1, <1>4, DhQuiet

\* A transaction is opened: its number is on record, and not yet in the table.
LEMMA DhTxOpenKept ==
    ASSUME DhFiledInv, NEW t \in Threads, DhTxOpen(t)
    PROVE  DhFiledInv'
<1> DEFINE c == dhThread[t].on
<1> DEFINE n == dhThread[t].tx
<1>1. /\ dhThread[t].at = "run" /\ dhThread[t].call = "open"
      /\ UNCHANGED <<dhOpen, dhMade, dhTable, dhTxs>>
  BY DEF DhTxOpen, DhCalls, DhAt, DhRunFrame, dhFiles
<1>2. CASE DhGo(t, "leave") /\ UNCHANGED <<dhActive, dhData>>
  <2>1. DhMovedTo(t, "leave")
    BY <1>2, DhGoes DEF DhFiledInv, DhPlaces
  <2> QED
    BY <1>1, <1>2, <2>1, DhQuiet DEF dhData, DhFiledInv, DhShapes
<1>3. CASE /\ dhActive[c] = None /\ SqlBegins(c) /\ DhGo(t, "file")
           /\ dhActive' = [dhActive EXCEPT ![c] = n]
  <2>1. DhMovedTo(t, "file")
    BY <1>3, DhGoes DEF DhFiledInv, DhPlaces
  <2>2. c \in Databases /\ ~(c > dhMade)
    BY <1>1, DhOfCall
  <2>3. n \in DbTxs /\ n \in 0..MaxDbTxs /\ n \in 1..dhTxs /\ n # None
    <3>1. n \in 1..dhTxs /\ dhTxs \in 0..MaxDbTxs
      BY <1>1 DEF DhFiledInv, DhCarried, DhShapes
    <3> QED
      BY <3>1, DhNumbers
  <2>4. dhSql' = [dhSql EXCEPT ![c] = TRUE]
    BY <1>3 DEF SqlBegins
  <2>5. DhOpener(t, n)
    BY <1>1 DEF DhOpener
  <2>6. /\ DhElse(t) /\ dhThread'[t].at = "file" /\ dhThread'[t].on = c /\ dhThread'[t].tx = n
        /\ dhThread'[t].call = "open"
    BY <1>1, <2>1 DEF DhMovedTo
  <2>7. dhActive[c] = None
    BY <1>3
  <2>8. /\ dhActive' \in [Databases -> 0..MaxDbTxs \cup {None}]
        /\ dhSql' \in [Databases -> BOOLEAN]
        /\ dhActive'[c] = n /\ dhSql'[c]
        /\ \A d \in Databases : d # c => dhActive'[d] = dhActive[d] /\ dhSql'[d] = dhSql[d]
    BY <1>3, <2>2, <2>3, <2>4, DhActiveAt
  <2> HIDE DEF c, n
  <2>9. /\ dhTable[n] = 0 /\ \A d \in Databases : dhActive[d] # n
        /\ \A u \in Threads : /\ ~DhFiler(u, n) /\ ~DhUnfiler(u, n) /\ ~DhUser(u, n)
                              /\ DhOpener(u, n) => u = t
    BY <2>3, <2>5 DEF DhFiledInv, DhOnce
  <2>10. \A d \in Databases, m \in DbTxs :
            /\ m # n => (dhActive'[d] = m <=> dhActive[d] = m)
            /\ dhActive'[d] = n <=> d = c
    BY <2>3, <2>7, <2>8, <2>9, DhNumbers
  <2>11. \A m \in DbTxs : /\ DhFiler(t, m)' <=> m = n
                          /\ ~DhOpener(t, m)' /\ ~DhUnfiler(t, m)' /\ ~DhUser(t, m)'
    BY <2>6 DEF DhFiler, DhOpener, DhUnfiler, DhUser
  <2>r. \A u \in Threads, m \in DbTxs : u # t =>
            /\ DhOpener(u, m)' <=> DhOpener(u, m)
            /\ DhFiler(u, m)' <=> DhFiler(u, m)
            /\ DhUnfiler(u, m)' <=> DhUnfiler(u, m)
            /\ DhUser(u, m)' <=> DhUser(u, m)
    BY <2>6, DhRolesKept
  <2>12. DhShapes'
    BY <1>1, <2>6, <2>8 DEF DhFiledInv, DhShapes, DhElse
  <2>13. DhNew'
    <3>1. \A d \in Databases : d > dhMade => d # c
      BY <2>2
    <3>2. \A u \in Threads : dhThread'[u].on = dhThread[u].on
      BY <2>6 DEF DhElse, c
    <3> QED
      BY <1>1, <2>8, <3>1, <3>2 DEF DhFiledInv, DhNew
  <2>14. DhCarried'
    <3>1. \A u \in Threads : u # t => dhThread'[u] = dhThread[u]
      BY <2>6 DEF DhElse
    <3>2. c # 0
      BY <2>2, DhNumbers
    <3> QED
      BY <1>1, <2>3, <2>6, <3>1, <3>2 DEF DhFiledInv, DhCarried
  <2>15. DhOnce'
    <3>1. \A d, e \in Databases : dhActive'[d] \in DbTxs /\ dhActive'[d] = dhActive'[e] => d = e
      BY <2>10 DEF DhFiledInv, DhOnce
    <3>2. ASSUME NEW u \in Threads, NEW m \in DbTxs, DhOpener(u, m)'
          PROVE  /\ dhTable[m] = 0 /\ \A d \in Databases : dhActive'[d] # m
                 /\ \A w \in Threads : /\ ~DhFiler(w, m)' /\ ~DhUnfiler(w, m)' /\ ~DhUser(w, m)'
                                       /\ DhOpener(w, m)' => w = u
      <4>1. u # t /\ DhOpener(u, m)
        BY <2>11, <3>2, <2>r
      <4>2. m # n
        BY <2>9, <4>1
      <4>3. /\ dhTable[m] = 0 /\ \A d \in Databases : dhActive[d] # m
            /\ \A w \in Threads : /\ ~DhFiler(w, m) /\ ~DhUnfiler(w, m) /\ ~DhUser(w, m)
                                  /\ DhOpener(w, m) => w = u
        BY <4>1 DEF DhFiledInv, DhOnce
      <4> QED
        BY <2>10, <2>11, <4>2, <4>3, <2>r
    <3>3. ASSUME NEW m \in DbTxs, m > dhTxs
          PROVE  dhTable[m] = 0 /\ \A d \in Databases : dhActive'[d] # m
      <4>1. m # n
        BY <2>3, <3>3, DhNumbers DEF DhFiledInv, DhShapes
      <4> QED
        BY <2>10, <3>3, <4>1 DEF DhFiledInv, DhOnce
    <3> QED
      BY <1>1, <3>1, <3>2, <3>3 DEF DhOnce
  <2>16. DhFiling'
    <3>1. ASSUME NEW u \in Threads, NEW m \in DbTxs, DhFiler(u, m)'
          PROVE  /\ dhTable[m] = 0
                 /\ dhThread'[u].on \in dhOpen => dhActive'[dhThread'[u].on] = m
                 /\ \A d \in Databases : dhActive'[d] = m => d = dhThread'[u].on
                 /\ \A w \in Threads : ~DhUser(w, m)' /\ (DhFiler(w, m)' => w = u)
      <4>1. CASE u = t
        <5>1. m = n
          BY <2>11, <3>1, <4>1
        <5> QED
          BY <2>6, <2>8, <2>9, <2>10, <2>11, <4>1, <5>1, <2>r
      <4>2. CASE u # t
        <5>1. DhFiler(u, m) /\ dhThread'[u] = dhThread[u]
          BY <2>6, <3>1, <4>2, DhRolesKept DEF DhElse
        <5>2. m # n
          BY <2>9, <5>1
        <5>3. /\ dhTable[m] = 0 /\ (dhThread[u].on \in dhOpen => dhActive[dhThread[u].on] = m)
              /\ \A d \in Databases : dhActive[d] = m => d = dhThread[u].on
              /\ \A w \in Threads : ~DhUser(w, m) /\ (DhFiler(w, m) => w = u)
          BY <5>1 DEF DhFiledInv, DhFiling
        <5>4. dhThread[u].on \in Databases
          BY <5>1, DhOfCall DEF DhFiler
        <5> QED
          BY <2>10, <2>11, <5>1, <5>2, <5>3, <5>4, <2>r
      <4> QED
        BY <4>1, <4>2
    <3>2. ASSUME NEW u \in Threads, NEW m \in DbTxs, DhUnfiler(u, m)'
          PROVE  \A d \in Databases : dhActive'[d] # m
      <4>1. DhUnfiler(u, m)
        BY <2>11, <3>2, <2>r
      <4>2. m # n
        BY <2>9, <4>1
      <4> QED
        BY <2>10, <4>1, <4>2 DEF DhFiledInv, DhFiling
    <3> QED
      BY <1>1, <3>1, <3>2 DEF DhFiling
  <2>17. DhTabled'
    <3>1. ASSUME NEW m \in DbTxs, DhBetween(m) PROVE DhBetween(m)'
      BY <1>1, <2>6, <3>1, DhRolesKept DEF DhBetween, DhFiler, DhUnfiler
    <3>2. DhBetween(n)'
      BY <2>6 DEF DhBetween, DhFiler, n
    <3>3. dhOpen \subseteq Databases
      BY DhNumbers DEF DhFiledInv, DhShapes
    <3> SUFFICES ASSUME NEW d \in dhOpen, NEW m \in DbTxs, ~DhBetween(m)'
                 PROVE  dhTable[m] = d <=> dhActive'[d] = m
      BY <1>1 DEF DhTabled
    <3>4. m # n
      BY <2>6, <2>11 DEF DhBetween
    <3> QED
      BY <2>10, <3>1, <3>3, <3>4 DEF DhFiledInv, DhTabled
  <2>18. DhDropped'
    <3>1. \A u \in Threads : \A d : DhHas(u, d) => DhHas(u, d)'
      BY <2>6, DhRolesKept DEF DhHas, DhAt, c
    <3>2. \A d : ~DhHas(t, d)' => d # c
      BY <2>6 DEF DhHas, DhAt
    <3> SUFFICES ASSUME NEW d \in Databases, d \notin dhOpen, \A u \in Threads : ~DhHas(u, d)'
                 PROVE  ~dhSql'[d]
      BY <1>1 DEF DhDropped
    <3> QED
      BY <2>8, <3>1, <3>2 DEF DhFiledInv, DhDropped
  <2>19. DhRecorded'
    BY <2>3, <2>8 DEF DhFiledInv, DhRecorded
  <2> QED
    BY <2>12, <2>13, <2>14, <2>15, <2>16, <2>17, <2>18, <2>19 DEF DhFiledInv
<1> QED
  BY <1>2, <1>3 DEF DhTxOpen

\* A transaction with a handle ends, by its own call or by a closing.
LEMMA DhTakenOff ==
    ASSUME DhFiledInv, NEW t \in Threads, NEW c \in Databases, NEW n \in DbTxs,
           dhActive[c] = n, dhThread[t].at \in {"run", "close"}, dhThread[t].on = c,
           DhElse(t), dhThread'[t].at = "unfile", dhThread'[t].on = c, dhThread'[t].tx = n,
           UNCHANGED <<dhOpen, dhMade, dhTable, dhTxs>>,
           dhActive' = [dhActive EXCEPT ![c] = None], dhSql' = [dhSql EXCEPT ![c] = FALSE],
           c \notin dhOpen \/ DhUser(t, n)
    PROVE  DhFiledInv'
<1>1. /\ dhActive' \in [Databases -> 0..MaxDbTxs \cup {None}]
      /\ dhSql' \in [Databases -> BOOLEAN]
      /\ dhActive'[c] = None /\ ~dhSql'[c]
      /\ \A d \in Databases : d # c => dhActive'[d] = dhActive[d] /\ dhSql'[d] = dhSql[d]
  BY DhActiveAt
<1>2. \A d \in Databases, m \in DbTxs :
         /\ m # n => (dhActive'[d] = m <=> dhActive[d] = m)
         /\ dhActive'[d] # n
  BY <1>1, DhNumbers DEF DhFiledInv, DhOnce
<1>3. \A m \in DbTxs : /\ DhUnfiler(t, m)' <=> m = n
                       /\ ~DhOpener(t, m)' /\ ~DhFiler(t, m)' /\ ~DhUser(t, m)'
  BY DEF DhFiler, DhOpener, DhUnfiler, DhUser
<1>4. \A u \in Threads, m \in DbTxs : u # t =>
         /\ DhOpener(u, m)' <=> DhOpener(u, m)
         /\ DhFiler(u, m)' <=> DhFiler(u, m)
         /\ DhUnfiler(u, m)' <=> DhUnfiler(u, m)
         /\ DhUser(u, m)' <=> DhUser(u, m)
  BY DhRolesKept
<1>5. DhShapes'
  BY <1>1 DEF DhFiledInv, DhShapes, DhElse
<1>6. DhNew'
  <2>1. \A u \in Threads : dhThread'[u].on = dhThread[u].on
    BY DEF DhElse
  <2>2. \A d \in Databases : d > dhMade => dhActive'[d] = None /\ ~dhSql'[d]
    BY <1>1 DEF DhFiledInv, DhNew
  <2> QED
    BY <2>1, <2>2 DEF DhFiledInv, DhNew
<1>7. DhCarried'
  <2>1. \A u \in Threads : u # t => dhThread'[u] = dhThread[u]
    BY DEF DhElse
  <2>2. n \in 1..dhTxs /\ c # 0
    <3>1. ~(n > dhTxs) /\ dhTxs \in 0..MaxDbTxs
      BY DEF DhFiledInv, DhOnce, DhShapes
    <3> QED
      BY <3>1, DhNumbers DEF DbTxs
  <2> QED
    BY <2>1, <2>2 DEF DhFiledInv, DhCarried
<1>8. DhOnce'
  <2>1. \A d, e \in Databases : dhActive'[d] \in DbTxs /\ dhActive'[d] = dhActive'[e] => d = e
    BY <1>2 DEF DhFiledInv, DhOnce
  <2>2. ASSUME NEW u \in Threads, NEW m \in DbTxs, DhOpener(u, m)'
        PROVE  /\ dhTable[m] = 0 /\ \A d \in Databases : dhActive'[d] # m
               /\ \A w \in Threads : /\ ~DhFiler(w, m)' /\ ~DhUnfiler(w, m)' /\ ~DhUser(w, m)'
                                     /\ DhOpener(w, m)' => w = u
    <3>1. u # t /\ DhOpener(u, m)
      BY <1>3, <1>4, <2>2
    <3>2. /\ dhTable[m] = 0 /\ \A d \in Databases : dhActive[d] # m
          /\ \A w \in Threads : /\ ~DhFiler(w, m) /\ ~DhUnfiler(w, m) /\ ~DhUser(w, m)
                                /\ DhOpener(w, m) => w = u
      BY <3>1 DEF DhFiledInv, DhOnce
    <3> QED
      BY <1>2, <1>3, <1>4, <3>2
  <2>3. \A m \in DbTxs : m > dhTxs => dhTable[m] = 0 /\ \A d \in Databases : dhActive'[d] # m
    BY <1>2 DEF DhFiledInv, DhOnce
  <2> QED
    BY <2>1, <2>2, <2>3 DEF DhOnce
<1>9. DhFiling'
  <2>1. ASSUME NEW u \in Threads, NEW m \in DbTxs, DhFiler(u, m)'
        PROVE  /\ dhTable[m] = 0
               /\ dhThread'[u].on \in dhOpen => dhActive'[dhThread'[u].on] = m
               /\ \A d \in Databases : dhActive'[d] = m => d = dhThread'[u].on
               /\ \A w \in Threads : ~DhUser(w, m)' /\ (DhFiler(w, m)' => w = u)
    <3>1. u # t /\ DhFiler(u, m) /\ dhThread'[u] = dhThread[u]
      BY <1>3, <1>4, <2>1 DEF DhElse
    <3>2. /\ dhTable[m] = 0 /\ (dhThread[u].on \in dhOpen => dhActive[dhThread[u].on] = m)
          /\ \A d \in Databases : dhActive[d] = m => d = dhThread[u].on
          /\ \A w \in Threads : ~DhUser(w, m) /\ (DhFiler(w, m) => w = u)
      BY <3>1 DEF DhFiledInv, DhFiling
    <3>3. dhThread[u].on \in Databases
      BY <3>1, DhOfCall DEF DhFiler
    <3>4. dhThread[u].on \in dhOpen => m # n
      BY <3>2
    <3> QED
      BY <1>2, <1>3, <1>4, <3>1, <3>2, <3>3, <3>4
  <2>2. ASSUME NEW u \in Threads, NEW m \in DbTxs, DhUnfiler(u, m)'
        PROVE  \A d \in Databases : dhActive'[d] # m
    BY <1>2, <1>3, <1>4, <2>2 DEF DhFiledInv, DhFiling
  <2> QED
    BY <2>1, <2>2 DEF DhFiling
<1>10. DhTabled'
  <2>1. ASSUME NEW m \in DbTxs, DhBetween(m) PROVE DhBetween(m)'
    <3>1. PICK u \in Threads : DhFiler(u, m) \/ DhUnfiler(u, m)
      BY <2>1 DEF DhBetween
    <3>2. u # t
      BY <3>1 DEF DhFiler, DhUnfiler
    <3> QED
      BY <1>4, <3>1, <3>2 DEF DhBetween
  <2>2. dhOpen \subseteq Databases
    BY DhNumbers DEF DhFiledInv, DhShapes
  <2> SUFFICES ASSUME NEW d \in dhOpen, NEW m \in DbTxs, ~DhBetween(m)'
               PROVE  dhTable[m] = d <=> dhActive'[d] = m
    BY DEF DhTabled
  <2>3. m # n
    BY <1>3 DEF DhBetween
  <2> QED
    BY <1>2, <2>1, <2>2, <2>3 DEF DhFiledInv, DhTabled
<1>11. DhDropped'
  <2>1. \A u \in Threads, d \in Databases : DhHas(u, d) => DhHas(u, d)'
    BY DhRolesKept DEF DhHas, DhAt
  <2> SUFFICES ASSUME NEW d \in Databases, d \notin dhOpen, \A u \in Threads : ~DhHas(u, d)'
               PROVE  ~dhSql'[d]
    BY DEF DhDropped
  <2> QED
    BY <1>1, <2>1 DEF DhFiledInv, DhDropped
<1>12. DhRecorded'
  BY <1>1 DEF DhFiledInv, DhRecorded
<1> QED
  BY <1>5, <1>6, <1>7, <1>8, <1>9, <1>10, <1>11, <1>12 DEF DhFiledInv

LEMMA DhEndKept ==
    ASSUME DhFiledInv, NEW t \in Threads, DhEnd(t)
    PROVE  DhFiledInv'
<1> DEFINE c == dhThread[t].on
<1> DEFINE n == dhThread[t].tx
<1>1. /\ dhThread[t].at = "run" /\ UNCHANGED <<dhOpen, dhMade, dhTable, dhTxs>>
      /\ dhThread[t].call \in {"commit", "rollback", "tx commit", "tx rollback"}
  BY DEF DhEnd, DhAt, DhRunFrame, dhFiles
<1>2. c \in Databases
  BY <1>1, DhOfCall
<1>3. CASE DhGo(t, "leave") /\ UNCHANGED <<dhActive, dhData>>
  <2>1. DhMovedTo(t, "leave")
    BY <1>3, DhGoes DEF DhFiledInv, DhPlaces
  <2> QED
    BY <1>1, <1>3, <2>1, DhQuiet DEF dhData, DhFiledInv, DhShapes
<1>4. CASE /\ dhActive[c] = n /\ dhSql' = [dhSql EXCEPT ![c] = FALSE]
           /\ dhActive' = [dhActive EXCEPT ![c] = None]
           /\ DhGo(t, IF n = 0 THEN "leave" ELSE "unfile")
  <2>1. CASE n = 0
    <3>1. DhMovedTo(t, "leave")
      BY <1>4, <2>1, DhGoes DEF DhFiledInv, DhPlaces
    <3>2. n \notin DbTxs /\ None \notin DbTxs
      BY <2>1, DhNumbers
    <3> QED
      BY <1>1, <1>2, <1>4, <3>1, <3>2, DhOwnStep
  <2>2. CASE n # 0
    <3>1. DhMovedTo(t, "unfile")
      BY <1>4, <2>2, DhGoes DEF DhFiledInv, DhPlaces
    <3>2. n \in DbTxs
      BY <2>2, DhTyped, DhNumbers DEF DhFiledInv
    <3>3. DhUser(t, n)
      BY <1>1, <2>2 DEF DhFiledInv, DhCarried, DhUser, TxCalls
    <3> QED
      BY <1>1, <1>2, <1>4, <3>1, <3>2, <3>3, DhTakenOff DEF DhMovedTo
  <2> QED
    BY <2>1, <2>2
<1>5. CASE DhGo(t, "leave") /\ dhActive' = dhActive /\ dhSql' = [dhSql EXCEPT ![c] = FALSE]
  <2>1. DhMovedTo(t, "leave")
    BY <1>5, DhGoes DEF DhFiledInv, DhPlaces
  <2>2. dhSql \in [Databases -> BOOLEAN]
    BY DEF DhFiledInv, DhShapes
  <2>3. dhSql' \in [Databases -> BOOLEAN] /\ \A d \in Databases : dhSql'[d] => dhSql[d]
    BY <1>5, <2>2
  <2> QED
    BY <1>1, <1>5, <2>1, <2>3, DhQuiet
<1> QED
  BY <1>3, <1>4, <1>5 DEF DhEnd, SqlEnds, SqlFalls

\* The table follows the record.
LEMMA DhTableStep ==
    ASSUME DhFiledInv, NEW t \in Threads, NEW n \in DbTxs, NEW c \in 0..MaxConnects,
           DhFiler(t, n) \/ DhUnfiler(t, n), DhMovedTo(t, "leave"),
           UNCHANGED <<dhOpen, dhMade, dhTxs, dhActive, dhSql>>,
           dhTable' = [dhTable EXCEPT ![n] = c],
           \/ DhFiler(t, n) /\ c = dhThread[t].on
           \/ DhUnfiler(t, n) /\ c = 0
    PROVE  DhFiledInv'
<1>1. /\ dhTable' \in [DbTxs -> 0..MaxConnects] /\ dhTable'[n] = c
      /\ \A m \in DbTxs : m # n => dhTable'[m] = dhTable[m]
  BY DEF DhFiledInv, DhShapes
<1>2. /\ DhElse(t) /\ dhThread'[t].at = "leave" /\ dhThread'[t].on = dhThread[t].on
      /\ dhThread[t].at \in {"file", "unfile"} /\ dhThread[t].tx = n
  BY DEF DhMovedTo, DhFiler, DhUnfiler
<1>3. /\ dhThread[t].on \in Databases /\ ~(dhThread[t].on > dhMade) /\ n \in 1..dhTxs
  BY <1>2, DhOfCall DEF DhFiledInv, DhCarried
<1>4. \A u \in Threads, m \in DbTxs : u # t =>
         /\ DhOpener(u, m)' <=> DhOpener(u, m)
         /\ DhFiler(u, m)' <=> DhFiler(u, m)
         /\ DhUnfiler(u, m)' <=> DhUnfiler(u, m)
         /\ DhUser(u, m)' <=> DhUser(u, m)
  BY <1>2, DhRolesKept
<1>5. \A m \in DbTxs : ~DhOpener(t, m)' /\ ~DhFiler(t, m)' /\ ~DhUnfiler(t, m)' /\ ~DhUser(t, m)'
  BY <1>2, DhRolesKept
<1>6. \A u \in Threads : u # t => dhThread'[u] = dhThread[u]
  BY <1>2 DEF DhElse
<1>7. DhShapes'
  BY <1>1, <1>2 DEF DhFiledInv, DhShapes, DhElse
<1>8. DhNew'
  <2>1. \A d \in Databases : d > dhMade => d # c
    BY <1>3, DhNumbers
  <2>2. \A d \in Databases, m \in DbTxs : d > dhMade => dhTable'[m] # d
    BY <1>1, <2>1 DEF DhFiledInv, DhNew
  <2>3. \A u \in Threads : dhThread'[u].on = dhThread[u].on
    BY <1>2, <1>6
  <2> QED
    BY <2>2, <2>3 DEF DhFiledInv, DhNew
<1>9. DhCarried'
  BY <1>2, <1>6 DEF DhFiledInv, DhCarried
<1>10. DhOnce'
  <2>1. ASSUME NEW u \in Threads, NEW m \in DbTxs, DhOpener(u, m)'
        PROVE  /\ dhTable'[m] = 0 /\ \A d \in Databases : dhActive[d] # m
               /\ \A w \in Threads : /\ ~DhFiler(w, m)' /\ ~DhUnfiler(w, m)' /\ ~DhUser(w, m)'
                                     /\ DhOpener(w, m)' => w = u
    <3>1. u # t /\ DhOpener(u, m)
      BY <1>4, <1>5, <2>1
    <3>2. /\ dhTable[m] = 0 /\ \A d \in Databases : dhActive[d] # m
          /\ \A w \in Threads : /\ ~DhFiler(w, m) /\ ~DhUnfiler(w, m) /\ ~DhUser(w, m)
                                /\ DhOpener(w, m) => w = u
      BY <3>1 DEF DhFiledInv, DhOnce
    <3>3. m # n
      BY <3>2
    <3> QED
      BY <1>1, <1>4, <1>5, <3>1, <3>2, <3>3
  <2>2. ASSUME NEW m \in DbTxs, m > dhTxs
        PROVE  dhTable'[m] = 0 /\ \A d \in Databases : dhActive[d] # m
    <3>1. m # n
      BY <1>3, <2>2, DhNumbers DEF DhFiledInv, DhShapes
    <3> QED
      BY <1>1, <2>2, <3>1 DEF DhFiledInv, DhOnce
  <2> QED
    BY <2>1, <2>2 DEF DhFiledInv, DhOnce
<1>11. DhFiling'
  <2>1. ASSUME NEW u \in Threads, NEW m \in DbTxs, DhFiler(u, m)'
        PROVE  /\ dhTable'[m] = 0
               /\ dhThread'[u].on \in dhOpen => dhActive[dhThread'[u].on] = m
               /\ \A d \in Databases : dhActive[d] = m => d = dhThread'[u].on
               /\ \A w \in Threads : ~DhUser(w, m)' /\ (DhFiler(w, m)' => w = u)
    <3>1. u # t /\ DhFiler(u, m) /\ dhThread'[u] = dhThread[u]
      BY <1>4, <1>5, <1>6, <2>1
    <3>2. /\ dhTable[m] = 0 /\ (dhThread[u].on \in dhOpen => dhActive[dhThread[u].on] = m)
          /\ \A d \in Databases : dhActive[d] = m => d = dhThread[u].on
          /\ \A w \in Threads : ~DhUser(w, m) /\ (DhFiler(w, m) => w = u)
      BY <3>1 DEF DhFiledInv, DhFiling
    <3>3. dhTable'[m] = 0
      BY <1>1, <3>1, <3>2
    <3> QED
      BY <1>4, <1>5, <3>1, <3>2, <3>3
  <2>2. ASSUME NEW u \in Threads, NEW m \in DbTxs, DhUnfiler(u, m)'
        PROVE  \A d \in Databases : dhActive[d] # m
    BY <1>4, <1>5, <2>2 DEF DhFiledInv, DhFiling
  <2> QED
    BY <2>1, <2>2 DEF DhFiling
<1>12. DhTabled'
  <2>1. dhOpen \subseteq Databases
    BY DhNumbers DEF DhFiledInv, DhShapes
  <2> SUFFICES ASSUME NEW d \in dhOpen, NEW m \in DbTxs, ~DhBetween(m)'
               PROVE  dhTable'[m] = d <=> dhActive[d] = m
    BY DEF DhTabled
  <2>2. CASE m = n
    <3>1. CASE DhFiler(t, n)
      BY <1>1, <2>1, <2>2, <3>1 DEF DhFiledInv, DhFiling, DhUnfiler, DhFiler
    <3>2. CASE DhUnfiler(t, n)
      BY <1>1, <2>1, <2>2, <3>2, DhNumbers DEF DhFiledInv, DhFiling, DhUnfiler, DhFiler
    <3> QED
      BY <3>1, <3>2
  <2>3. CASE m # n
    <3>1. ~DhBetween(m)
      <4> SUFFICES ASSUME NEW u \in Threads, DhFiler(u, m) \/ DhUnfiler(u, m) PROVE FALSE
        BY DEF DhBetween
      <4>1. u # t
        BY <1>2, <2>3 DEF DhFiler, DhUnfiler
      <4> QED
        BY <1>4, <4>1 DEF DhBetween
    <3> QED
      BY <1>1, <2>3, <3>1 DEF DhFiledInv, DhTabled
  <2> QED
    BY <2>2, <2>3
<1>13. DhDropped'
  <2>1. \A u \in Threads, d \in Databases : DhHas(u, d) => DhHas(u, d)'
    BY <1>2, <1>6 DEF DhHas, DhAt
  <2> QED
    BY <2>1 DEF DhFiledInv, DhDropped
<1> QED
  BY <1>7, <1>8, <1>9, <1>10, <1>11, <1>12, <1>13 DEF DhFiledInv, DhRecorded

LEMMA DhFilesKept ==
    ASSUME DhFiledInv, NEW t \in Threads, DhFile(t) \/ DhUnfile(t)
    PROVE  DhFiledInv'
<1> DEFINE n == dhThread[t].tx
<1>1. /\ dhThread[t].at \in {"file", "unfile"} /\ DhMovedTo(t, "leave")
      /\ UNCHANGED <<dhOpen, dhMade, dhTxs, dhActive, dhSql>>
  <2>1. DhGo(t, "leave") /\ "leave" \in DhPlaces
    BY DEF DhFile, DhUnfile, DhPlaces
  <2>2. DhMovedTo(t, "leave")
    BY <2>1, DhGoes DEF DhFiledInv
  <2> QED
    BY <2>2 DEF DhFile, DhUnfile, DhAt, dhFiles, dhData
<1>2. n \in DbTxs
  <2>1. n \in 1..dhTxs /\ dhTxs \in 0..MaxDbTxs
    BY <1>1 DEF DhFiledInv, DhCarried, DhShapes
  <2> QED
    BY <2>1, DhNumbers
<1>3. dhThread[t].on \in 0..MaxConnects /\ 0 \in 0..MaxConnects
  BY DhTyped, DbHandlesAssumption DEF DhFiledInv
<1>4. CASE DhFile(t)
  <2>1. DhFiler(t, n) /\ dhTable' = [dhTable EXCEPT ![n] = dhThread[t].on]
    BY <1>4 DEF DhFile, DhFiler, DhAt
  <2> QED
    BY <1>1, <1>2, <1>3, <2>1, DhTableStep
<1>5. CASE DhUnfile(t)
  <2>1. DhUnfiler(t, n) /\ dhTable' = [dhTable EXCEPT ![n] = 0]
    BY <1>5 DEF DhUnfile, DhUnfiler, DhAt
  <2> QED
    BY <1>1, <1>2, <1>3, <2>1, DhTableStep
<1> QED
  BY <1>4, <1>5

\* Closing: the handle goes, and then what is open is rolled back.
LEMMA DhCloseKept ==
    ASSUME DhFiledInv, NEW t \in Threads, DhClose(t)
    PROVE  DhFiledInv'
<1>1. PICK c \in dhOpen :
          /\ dhOpen' = dhOpen \ {c}
          /\ dhThread' = [dhThread EXCEPT ![t] = [DhIdle EXCEPT !.at = "close", !.on = c]]
  BY DEF DhClose
<1>2. /\ dhThread[t].at = "idle" /\ UNCHANGED <<dhMade, dhTable, dhTxs, dhActive, dhSql>>
      /\ c \in Databases /\ c \in 0..MaxConnects /\ ~(c > dhMade) /\ c # 0
  BY DhNumbers DEF DhClose, DhAt, dhData, DhFiledInv, DhShapes
<1> DEFINE r == [at |-> "close", call |-> "none", on |-> c, tx |-> 0]
<1>3. r \in DhCallers /\ r.at = "close" /\ r.on = c
  BY <1>2, DbHandlesAssumption DEF DhCallers, DhPlaces, DhCallNames
<1>4. [DhIdle EXCEPT !.at = "close", !.on = c] = r
  <2>1. [DhIdle EXCEPT !.at = "close"] = [at |-> "close", call |-> "none", on |-> 0, tx |-> 0]
    BY DEF DhIdle
  <2>2. [[at |-> "close", call |-> "none", on |-> 0, tx |-> 0] EXCEPT !.on = c] = r
    OBVIOUS
  <2> QED
    BY <2>1, <2>2
<1> HIDE DEF r
<1>5. DhElse(t) /\ dhThread'[t] = r
  BY <1>1, <1>3, <1>4, DhBecomes DEF DhFiledInv
<1>6. \A u \in Threads : u # t => dhThread'[u] = dhThread[u]
  BY <1>5 DEF DhElse
<1>7. \A u \in Threads, m \in DbTxs :
         /\ DhOpener(u, m)' => u # t /\ DhOpener(u, m)
         /\ DhFiler(u, m)' <=> DhFiler(u, m)
         /\ DhUnfiler(u, m)' <=> DhUnfiler(u, m)
         /\ DhUser(u, m)' => DhUser(u, m)
  BY <1>2, <1>3, <1>5, <1>6 DEF DhOpener, DhFiler, DhUnfiler, DhUser
<1>8. DhShapes' /\ DhNew'
  BY <1>1, <1>2, <1>3, <1>5, <1>6 DEF DhFiledInv, DhShapes, DhNew, DhElse
<1>9. DhCarried'
  BY <1>1, <1>2, <1>3, <1>5, <1>6 DEF DhFiledInv, DhCarried
<1>10. DhOnce'
  BY <1>2, <1>7 DEF DhFiledInv, DhOnce
<1>11. DhFiling'
  <2>1. \A u \in Threads, m \in DbTxs : DhFiler(u, m)' => dhThread'[u] = dhThread[u]
    BY <1>3, <1>5, <1>6 DEF DhFiler
  <2>2. ASSUME NEW u \in Threads, NEW m \in DbTxs, DhFiler(u, m)'
        PROVE  /\ dhTable[m]' = 0 /\ (dhThread[u].on' \in dhOpen' => dhActive[dhThread[u].on]' = m)
               /\ \A d \in Databases : dhActive[d]' = m => d = dhThread[u].on'
               /\ \A v \in Threads : ~DhUser(v, m)' /\ (DhFiler(v, m)' => v = u)
    <3>1. DhFiler(u, m) /\ dhThread'[u] = dhThread[u]
      BY <1>7, <2>1, <2>2
    <3>2. /\ dhTable[m] = 0 /\ (dhThread[u].on \in dhOpen => dhActive[dhThread[u].on] = m)
          /\ \A d \in Databases : dhActive[d] = m => d = dhThread[u].on
          /\ \A v \in Threads : ~DhUser(v, m) /\ (DhFiler(v, m) => v = u)
      BY <3>1 DEF DhFiledInv, DhFiling
    <3>3. \A v \in Threads : ~DhUser(v, m)' /\ (DhFiler(v, m)' => v = u)
      BY <1>7, <3>2
    <3>4. dhTable'[m] = 0 /\ \A d \in Databases : dhActive'[d] = m => d = dhThread'[u].on
      BY <1>2, <3>1, <3>2
    <3>5. dhThread'[u].on \in dhOpen' => dhActive'[dhThread'[u].on] = m
      BY <1>1, <1>2, <3>1, <3>2
    <3> QED
      BY <3>3, <3>4, <3>5
  <2>3. ASSUME NEW u \in Threads, NEW m \in DbTxs, DhUnfiler(u, m)', NEW d \in Databases
        PROVE  dhActive'[d] # m
    <3>1. DhUnfiler(u, m)
      BY <1>7, <2>3
    <3> QED
      BY <1>2, <3>1 DEF DhFiledInv, DhFiling
  <2> QED
    BY <2>2, <2>3 DEF DhFiling
<1>12. DhTabled'
  BY <1>1, <1>2, <1>7 DEF DhFiledInv, DhTabled, DhBetween
<1>13. DhDropped'
  <2> SUFFICES ASSUME NEW d \in Databases, d \notin dhOpen', \A u \in Threads : ~DhHas(u, d)'
               PROVE  ~dhSql[d]
    BY <1>2 DEF DhDropped
  <2>1. d # c
    BY <1>3, <1>5 DEF DhHas, DhAt
  <2>2. \A u \in Threads : ~DhHas(u, d)
    BY <1>2, <1>6, DhNumbers DEF DhHas, DhAt, DhFiledInv, DhCarried
  <2> QED
    BY <1>1, <2>1, <2>2 DEF DhFiledInv, DhDropped
<1> QED
  BY <1>2, <1>8, <1>9, <1>10, <1>11, <1>12, <1>13 DEF DhFiledInv, DhRecorded

LEMMA DhRollsBackKept ==
    ASSUME DhFiledInv, NEW t \in Threads, DhRollsBack(t)
    PROVE  DhFiledInv'
<1> DEFINE c == dhThread[t].on
<1>1. /\ dhThread[t].at = "close" /\ c \notin dhOpen /\ c \in Databases
      /\ UNCHANGED <<dhOpen, dhMade, dhTable, dhTxs>>
      /\ dhActive' = [dhActive EXCEPT ![c] = None]
  BY DhOfCall DEF DhRollsBack, DhAt, DhRunFrame, dhFiles, DhFiledInv, DhCarried
<1>2. dhSql' = [dhSql EXCEPT ![c] = FALSE]
  <2>1. dhSql \in [Databases -> BOOLEAN]
    BY DEF DhFiledInv, DhShapes
  <2>2. CASE dhSql[c]
    BY <2>2 DEF DhRollsBack, SqlEnds
  <2>3. CASE ~dhSql[c]
    <3>1. dhSql' = dhSql
      BY <2>3 DEF DhRollsBack, dhData
    <3> QED
      BY <1>1, <2>1, <2>3, <3>1
  <2> QED
    BY <2>2, <2>3
<1>3. CASE dhActive[c] \in {None, 0}
  <2>1. DhGo(t, "leave") /\ "leave" \in DhPlaces
    BY <1>3 DEF DhRollsBack, DhGo, DhPlaces
  <2>2. DhMovedTo(t, "leave")
    BY <2>1, DhGoes DEF DhFiledInv
  <2>3. dhActive[c] \notin DbTxs /\ None \notin DbTxs
    BY <1>3, DhNumbers
  <2> QED
    BY <1>1, <1>2, <2>2, <2>3, DhOwnStep
<1>4. CASE dhActive[c] \notin {None, 0}
  <2> DEFINE n == dhActive[c]
  <2>1. n \in DbTxs /\ n \in 0..MaxDbTxs
    <3>1. n \in 0..MaxDbTxs \cup {None}
      BY <1>1 DEF DhFiledInv, DhShapes
    <3> QED
      BY <1>4, <3>1, DhNumbers
  <2> DEFINE r == [dhThread[t] EXCEPT !.at = "unfile", !.tx = n]
  <2>2. dhThread' = [dhThread EXCEPT ![t] = r]
    BY <1>4 DEF DhRollsBack
  <2>3. dhThread[t] \in DhCallers
    BY DhTyped DEF DhFiledInv
  <2> HIDE DEF n
  <2>4. r \in DhCallers /\ r.at = "unfile" /\ r.on = c /\ r.tx = n
    BY <2>1, <2>3 DEF DhCallers, DhPlaces
  <2> HIDE DEF r
  <2>5. DhElse(t) /\ dhThread'[t] = r
    BY <2>2, <2>4, DhBecomes DEF DhFiledInv
  <2>6. dhActive[c] = n
    BY DEF n
  <2> QED
    BY <1>1, <1>2, <2>1, <2>4, <2>5, <2>6, DhTakenOff
<1> QED
  BY <1>3, <1>4

\* Whoever leaves last drops a closed connection, with what is open on it.
LEMMA DhLeaveKept ==
    ASSUME DhFiledInv, NEW t \in Threads, DhLeave(t)
    PROVE  DhFiledInv'
<1> DEFINE c == dhThread[t].on
<1>1. /\ dhThread[t].at = "leave" /\ UNCHANGED <<dhOpen, dhMade, dhTable, dhTxs, dhActive>>
      /\ dhThread' = [dhThread EXCEPT ![t] = DhIdle] /\ c \in Databases
  BY DhOfCall DEF DhLeave, DhAt, dhFiles
<1>2. DhIdle \in DhCallers /\ DhIdle.at = "idle" /\ DhIdle.on = 0
  BY DbHandlesAssumption DEF DhIdle, DhCallers, DhPlaces, DhCallNames
<1>3. /\ DhElse(t) /\ dhThread'[t].at = "idle" /\ dhThread'[t].on = 0
      /\ \A u \in Threads : u # t => dhThread'[u] = dhThread[u]
  BY <1>1, <1>2, DhBecomes DEF DhFiledInv, DhElse
<1>4. /\ dhSql' = dhSql \/ dhSql' = [dhSql EXCEPT ![c] = FALSE]
      /\ c \notin dhOpen /\ (\A u \in Threads \ {t} : ~DhHas(u, c)) /\ dhSql[c] =>
            dhSql' = [dhSql EXCEPT ![c] = FALSE]
  BY DEF DhLeave, SqlEnds, dhData
<1>5. /\ dhSql' \in [Databases -> BOOLEAN] /\ \A d \in Databases : dhSql'[d] => dhSql[d]
      /\ c \notin dhOpen /\ (\A u \in Threads \ {t} : ~DhHas(u, c)) => ~dhSql'[c]
  <2>1. dhSql \in [Databases -> BOOLEAN]
    BY DEF DhFiledInv, DhShapes
  <2> HIDE DEF c
  <2>2. dhSql' \in [Databases -> BOOLEAN] /\ \A d \in Databases : dhSql'[d] => dhSql[d]
    BY <1>1, <1>4, <2>1
  <2> QED
    BY <1>1, <1>4, <2>1, <2>2
<1> HIDE DEF c
<1>6. \A u \in Threads, m \in DbTxs :
         /\ DhOpener(u, m)' => DhOpener(u, m)
         /\ DhFiler(u, m)' <=> DhFiler(u, m)
         /\ DhUnfiler(u, m)' <=> DhUnfiler(u, m)
         /\ DhUser(u, m)' => DhUser(u, m)
  BY <1>1, <1>3 DEF DhOpener, DhFiler, DhUnfiler, DhUser
<1>7. DhShapes'
  BY <1>1, <1>3, <1>5 DEF DhFiledInv, DhShapes, DhElse
<1>8. DhNew'
  BY <1>1, <1>3, <1>5, DhNumbers DEF DhFiledInv, DhNew
<1>9. DhCarried'
  BY <1>1, <1>3 DEF DhFiledInv, DhCarried
<1>10. DhOnce'
  BY <1>1, <1>6 DEF DhFiledInv, DhOnce
<1>11. DhFiling'
  <2>1. \A u \in Threads, m \in DbTxs : DhFiler(u, m)' => dhThread'[u] = dhThread[u]
    BY <1>3 DEF DhFiler
  <2> QED
    BY <1>1, <1>6, <2>1 DEF DhFiledInv, DhFiling
<1>12. DhTabled'
  BY <1>1, <1>6 DEF DhFiledInv, DhTabled, DhBetween
<1>13. DhDropped'
  <2> SUFFICES ASSUME NEW d \in Databases, d \notin dhOpen, \A u \in Threads : ~DhHas(u, d)'
               PROVE  ~dhSql'[d]
    BY <1>1 DEF DhDropped
  <2>1. \A u \in Threads \ {t} : ~DhHas(u, d)
    BY <1>3, DhRolesKept
  <2>2. CASE d = c
    BY <1>5, <2>1, <2>2
  <2>3. CASE d # c
    <3>1. \A u \in Threads : ~DhHas(u, d)
      BY <2>1, <2>3 DEF DhHas, c
    <3> QED
      BY <1>5, <3>1 DEF DhFiledInv, DhDropped
  <2> QED
    BY <2>2, <2>3
<1> QED
  BY <1>1, <1>5, <1>7, <1>8, <1>9, <1>10, <1>11, <1>12, <1>13 DEF DhFiledInv, DhRecorded

LEMMA DhFiledNext ==
    ASSUME DhFiledInv, [DhNext]_dhVars
    PROVE  DhFiledInv'
<1>1. CASE UNCHANGED dhVars
  <2>1. UNCHANGED <<dhOpen, dhMade, dhTable, dhTxs, dhActive, dhSql, dhThread>>
    BY <1>1 DEF dhVars
  <2> QED
    BY <2>1 DEF DhFiledInv, DhShapes, DhNew, DhCarried, DhOnce, DhFiling, DhRecorded, DhTabled,
       DhDropped, DhOpener, DhFiler, DhUnfiler, DhUser, DhBetween, DhHas, DhAt
<1> QED
  BY <1>1, DhConnectKept, DhLookupKept, DhTxLookupKept, DhTxFindsKept, DhBeginKept, DhTxOpenKept,
     DhExecutesKept, DhEndKept, DhFilesKept, DhCloseKept, DhRollsBackKept, DhLeaveKept DEF DhNext

\* On an open connection the transaction SQLite has open is the one on record,
\* and the one on record is in the table, however many threads begin, end and
\* close; a closed connection everybody has let go of has none open
\* (database_ffi.rs:244).
THEOREM TransactionsStayFiled == DhInit /\ [][DhNext]_dhVars => []TransactionsFiled
<1>1. DhFiledInv /\ [DhNext]_dhVars => DhFiledInv'
  BY DhFiledNext
<1>2. ASSUME DhFiledInv PROVE TransactionsFiled
  <2>1. \A n : DhBetween(n) <=> \E t \in Threads :
            dhThread[t].at \in {"file", "unfile"} /\ dhThread[t].tx = n
    BY DEF DhBetween, DhFiler, DhUnfiler
  <2> QED
    BY <1>2, <2>1 DEF DhFiledInv, DhRecorded, DhTabled, DhDropped, TransactionsFiled
<1> QED
  BY <1>1, <1>2, DhFiledInit, PTL

-----------------------------------------------------------------------------
LEMMA DhKeepsInit == DhInit => DhKeeps
<1> SUFFICES ASSUME DhInit PROVE DhKeeps
  OBVIOUS
<1>1. DhOnRecord
  BY DhNumbers DEF DhInit, DhOnRecord
<1>2. DhWritten
  BY DEF DhInit, DhWritten
<1>3. DhAhead /\ DhWhole
  BY DEF DhInit, DhAhead, DhSpent, DhWhole
<1> QED
  BY <1>1, <1>2, <1>3 DEF DhKeeps

\* Nobody comes to a connection that has a transaction, or to a transaction.
DhNoNearer ==
    /\ \A c \in Databases : DhReached(c)' => DhReached(c) \/ dhActive[c] = None
    /\ \A n \in DbTxs : DhUnborn(n)' => DhUnborn(n)

\* A number still to begin is on record nowhere.
LEMMA DhUnbornOff ==
    ASSUME DhFiledInv
    PROVE  \A n \in DbTxs, c \in Databases : DhUnborn(n) => dhActive[c] # n
  BY DEF DhFiledInv, DhOnce, DhUnborn

\* A thread at work on a connection reaches no other.
LEMMA DhOwnReach ==
    ASSUME NEW t \in Threads, DhElse(t), dhOpen' \subseteq dhOpen, dhTxs' = dhTxs,
           \A c \in Databases : DhHas(t, c)' => DhReached(c),
           \A n \in DbTxs : DhOpener(t, n)' => DhOpener(t, n)
    PROVE  DhNoNearer
<1>1. ASSUME NEW c \in Databases, DhReached(c)' PROVE DhReached(c)
  <2>1. CASE c \in dhOpen'
    BY <2>1 DEF DhReached
  <2>2. CASE \E u \in Threads : DhHas(u, c)'
    <3>1. PICK u \in Threads : DhHas(u, c)'
      BY <2>2
    <3>2. u # t => DhHas(u, c)
      BY <3>1, DhRolesKept
    <3> QED
      BY <3>1, <3>2 DEF DhReached
  <2> QED
    BY <1>1, <2>1, <2>2 DEF DhReached
<1>2. ASSUME NEW n \in DbTxs, DhUnborn(n)' PROVE DhUnborn(n)
  <2>1. \A u \in Threads : DhOpener(u, n)' => DhOpener(u, n)
    BY DhRolesKept
  <2> QED
    BY <1>2, <2>1 DEF DhUnborn
<1> QED
  BY <1>1, <1>2 DEF DhNoNearer

\* The move after a call: to "leave", or with its number to the table.
LEMMA DhOnReach ==
    ASSUME DhFiledInv, NEW t \in Threads, DhElse(t), dhThread[t].at # "idle", dhThread[t].at # "found",
           dhThread'[t].on = dhThread[t].on, dhThread'[t].at # "run",
           dhOpen' = dhOpen, dhTxs' = dhTxs
    PROVE  DhNoNearer /\ DhReached(dhThread[t].on)
<1>1. dhThread[t].on \in Databases /\ DhHas(t, dhThread[t].on)
  BY DhOfCall
<1>2. DhReached(dhThread[t].on)
  BY <1>1 DEF DhReached
<1>3. \A c \in Databases : DhHas(t, c)' => DhReached(c)
  BY <1>2 DEF DhHas
<1>4. \A n \in DbTxs : ~DhOpener(t, n)'
  BY DEF DhOpener
<1> QED
  BY <1>2, <1>3, <1>4, DhOwnReach

\* Steps that begin and end nothing: they may take off the record what SQLite
\* has not open, and what they write is of a transaction it rolled back.
LEMMA DhKeepsQuiet ==
    ASSUME DhKeeps, DhNoNearer, UNCHANGED <<dhSql, dhPending, dhLost, dhCommitted, dhFell>>,
           \A c \in Databases : dhActive'[c] = dhActive[c] \/ (dhActive'[c] = None /\ ~dhSql[c]),
           dhKept \subseteq dhKept' /\ dhKept' \subseteq dhKept \cup dhFell
    PROVE  DhKeeps'
<1>0. \A n \in DbTxs, c \in Databases :
         /\ dhActive'[c] = n => dhActive[c] = n
         /\ dhActive[c] = n => dhActive[c] # None
  BY DhNumbers
<1>1. DhOnRecord'
  BY <1>0 DEF DhKeeps, DhOnRecord, DhNoNearer
<1>2. DhWritten' /\ DhWhole'
  BY DEF DhKeeps, DhWritten, DhWhole
<1>3. DhAhead'
  <2>1. DhSpent' = DhSpent
    BY DEF DhSpent
  <2> QED
    BY <1>0, <2>1 DEF DhKeeps, DhAhead, DhNoNearer
<1> QED
  BY <1>1, <1>2, <1>3 DEF DhKeeps

\* A transaction writes on the connection it is on record at.
LEMMA DhKeepsWrite ==
    ASSUME DhKeeps, DhNoNearer, NEW c \in Databases, NEW n \in DbTxs,
           dhActive[c] = n, dhSql[c],
           dhPending' = [dhPending EXCEPT ![c] = dhPending[c] \cup {n}],
           UNCHANGED <<dhActive, dhSql, dhKept, dhLost, dhCommitted, dhFell>>
    PROVE  DhKeeps'
<1>1. DhOnRecord'
  BY DhNumbers DEF DhKeeps, DhOnRecord, DhNoNearer
<1>2. DhWhole'
  BY DEF DhKeeps, DhWhole
<1>3. dhPending \in [Databases -> SUBSET DbTxs]
  BY DEF DhKeeps, DhWritten
<1>4. DhWritten'
  <2>1. dhPending' \in [Databases -> SUBSET DbTxs]
    BY <1>3
  <2>2. \A d \in Databases, m \in DbTxs : m \in dhPending'[d] => m \in dhPending[d] \/ (d = c /\ m = n)
    BY <1>3
  <2> QED
    BY <2>1, <2>2 DEF DhKeeps, DhWritten
<1>5. DhAhead'
  <2>1. DhSpent' = DhSpent
    BY DEF DhSpent
  <2>2. \A m \in DbTxs, d \in Databases : dhActive[d] = m => dhActive[d] # None
    BY DhNumbers
  <2> QED
    BY <2>1, <2>2 DEF DhKeeps, DhAhead, DhNoNearer
<1> QED
  BY <1>1, <1>2, <1>4, <1>5 DEF DhKeeps

\* SQLite begins, for the connection's own transaction or for one with a number
\* that nothing is kept or lost of.
LEMMA DhKeepsBegin ==
    ASSUME DhFiledInv, DhKeeps, DhNoNearer, NEW c \in Databases, NEW v \in 0..MaxDbTxs,
           v \in DbTxs => v \notin DhSpent,
           dhActive[c] = None, ~dhSql[c], dhSql' = [dhSql EXCEPT ![c] = TRUE],
           dhActive' = [dhActive EXCEPT ![c] = v],
           UNCHANGED <<dhPending, dhKept, dhLost, dhCommitted, dhFell>>
    PROVE  DhKeeps'
<1>1. /\ dhActive \in [Databases -> 0..MaxDbTxs \cup {None}] /\ dhSql \in [Databases -> BOOLEAN]
      /\ dhPending \in [Databases -> SUBSET DbTxs]
  BY DEF DhFiledInv, DhShapes, DhKeeps, DhWritten
<1>2. /\ dhActive'[c] = v /\ dhSql'[c]
      /\ \A d \in Databases : d # c => dhActive'[d] = dhActive[d] /\ dhSql'[d] = dhSql[d]
  BY <1>1
<1>3. DhOnRecord'
  BY <1>2, DhNumbers DEF DhKeeps, DhOnRecord, DhNoNearer
<1>4. DhWritten'
  BY <1>1, <1>2 DEF DhKeeps, DhWritten
<1>5. DhWhole'
  BY DEF DhKeeps, DhWhole
<1>6. DhAhead'
  <2>1. DhSpent' = DhSpent
    BY DEF DhSpent
  <2>2. \A n \in DbTxs : DhUnborn(n)' => n \notin DhSpent
    BY DEF DhKeeps, DhAhead, DhNoNearer
  <2>3. \A n \in DbTxs, d \in Databases : dhActive[d] = n => dhActive[d] # None
    BY DhNumbers
  <2>4. \A d \in Databases, n \in DbTxs : DhReached(d)' /\ dhActive'[d] = n /\ dhSql'[d]
                                                => n \notin DhSpent
    BY <1>2, <2>3 DEF DhKeeps, DhAhead, DhNoNearer
  <2> QED
    BY <2>1, <2>2, <2>4 DEF DhAhead
<1> QED
  BY <1>3, <1>4, <1>5, <1>6 DEF DhKeeps

\* SQLite ends what is open: it is the transaction on record, all of it, and
\* afterwards it is on record no longer, or at a connection nobody comes to, or
\* SQLite has rolled it back on its own.
LEMMA DhKeepsEnd ==
    ASSUME DhFiledInv, DhKeeps, DhNoNearer, NEW c \in Databases, DhReached(c),
           NEW n, NEW commits \in BOOLEAN,
           \/ /\ SqlEnds(c, n, commits) /\ (commits => n = dhActive[c])
              /\ \/ dhActive' = [dhActive EXCEPT ![c] = None]
                 \/ dhActive' = dhActive /\ ~DhReached(c)'
           \/ SqlFalls(c) /\ dhActive' = dhActive /\ ~commits
    PROVE  DhKeeps'
<1>1. /\ dhActive \in [Databases -> 0..MaxDbTxs \cup {None}] /\ dhSql \in [Databases -> BOOLEAN]
      /\ dhPending \in [Databases -> SUBSET DbTxs]
  BY DEF DhFiledInv, DhShapes, DhKeeps, DhWritten
<1>2. /\ dhSql[c] /\ dhSql' = [dhSql EXCEPT ![c] = FALSE]
      /\ dhPending' = [dhPending EXCEPT ![c] = {}]
      /\ dhKept' = IF commits THEN dhKept \cup (dhPending[c] \cap DbTxs) ELSE dhKept
      /\ dhLost' = IF commits THEN dhLost ELSE dhLost \cup dhPending[c]
      /\ dhCommitted' = IF commits THEN dhCommitted \cup ({n} \cap DbTxs) ELSE dhCommitted
      /\ dhFell \subseteq dhFell' /\ dhFell' \subseteq dhFell \cup ({dhActive[c]} \cap DbTxs)
      /\ commits => n = dhActive[c] /\ dhFell' = dhFell
  BY DEF SqlEnds, SqlFalls
<1>3. /\ dhActive' = dhActive \/ dhActive' = [dhActive EXCEPT ![c] = None]
      /\ dhActive'[c] \in DbTxs /\ DhReached(c)' => dhActive'[c] \in dhFell'
  <2>1. CASE SqlFalls(c) /\ dhActive' = dhActive
    BY <2>1 DEF SqlFalls
  <2>2. CASE dhActive' = [dhActive EXCEPT ![c] = None]
    BY <1>1, <2>2, DhNumbers
  <2> QED
    BY <2>1, <2>2
<1>4. /\ ~dhSql'[c] /\ dhPending'[c] = {}
      /\ \A d \in Databases : d # c => /\ dhActive'[d] = dhActive[d] /\ dhSql'[d] = dhSql[d]
                                       /\ dhPending'[d] = dhPending[d]
  BY <1>1, <1>2, <1>3
<1>5. dhPending[c] \subseteq DbTxs /\ \A m \in DbTxs : m \in dhPending[c] => dhActive[c] = m
  BY <1>1 DEF DhKeeps, DhWritten
<1>6. \A m \in DbTxs : m \in DhSpent' => m \in DhSpent \/ dhActive[c] = m
  BY <1>2, <1>5 DEF DhSpent
<1>7. \A m \in DbTxs : dhActive[c] = m => m \notin DhSpent /\ ~DhUnborn(m)
  BY <1>2, DhUnbornOff DEF DhKeeps, DhAhead
<1>8. DhOnRecord'
  <2> SUFFICES ASSUME NEW d \in Databases, NEW m \in DbTxs, dhActive'[d] = m, DhReached(d)',
                      ~dhSql'[d]
               PROVE  m \in dhFell'
    BY DEF DhOnRecord
  <2>1. CASE d = c
    BY <1>3, <2>1
  <2>2. CASE d # c
    BY <1>2, <1>4, <2>2, DhNumbers DEF DhKeeps, DhOnRecord, DhNoNearer
  <2> QED
    BY <2>1, <2>2
<1>9. DhWritten'
  <2>1. dhPending' \in [Databases -> SUBSET DbTxs]
    BY <1>1, <1>2
  <2>2. \A d \in Databases, m \in DbTxs : m \in dhPending'[d] => d # c
    BY <1>4
  <2> QED
    BY <1>4, <2>1, <2>2 DEF DhKeeps, DhWritten
<1>10. DhAhead'
  <2>1. \A m \in DbTxs : DhUnborn(m)' => m \notin DhSpent'
    BY <1>6, <1>7 DEF DhKeeps, DhAhead, DhNoNearer
  <2>2. ASSUME NEW d \in Databases, NEW m \in DbTxs, DhReached(d)', dhActive'[d] = m, dhSql'[d]
        PROVE  m \notin DhSpent'
    <3>1. d # c /\ dhActive[d] = m /\ dhActive[d] # None /\ dhSql[d]
      BY <1>4, <2>2, DhNumbers
    <3>2. DhReached(d) /\ m \notin DhSpent
      BY <2>2, <3>1 DEF DhKeeps, DhAhead, DhNoNearer
    <3>3. dhActive[c] # m
      BY <3>1 DEF DhFiledInv, DhOnce
    <3> QED
      BY <1>6, <3>2, <3>3
  <2> QED
    BY <2>1, <2>2 DEF DhAhead
<1>11. DhWhole'
  <2>1. /\ dhKept \subseteq dhCommitted \cup dhFell /\ dhCommitted \subseteq DbTxs
        /\ dhLost \subseteq DbTxs /\ dhLost \cap dhCommitted = {}
        /\ dhFell \subseteq DbTxs /\ dhFell \cap dhCommitted = {}
    BY DEF DhKeeps, DhWhole
  <2>2. CASE commits
    BY <1>2, <1>5, <1>7, <2>1, <2>2 DEF DhWhole, DhSpent
  <2>3. CASE ~commits
    <3>1. /\ dhPending[c] \cap dhCommitted = {}
          /\ ({dhActive[c]} \cap DbTxs) \cap dhCommitted = {}
      BY <1>5, <1>7 DEF DhSpent
    <3> QED
      BY <1>2, <1>5, <2>1, <2>3, <3>1 DEF DhWhole
  <2> QED
    BY <2>2, <2>3
<1> QED
  BY <1>8, <1>9, <1>10, <1>11 DEF DhKeeps

-----------------------------------------------------------------------------
LEMMA DhKeepsLookups ==
    ASSUME DhFiledInv, DhKeeps, NEW t \in Threads,
           \/ DhConnect(t) \/ DhLookup(t) \/ DhTxLookup(t) \/ DhTxFinds(t) \/ DhClose(t)
           \/ DhFile(t) \/ DhUnfile(t)
    PROVE  DhKeeps'
<1>1. UNCHANGED <<dhActive, dhSql, dhPending, dhKept, dhLost, dhCommitted, dhFell>>
  BY DEF DhConnect, DhLookup, DhTxLookup, DhTxFinds, DhClose, DhFile, DhUnfile, dhData
<1>2. CASE DhConnect(t)
  <2>1. /\ dhMade \in 0..MaxConnects /\ dhMade' = dhMade + 1 /\ dhMade < MaxConnects
        /\ dhOpen' = dhOpen \cup {dhMade'} /\ dhThread' = dhThread /\ dhTxs' = dhTxs
    BY <1>2 DEF DhConnect, DhFiledInv, DhShapes
  <2>2. dhMade' \in Databases /\ dhMade' > dhMade
    BY <2>1, DbHandlesAssumption DEF Databases
  <2>3. dhActive[dhMade'] = None
    BY <2>2 DEF DhFiledInv, DhNew
  <2>4. DhNoNearer
    BY <2>1, <2>3 DEF DhNoNearer, DhReached, DhUnborn, DhOpener, DhHas, DhAt
  <2> QED
    BY <1>1, <2>4, DhKeepsQuiet
<1>3. CASE DhLookup(t)
  <2>1. PICK c \in dhOpen, call \in DirectCalls :
            /\ call = "open" => dhTxs < MaxDbTxs
            /\ dhTxs' = IF call = "open" THEN dhTxs + 1 ELSE dhTxs
            /\ dhThread' = [dhThread EXCEPT ![t] =
                  [at |-> "run", call |-> call, on |-> c,
                   tx |-> IF call = "open" THEN dhTxs' ELSE 0]]
    BY <1>3 DEF DhLookup
  <2>2. dhTxs \in 0..MaxDbTxs /\ dhOpen' = dhOpen /\ dhTxs' \in Nat /\ dhTxs <= dhTxs'
    BY <1>3, <2>1, DbHandlesAssumption DEF DhFiledInv, DhShapes, DhLookup, dhFiles
  <2>3. dhThread \in [Threads -> DhCallers]
    BY DEF DhFiledInv, DhShapes
  <2> DEFINE tx == IF call = "open" THEN dhTxs' ELSE 0
  <2> DEFINE r == [at |-> "run", call |-> call, on |-> c, tx |-> tx]
  <2>4. r.call = call /\ r.on = c /\ r.tx = tx /\ (call = "open" => tx = dhTxs' /\ tx = dhTxs + 1)
    BY <2>1
  <2>5. dhThread' = [dhThread EXCEPT ![t] = r]
    BY <2>1
  <2> HIDE DEF tx, r
  <2>6. dhThread'[t] = r /\ \A u \in Threads : u # t => dhThread'[u] = dhThread[u]
    BY <2>3, <2>5
  <2>7. \A d \in Databases : DhReached(d)' => DhReached(d)
    BY <2>1, <2>2, <2>4, <2>6 DEF DhReached, DhHas, DhAt
  <2>8. ASSUME NEW n \in DbTxs, DhUnborn(n)' PROVE DhUnborn(n)
    <3>1. CASE n > dhTxs'
      BY <2>2, <3>1, DhNumbers DEF DhUnborn
    <3>2. CASE DhOpener(t, n)'
      <4>1. n = dhTxs + 1
        BY <2>4, <2>6, <3>2 DEF DhOpener
      <4>2. n > dhTxs
        BY <2>2, <4>1
      <4> QED
        BY <4>2 DEF DhUnborn
    <3>3. CASE \E u \in Threads \ {t} : DhOpener(u, n)'
      BY <2>6, <3>3 DEF DhUnborn, DhOpener
    <3> QED
      BY <2>8, <3>1, <3>2, <3>3 DEF DhUnborn
  <2> QED
    BY <1>1, <2>7, <2>8, DhKeepsQuiet DEF DhNoNearer
<1>4. CASE DhTxLookup(t)
  <2>1. PICK n \in 1..dhTxs, call \in TxCalls :
            /\ dhTable[n] # 0
            /\ dhThread' = [dhThread EXCEPT ![t] =
                  [at |-> "found", call |-> call, on |-> dhTable[n], tx |-> n]]
    BY <1>4 DEF DhTxLookup
  <2> DEFINE r == [at |-> "found", call |-> call, on |-> dhTable[n], tx |-> n]
  <2>2. r.at = "found"
    OBVIOUS
  <2>3. dhThread' = [dhThread EXCEPT ![t] = r]
    BY <2>1
  <2>4. /\ dhThread \in [Threads -> DhCallers] /\ dhOpen' = dhOpen /\ dhTxs' = dhTxs
    BY <1>4 DEF DhTxLookup, dhFiles, DhFiledInv, DhShapes
  <2> HIDE DEF r
  <2>5. dhThread'[t] = r /\ \A u \in Threads : u # t => dhThread'[u] = dhThread[u]
    BY <2>3, <2>4
  <2>6. DhNoNearer
    BY <2>2, <2>4, <2>5 DEF DhNoNearer, DhReached, DhUnborn, DhOpener, DhHas, DhAt
  <2> QED
    BY <1>1, <2>6, DhKeepsQuiet
<1>5. CASE DhTxFinds(t)
  <2>1. /\ dhThread \in [Threads -> DhCallers] /\ dhOpen' = dhOpen /\ dhTxs' = dhTxs
        /\ dhThread[t] \in DhCallers /\ dhThread[t].at = "found"
    BY <1>5 DEF DhTxFinds, dhFiles, DhFiledInv, DhShapes, DhAt
  <2>2. dhThread[t].call \in TxCalls /\ "open" \notin TxCalls
    BY <2>1 DEF DhFiledInv, DhCarried, TxCalls
  <2>3. /\ \A u \in Threads : u # t => dhThread'[u] = dhThread[u]
        /\ dhThread'[t].call # "open"
        /\ dhThread'[t].on \in dhOpen \/ dhThread'[t].on = 0
    <3>1. CASE dhThread[t].on \in dhOpen
      <4> DEFINE r == [dhThread[t] EXCEPT !.at = "run"]
      <4>1. r.call = dhThread[t].call /\ r.on = dhThread[t].on
        BY <2>1 DEF DhCallers
      <4>2. dhThread' = [dhThread EXCEPT ![t] = r]
        BY <1>5, <3>1 DEF DhTxFinds
      <4> HIDE DEF r
      <4> QED
        BY <2>1, <2>2, <3>1, <4>1, <4>2
    <3>2. CASE dhThread[t].on \notin dhOpen
      <4>1. dhThread' = [dhThread EXCEPT ![t] = DhIdle] /\ DhIdle.call = "none" /\ DhIdle.on = 0
        BY <1>5, <3>2 DEF DhTxFinds, DhIdle
      <4> QED
        BY <2>1, <4>1
    <3> QED
      BY <3>1, <3>2
  <2>4. DhNoNearer
    BY <2>1, <2>3, DhNumbers DEF DhNoNearer, DhReached, DhUnborn, DhOpener, DhHas, DhAt
  <2> QED
    BY <1>1, <2>4, DhKeepsQuiet
<1>6. CASE DhClose(t)
  <2>1. PICK c \in dhOpen :
            /\ dhOpen' = dhOpen \ {c}
            /\ dhThread' = [dhThread EXCEPT ![t] = [DhIdle EXCEPT !.at = "close", !.on = c]]
    BY <1>6 DEF DhClose
  <2> DEFINE r == [DhIdle EXCEPT !.at = "close", !.on = c]
  <2>2. r.at = "close" /\ r.on = c
    BY DEF DhIdle
  <2>3. dhThread \in [Threads -> DhCallers] /\ dhTxs' = dhTxs /\ dhThread' = [dhThread EXCEPT ![t] = r]
    BY <1>6, <2>1 DEF DhClose, DhFiledInv, DhShapes
  <2> HIDE DEF r
  <2>4. dhThread'[t] = r /\ \A u \in Threads : u # t => dhThread'[u] = dhThread[u]
    BY <2>3
  <2>5. DhNoNearer
    BY <2>1, <2>2, <2>3, <2>4 DEF DhNoNearer, DhReached, DhUnborn, DhOpener, DhHas, DhAt
  <2> QED
    BY <1>1, <2>5, DhKeepsQuiet
<1>7. CASE DhFile(t) \/ DhUnfile(t)
  <2>1. /\ DhGo(t, "leave") /\ dhThread[t].at \in {"file", "unfile"} /\ "leave" \in DhPlaces
        /\ dhOpen' = dhOpen /\ dhTxs' = dhTxs
    BY <1>7 DEF DhFile, DhUnfile, DhAt, dhFiles, DhPlaces
  <2>2. DhMovedTo(t, "leave")
    BY <2>1, DhGoes DEF DhFiledInv
  <2>3. DhNoNearer
    BY <2>1, <2>2, DhOnReach DEF DhMovedTo
  <2> QED
    BY <1>1, <2>3, DhKeepsQuiet
<1> QED
  BY <1>2, <1>3, <1>4, <1>5, <1>6, <1>7

LEMMA DhKeepsExecutes ==
    ASSUME DhFiledInv, DhKeeps, NEW t \in Threads,
           DhExecute(t) \/ DhExecuteParams(t) \/ DhTxExecute(t)
    PROVE  DhKeeps'
<1> DEFINE c == dhThread[t].on
<1>1. /\ DhGo(t, "leave") /\ dhThread[t].at = "run" /\ "leave" \in DhPlaces
      /\ dhOpen' = dhOpen /\ dhTxs' = dhTxs /\ dhActive' = dhActive
  BY DEF DhExecute, DhExecuteParams, DhTxExecute, DhCalls, DhAt, dhFiles, DhPlaces, DhRunFrame
<1>2. DhMovedTo(t, "leave")
  BY <1>1, DhGoes DEF DhFiledInv
<1>3. DhNoNearer /\ DhReached(c) /\ c \in Databases
  BY <1>1, <1>2, DhOnReach, DhOfCall DEF DhMovedTo
<1>4. Direct \notin DbTxs
  BY DbHandlesAssumption DEF Direct, DbTxs
<1>5. dhPending \in [Databases -> SUBSET DbTxs]
  BY DEF DhKeeps, DhWritten
<1>6. CASE UNCHANGED dhData
  <2>1. UNCHANGED <<dhActive, dhSql, dhPending, dhKept, dhLost, dhCommitted, dhFell>>
    BY <1>1, <1>6 DEF dhData
  <2> QED
    BY <1>3, <2>1, DhKeepsQuiet
<1>7. CASE SqlFalls(c)
  <2> HIDE DEF c
  <2> QED
    BY <1>1, <1>3, <1>7, DhKeepsEnd
<1>8. CASE DhExecute(t) /\ ~UNCHANGED dhData /\ ~SqlFalls(c)
  <2>1. /\ UNCHANGED <<dhSql, dhLost, dhCommitted, dhFell>>
        /\ dhPending' = IF dhSql[c] THEN [dhPending EXCEPT ![c] = dhPending[c] \cup {}] ELSE dhPending
        /\ dhKept' = IF dhSql[c] THEN dhKept ELSE dhKept \cup ({} \cap DbTxs)
    BY <1>8 DEF DhExecute, SqlWrites
  <2>2. dhPending' = dhPending /\ dhKept' = dhKept
    <3>1. [dhPending EXCEPT ![c] = dhPending[c] \cup {}] = dhPending
      BY <1>5
    <3> QED
      BY <2>1, <3>1
  <2> QED
    BY <1>1, <1>3, <2>1, <2>2, DhKeepsQuiet
<1>9. CASE DhExecuteParams(t) /\ ~UNCHANGED dhData /\ ~SqlFalls(c)
  <2>1. dhActive[c] = None /\ SqlWrites(c, {Direct})
    BY <1>9 DEF DhExecuteParams
  <2>2. ~dhSql[c]
    BY <1>3, <2>1 DEF DhFiledInv, DhRecorded
  <2>3. /\ UNCHANGED <<dhSql, dhLost, dhCommitted, dhFell>> /\ dhPending' = dhPending
        /\ dhKept' = dhKept \cup ({Direct} \cap DbTxs)
    BY <1>9, <2>1, <2>2 DEF SqlWrites
  <2>4. dhKept' = dhKept
    BY <1>4, <2>3
  <2> QED
    BY <1>1, <1>3, <2>3, <2>4, DhKeepsQuiet
<1>10. CASE DhTxExecute(t) /\ ~UNCHANGED dhData /\ ~SqlFalls(c)
  <2> DEFINE n == dhThread[t].tx
  <2>1. dhActive[c] = n /\ SqlWrites(c, {n}) /\ dhThread[t].call \in TxCalls
    BY <1>10 DEF DhTxExecute, DhCalls, TxCalls
  <2>2. n \in DbTxs
    BY <1>1, <2>1, DhNumbers DEF DhFiledInv, DhCarried, DhShapes
  <2>3. CASE dhSql[c]
    <3>1. /\ UNCHANGED <<dhSql, dhKept, dhLost, dhCommitted, dhFell>>
          /\ dhPending' = [dhPending EXCEPT ![c] = dhPending[c] \cup {n}]
      BY <1>10, <2>1, <2>3 DEF SqlWrites
    <3> HIDE DEF n, c
    <3> QED
      BY <1>1, <1>3, <2>1, <2>2, <2>3, <3>1, DhKeepsWrite
  <2>4. CASE ~dhSql[c]
    <3>1. /\ UNCHANGED <<dhSql, dhPending, dhLost, dhCommitted, dhFell>>
          /\ dhKept' = dhKept \cup ({n} \cap DbTxs)
      BY <1>10, <2>1, <2>4 DEF SqlWrites
    <3>2. n \in dhFell
      BY <1>3, <2>1, <2>2, <2>4 DEF DhKeeps, DhOnRecord
    <3> QED
      BY <1>1, <1>3, <3>1, <3>2, DhKeepsQuiet
  <2> QED
    BY <2>3, <2>4
<1> QED
  BY <1>6, <1>8, <1>9, <1>10, <1>7

LEMMA DhKeepsBegins ==
    ASSUME DhFiledInv, DhKeeps, NEW t \in Threads, DhBegin(t) \/ DhTxOpen(t)
    PROVE  DhKeeps'
<1> DEFINE c == dhThread[t].on
<1>1. PICK p \in {"leave", "file"} : DhGo(t, p)
  BY DEF DhBegin, DhTxOpen
<1>2. /\ p \in DhPlaces /\ dhThread[t].at = "run" /\ dhOpen' = dhOpen /\ dhTxs' = dhTxs
  BY DEF DhBegin, DhTxOpen, DhCalls, DhAt, dhFiles, DhPlaces, DhRunFrame
<1>3. DhMovedTo(t, p)
  BY <1>1, <1>2, DhGoes DEF DhFiledInv
<1>4. DhNoNearer /\ DhReached(c) /\ c \in Databases
  BY <1>2, <1>3, DhOnReach, DhOfCall DEF DhMovedTo
<1>5. CASE UNCHANGED <<dhActive, dhData>>
  BY <1>4, <1>5, DhKeepsQuiet DEF dhData
<1>6. CASE ~UNCHANGED <<dhActive, dhData>>
  <2>1. PICK v \in {0, dhThread[t].tx} :
            /\ dhActive[c] = None /\ SqlBegins(c) /\ dhActive' = [dhActive EXCEPT ![c] = v]
            /\ v # 0 => DhOpener(t, v)
    BY <1>6 DEF DhBegin, DhTxOpen, DhOpener, DhCalls, DhAt
  <2>2. v \in 0..MaxDbTxs /\ (v \in DbTxs => v # 0)
    BY DhTyped, DhNumbers, DbHandlesAssumption DEF DhFiledInv
  <2>3. v \in DbTxs => v \notin DhSpent
    BY <2>1, <2>2 DEF DhKeeps, DhAhead, DhUnborn
  <2>4. /\ ~dhSql[c] /\ dhSql' = [dhSql EXCEPT ![c] = TRUE]
        /\ UNCHANGED <<dhPending, dhKept, dhLost, dhCommitted, dhFell>>
    BY <2>1 DEF SqlBegins
  <2> HIDE DEF c
  <2> QED
    BY <1>4, <2>1, <2>2, <2>3, <2>4, DhKeepsBegin
<1> QED
  BY <1>5, <1>6

LEMMA DhKeepsEnds ==
    ASSUME DhFiledInv, DhKeeps, NEW t \in Threads, DhEnd(t)
    PROVE  DhKeeps'
<1> DEFINE c == dhThread[t].on
<1>1. PICK p \in {"leave", "unfile"} : DhGo(t, p)
  BY DEF DhEnd
<1>2. /\ p \in DhPlaces /\ dhThread[t].at = "run" /\ dhOpen' = dhOpen /\ dhTxs' = dhTxs
  BY DEF DhEnd, DhAt, dhFiles, DhPlaces, DhRunFrame
<1>3. DhMovedTo(t, p)
  BY <1>1, <1>2, DhGoes DEF DhFiledInv
<1>4. DhNoNearer /\ DhReached(c) /\ c \in Databases
  BY <1>2, <1>3, DhOnReach, DhOfCall DEF DhMovedTo
<1>5. CASE UNCHANGED <<dhActive, dhData>>
  BY <1>4, <1>5, DhKeepsQuiet DEF dhData
<1>6. CASE SqlFalls(c) /\ dhActive' = dhActive
  <2> HIDE DEF c
  <2> QED
    BY <1>4, <1>6, DhKeepsEnd
<1>7. CASE ~UNCHANGED <<dhActive, dhData>> /\ ~(SqlFalls(c) /\ dhActive' = dhActive)
  <2>1. PICK commits \in BOOLEAN :
            /\ dhActive[c] = dhThread[t].tx /\ SqlEnds(c, dhThread[t].tx, commits)
            /\ dhActive' = [dhActive EXCEPT ![c] = None]
    <3> DEFINE b == dhThread[t].call \in {"commit", "tx commit"}
    <3>1. /\ dhActive[c] = dhThread[t].tx /\ SqlEnds(c, dhThread[t].tx, b)
          /\ dhActive' = [dhActive EXCEPT ![c] = None]
      BY <1>7 DEF DhEnd
    <3> HIDE DEF c
    <3>2. b \in BOOLEAN
      OBVIOUS
    <3> HIDE DEF b
    <3> QED
      BY <3>1, <3>2
  <2> HIDE DEF c
  <2> QED
    BY <1>4, <2>1, DhKeepsEnd
<1> QED
  BY <1>5, <1>7, <1>6

LEMMA DhKeepsCloses ==
    ASSUME DhFiledInv, DhKeeps, NEW t \in Threads, DhRollsBack(t) \/ DhLeave(t)
    PROVE  DhKeeps'
<1> DEFINE c == dhThread[t].on
<1>1. dhThread[t].at \in {"close", "leave"} /\ dhOpen' = dhOpen /\ dhTxs' = dhTxs
  BY DEF DhRollsBack, DhLeave, DhAt, DhRunFrame, dhFiles
<1>2. c \in Databases /\ DhHas(t, c)
  BY <1>1, DhOfCall
<1>3. DhReached(c)
  BY <1>2 DEF DhReached
<1>4. CASE DhRollsBack(t)
  <2>1. PICK r : /\ dhThread' = [dhThread EXCEPT ![t] = r] /\ r \in DhCallers
                 /\ r.on = dhThread[t].on /\ r.at # "run"
    <3>1. dhThread[t] \in DhCallers /\ dhActive[c] \in 0..MaxDbTxs \cup {None}
      BY <1>2, DhTyped DEF DhFiledInv, DhShapes
    <3>2. CASE dhActive[c] \in {None, 0}
      <4> DEFINE r == [dhThread[t] EXCEPT !.at = "leave"]
      <4>1. r \in DhCallers /\ r.on = dhThread[t].on /\ r.at # "run"
        BY <3>1 DEF DhCallers, DhPlaces
      <4>2. dhThread' = [dhThread EXCEPT ![t] = r]
        BY <1>4, <3>2 DEF DhRollsBack
      <4> QED
        BY <4>1, <4>2
    <3>3. CASE dhActive[c] \notin {None, 0}
      <4> DEFINE n == dhActive[c]
      <4> DEFINE r == [dhThread[t] EXCEPT !.at = "unfile", !.tx = n]
      <4>1. dhThread' = [dhThread EXCEPT ![t] = r]
        BY <1>4, <3>3 DEF DhRollsBack
      <4>2. n \in 0..MaxDbTxs
        BY <3>1, <3>3
      <4> HIDE DEF n
      <4>3. r \in DhCallers /\ r.on = dhThread[t].on /\ r.at # "run"
        BY <3>1, <4>2 DEF DhCallers, DhPlaces
      <4> QED
        BY <4>1, <4>3
    <3> QED
      BY <3>2, <3>3
  <2>2. DhElse(t) /\ dhThread'[t] = r
    BY <2>1, DhBecomes DEF DhFiledInv
  <2>3. DhNoNearer
    BY <1>1, <2>1, <2>2, DhOnReach
  <2>4. dhActive' = [dhActive EXCEPT ![c] = None]
    BY <1>4 DEF DhRollsBack
  <2>5. CASE dhSql[c]
    <3>1. SqlEnds(c, 0, FALSE)
      BY <1>4, <2>5 DEF DhRollsBack
    <3> HIDE DEF c
    <3> QED
      BY <1>2, <1>3, <2>3, <2>4, <3>1, DhKeepsEnd
  <2>6. CASE ~dhSql[c]
    <3>1. UNCHANGED <<dhSql, dhPending, dhKept, dhLost, dhCommitted, dhFell>>
      BY <1>4, <2>6 DEF DhRollsBack, dhData
    <3>2. dhActive \in [Databases -> 0..MaxDbTxs \cup {None}]
      BY DEF DhFiledInv, DhShapes
    <3>3. \A d \in Databases : dhActive'[d] = dhActive[d] \/ (dhActive'[d] = None /\ ~dhSql[d])
      BY <1>2, <2>4, <2>6, <3>2
    <3> QED
      BY <2>3, <3>1, <3>3, DhKeepsQuiet
  <2> QED
    BY <2>5, <2>6
<1>5. CASE DhLeave(t)
  <2>1. /\ DhIdle \in DhCallers /\ DhIdle.at = "idle" /\ DhIdle.on = 0
    BY DbHandlesAssumption DEF DhIdle, DhCallers, DhPlaces, DhCallNames
  <2>2. DhElse(t) /\ dhThread'[t] = DhIdle
    BY <1>5, <2>1, DhBecomes DEF DhLeave, DhFiledInv
  <2>3. \A d \in Databases : ~DhHas(t, d)'
    BY <2>1, <2>2, DhNumbers DEF DhHas
  <2>4. \A n \in DbTxs : ~DhOpener(t, n)'
    BY <2>1, <2>2 DEF DhOpener
  <2>5. DhNoNearer
    BY <1>1, <2>2, <2>3, <2>4, DhOwnReach
  <2>6. dhActive' = dhActive
    BY <1>5 DEF DhLeave
  <2>7. PICK d \in Databases : d = c
    BY <1>2
  <2>8. CASE d \notin dhOpen /\ (\A u \in Threads \ {t} : ~DhHas(u, d)) /\ dhSql[d]
    <3>1. SqlEnds(d, 0, FALSE)
      BY <1>5, <2>7, <2>8 DEF DhLeave
    <3>2. \A u \in Threads : ~DhHas(u, d)'
      BY <2>2, <2>3, <2>8, DhRolesKept
    <3>3. ~DhReached(d)'
      BY <1>1, <2>8, <3>2 DEF DhReached
    <3>4. DhReached(d)
      BY <1>3, <2>7
    <3> QED
      BY <2>5, <2>6, <3>1, <3>3, <3>4, DhKeepsEnd
  <2>9. CASE ~(d \notin dhOpen /\ (\A u \in Threads \ {t} : ~DhHas(u, d)) /\ dhSql[d])
    <3>1. UNCHANGED <<dhSql, dhPending, dhKept, dhLost, dhCommitted, dhFell>>
      BY <1>5, <2>7, <2>9 DEF DhLeave, dhData
    <3> QED
      BY <2>5, <2>6, <3>1, DhKeepsQuiet
  <2> QED
    BY <2>8, <2>9
<1> QED
  BY <1>4, <1>5

LEMMA DhKeepsNext ==
    ASSUME DhFiledInv, DhKeeps, [DhNext]_dhVars
    PROVE  DhKeeps'
<1>1. CASE UNCHANGED dhVars
  <2>1. DhNoNearer
    BY <1>1 DEF dhVars, DhNoNearer, DhReached, DhUnborn, DhOpener, DhHas, DhAt
  <2> QED
    BY <1>1, <2>1, DhKeepsQuiet DEF dhVars
<1> QED
  BY <1>1, DhKeepsLookups, DhKeepsExecutes, DhKeepsBegins, DhKeepsEnds, DhKeepsCloses DEF DhNext

\* What a transaction wrote is kept if it was committed, and only then, whoever
\* else writes, begins, ends or closes, and no direct write with parameters is
\* ever rolled back (database_ffi.rs:503).  A transaction that SQLite rolled back
\* on its own, when a statement or a commit failed, is never committed.
THEOREM TransactionsAreWhole == DhInit /\ [][DhNext]_dhVars => []TransactionsWhole
<1>1. DhInit => DhWholeInv
  BY DhFiledInit, DhKeepsInit DEF DhWholeInv
<1>2. DhWholeInv /\ [DhNext]_dhVars => DhWholeInv'
  BY DhFiledNext, DhKeepsNext DEF DhWholeInv
<1>3. DhWholeInv => TransactionsWhole
  <2>1. Direct \notin DbTxs
    BY DbHandlesAssumption DEF Direct, DbTxs
  <2> QED
    BY <2>1 DEF DhWholeInv, DhKeeps, DhWhole, TransactionsWhole
<1> QED
  BY <1>1, <1>2, <1>3, PTL
=============================================================================
