------------------------------ MODULE RcArrays -------------------------------
(* src/src/stdlib/rc_obj.rs: growable arrays with a reference count, copied  *)
(* on write when they are shared, and their counted elements.                *)
(*                                                                           *)
(* A step is one atomic operation on a count.  The calls are those compiled  *)
(* code makes: it owns one reference per variable, and a thread is given a   *)
(* reference by one that has it.                                             *)
EXTENDS Callers, Integers, Sequences, FiniteSets

CONSTANTS
    MaxArrays,      \* bound: arrays allocated
    MaxElements     \* bound: elements allocated

ASSUME RcAssumption ==
    IsFiniteSet(Threads) /\ MaxArrays \in Nat /\ MaxElements \in Nat

Arrays == 1..MaxArrays

Elements == 1..MaxElements

VARIABLES
    rcArray,        \* of each array: its count, its elements, the places whose
                    \*   reference is counted, whether its memory was freed
    rcArrays,       \* arrays allocated
    rcElement,      \* count of each element
    rcElements,     \* elements allocated
    rcHeld,         \* the array in each thread's variable, 0 for none
    rcThread        \* of each thread: position, the array it leaves, the next
                    \*   element to retain or release, position after a release

rcVars == <<rcArray, rcArrays, rcElement, rcElements, rcHeld, rcThread>>

NewArray(elems) == [count |-> 1, elems |-> elems, owned |-> {}, freed |-> FALSE]

RcIdle == [at |-> "idle", old |-> 0, next |-> 1, then |-> "idle"]

RcInit ==
    /\ rcArray = [a \in Arrays |-> [NewArray(<<>>) EXCEPT !.count = 0, !.freed = TRUE]]
    /\ rcArrays = 0 /\ rcElements = 0
    /\ rcElement = [e \in Elements |-> 0]
    /\ rcHeld = [t \in Threads |-> 0]
    /\ rcThread = [t \in Threads |-> RcIdle]

RcAt(t, p) == rcThread[t].at = p

RcGo(t, p) == rcThread' = [rcThread EXCEPT ![t] = [RcIdle EXCEPT !.at = p]]

Old(t) == rcThread[t].old

AllocArray(t) ==
    /\ RcAt(t, "idle") /\ rcHeld[t] = 0 /\ rcArrays < MaxArrays
    /\ rcArrays' = rcArrays + 1
    /\ rcArray' = [rcArray EXCEPT ![rcArrays + 1] = NewArray(<<>>)]
    /\ rcHeld' = [rcHeld EXCEPT ![t] = rcArrays + 1]
    /\ UNCHANGED <<rcElement, rcElements, rcThread>>

\* qi_obj_retain for another thread, an argument or an assignment.
RetainArray(t) ==
    \E u \in Threads :
        /\ RcAt(t, "idle") /\ rcHeld[t] # 0 /\ rcHeld[u] = 0 /\ RcAt(u, "idle")
        /\ rcArray' = [rcArray EXCEPT ![rcHeld[t]].count = @ + 1]
        /\ rcHeld' = [rcHeld EXCEPT ![u] = rcHeld[t]]
        /\ UNCHANGED <<rcArrays, rcElement, rcElements, rcThread>>

\* qi_obj_dec of the array a, then p; whoever took the last reference releases
\* the elements and frees the array.
Decrement(t, a, p) ==
    /\ rcArray' = [rcArray EXCEPT ![a].count = @ - 1]
    /\ rcThread' = [rcThread EXCEPT ![t] =
           IF rcArray[a].count = 1
           THEN [at |-> "release", old |-> a, next |-> 1, then |-> p]
           ELSE [RcIdle EXCEPT !.at = p]]

DropArray(t) ==
    /\ RcAt(t, "idle") /\ rcHeld[t] # 0
    /\ Decrement(t, rcHeld[t], "idle")
    /\ rcHeld' = [rcHeld EXCEPT ![t] = 0]
    /\ UNCHANGED <<rcArrays, rcElement, rcElements>>

-----------------------------------------------------------------------------
(* qi_array_prepare_mut.                                                     *)

\* The only reference: in place, moved or not.  Otherwise a copy is begun.
PrepareMut(t) ==
    LET a == rcHeld[t]
    IN  /\ RcAt(t, "idle") /\ a # 0
        /\ \/ /\ rcArray[a].count = 1
              /\ RcGo(t, "write")
              /\ UNCHANGED <<rcArray, rcArrays, rcHeld>>
           \/ /\ rcArray[a].count # 1 /\ rcArrays < MaxArrays
              /\ rcArrays' = rcArrays + 1
              /\ rcArray' = [rcArray EXCEPT ![rcArrays + 1] = NewArray(rcArray[a].elems)]
              /\ rcHeld' = [rcHeld EXCEPT ![t] = rcArrays + 1]
              /\ rcThread' = [rcThread EXCEPT ![t] =
                     [RcIdle EXCEPT !.at = "copy", !.old = a]]
        /\ UNCHANGED <<rcElement, rcElements>>

\* Its elements are retained one by one ...
RetainElement(t) ==
    LET a == rcHeld[t]
        i == rcThread[t].next
    IN  /\ RcAt(t, "copy") /\ i <= Len(rcArray[a].elems)
        /\ rcElement' = [rcElement EXCEPT ![rcArray[a].elems[i]] = @ + 1]
        /\ rcArray' = [rcArray EXCEPT ![a].owned = @ \cup {i}]
        /\ rcThread' = [rcThread EXCEPT ![t].next = i + 1]
        /\ UNCHANGED <<rcArrays, rcElements, rcHeld>>

\* ... and this thread's reference to the old array is given back: meanwhile
\* it may have become the last one.
LeaveOld(t) ==
    /\ RcAt(t, "copy") /\ rcThread[t].next > Len(rcArray[rcHeld[t]].elems)
    /\ Decrement(t, Old(t), "write")
    /\ UNCHANGED <<rcArrays, rcElement, rcElements, rcHeld>>

\* The last reference of an array gone: its elements are released one by one.
ReleaseElement(t) ==
    LET a == Old(t)
        i == rcThread[t].next
    IN  /\ RcAt(t, "release") /\ i <= Len(rcArray[a].elems)
        /\ rcElement' = [rcElement EXCEPT ![rcArray[a].elems[i]] = @ - 1]
        /\ rcArray' = [rcArray EXCEPT ![a].owned = @ \ {i}]
        /\ rcThread' = [rcThread EXCEPT ![t].next = i + 1]
        /\ UNCHANGED <<rcArrays, rcElements, rcHeld>>

\* qi_obj_free.
FreeArray(t) ==
    /\ RcAt(t, "release") /\ rcThread[t].next > Len(rcArray[Old(t)].elems)
    /\ rcArray' = [rcArray EXCEPT ![Old(t)].freed = TRUE]
    /\ RcGo(t, rcThread[t].then)
    /\ UNCHANGED <<rcArrays, rcElement, rcElements, rcHeld>>

\* What compiled code does with the array then: a new element is put at the
\* end, which the array owns, or the last one is released.
WriteArray(t) ==
    LET a == rcHeld[t]
        n == Len(rcArray[a].elems)
    IN  /\ RcAt(t, "write")
        /\ \/ /\ rcElements < MaxElements
              /\ rcElements' = rcElements + 1
              /\ rcElement' = [rcElement EXCEPT ![rcElements + 1] = 1]
              /\ rcArray' = [rcArray EXCEPT
                     ![a].elems = Append(@, rcElements + 1),
                     ![a].owned = @ \cup {n + 1}]
           \/ /\ n > 0
              /\ rcElement' = [rcElement EXCEPT ![rcArray[a].elems[n]] = @ - 1]
              /\ rcArray' = [rcArray EXCEPT ![a].elems = SubSeq(@, 1, n - 1),
                                            ![a].owned = @ \ {n}]
              /\ UNCHANGED rcElements
           \/ UNCHANGED <<rcArray, rcElement, rcElements>>
        /\ RcGo(t, "idle")
        /\ UNCHANGED <<rcArrays, rcHeld>>

RcNext ==
    \E t \in Threads :
        \/ AllocArray(t) \/ RetainArray(t) \/ DropArray(t) \/ PrepareMut(t)
        \/ RetainElement(t) \/ LeaveOld(t) \/ ReleaseElement(t) \/ FreeArray(t)
        \/ WriteArray(t)

-----------------------------------------------------------------------------
RcTypes ==
    /\ rcArrays \in 0..MaxArrays /\ rcElements \in 0..MaxElements
    /\ rcElement \in [Elements -> Nat]
    /\ rcHeld \in [Threads -> 0..MaxArrays]
    /\ \A a \in Arrays : /\ rcArray[a].count \in Nat
                         /\ rcArray[a].elems \in Seq(Elements)
                         /\ rcArray[a].owned \subseteq DOMAIN rcArray[a].elems

References(a) ==
    {t \in Threads : rcHeld[t] = a} \cup {t \in Threads : RcAt(t, "copy") /\ Old(t) = a}

Owners(e) ==
    {a \in Arrays : \E i \in rcArray[a].owned : rcArray[a].elems[i] = e}

\* "Freed once, by whoever drops the last reference; a concurrent release may
\* make the copier that one" (rc_obj.rs:418).  Each count is the number of
\* references; an array without any is being freed by one thread, or is freed
\* and owns nothing; and an array that is held has no freed element.
RefsCounted ==
    /\ \A a \in 1..rcArrays :
          LET dying == {t \in Threads : RcAt(t, "release") /\ Old(t) = a}
          IN  /\ rcArray[a].count = Cardinality(References(a))
              /\ (rcArray[a].count = 0 /\ ~rcArray[a].freed) <=> dying # {}
              /\ \A t, u \in dying : t = u
              /\ rcArray[a].freed => rcArray[a].owned = {}
              /\ References(a) # {} =>
                    \A i \in DOMAIN rcArray[a].elems : rcElement[rcArray[a].elems[i]] > 0
    /\ \A e \in Elements : rcElement[e] = Cardinality(Owners(e))
=============================================================================
