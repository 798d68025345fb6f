-------------------------- MODULE ToolControlProofs --------------------------
(* Proofs about tool_control.rs: handles, first-wins, progress and types,   *)
(* for every number of threads, controls, generations and reports.          *)
EXTENDS ToolControlProps, FiniteSetTheorems, TLAPS

-----------------------------------------------------------------------------
(* Handles.                                                                 *)

\* What the initial registry and the first control's absence satisfy.
LEMMA InitHandles == Init => HandleInv
  <1> SUFFICES ASSUME Init PROVE HandleInv
    OBVIOUS
  <1>1. made = 0 /\ slots = <<>> /\ free = <<>>
    BY DEF Init
  <1>2. RegistryTypes
    BY BoundsAssumption DEF Init, RegistryTypes
  <1>3. SlotsOnce /\ SlotsKnown
    BY <1>1 DEF SlotsOnce, SlotsKnown
  <1>4. GenerationsTell
    BY <1>1 DEF GenerationsTell
  <1>5. QED
    BY <1>2, <1>3, <1>4 DEF HandleInv

\* Who leaves the registry alone leaves the handles alone.
LEMMA RegistryKept == HandleInv /\ UNCHANGED registry => HandleInv'
  BY DEF HandleInv, registry, RegistryTypes, SlotsOnce, SlotsKnown,
         GenerationsTell, Releases, Tenants

\* The tenants of a slot from k on are finitely many, k among them.
LEMMA TenantsCount ==
    ASSUME RegistryTypes, NEW k \in 1..made
    PROVE  /\ IsFiniteSet(Tenants(k)) /\ k \in Tenants(k)
           /\ Cardinality(Tenants(k)) \in Nat \ {0}
  <1>1. made \in Nat
    BY BoundsAssumption DEF RegistryTypes
  <1>2. k \in Tenants(k) /\ Tenants(k) \in SUBSET (k..made)
    BY <1>1 DEF Tenants
  <1>3. IsFiniteSet(Tenants(k))
    <2>1. k \in Int /\ made \in Int
      BY <1>1
    <2>2. IsFiniteSet(k..made)
      BY <2>1, FS_Interval
    <2>3. QED
      BY <1>2, <2>2, FS_Subset
  <1>4. Cardinality(Tenants(k)) \in Nat /\ Cardinality(Tenants(k)) # 0
    BY <1>2, <1>3, FS_CardinalityType, FS_EmptySet
  <1>5. QED
    BY <1>2, <1>3, <1>4

LEMMA ReleasesNat ==
    ASSUME RegistryTypes, NEW k \in 1..made
    PROVE  Releases(k) \in Nat
  BY TenantsCount DEF Releases

\* The next generation is the one after the n-th.
LEMMA LaterStep ==
    ASSUME NEW g \in 1..MaxGeneration, NEW n \in Nat
    PROVE  /\ Later(g, 0) = g
           /\ n + 1 < MaxGeneration =>
                 NextGeneration(Later(g, n)) = Later(g, n + 1)
           /\ 0 < n /\ n < MaxGeneration => Later(g, n) # g
  BY GenerationAssumption DEF Later, NextGeneration

\* Sequences with an element replaced and one added.
LEMMA SequencesChange ==
    ASSUME NEW S, NEW q \in Seq(S), NEW e \in S
    PROVE  /\ \A i \in DOMAIN q :
                 /\ q[i] \in S
                 /\ [q EXCEPT ![i] = e] \in Seq(S)
                 /\ DOMAIN [q EXCEPT ![i] = e] = DOMAIN q
           /\ Append(q, e) \in Seq(S)
           /\ DOMAIN Append(q, e) = DOMAIN q \cup {Len(q) + 1}
           /\ Append(q, e)[Len(q) + 1] = e
           /\ \A i \in DOMAIN q : Append(q, e)[i] = q[i]
  OBVIOUS

\* Entries of the registry's slots.
LEMMA EntryTypes ==
    /\ \A g \in 1..MaxGeneration, k \in 0..MaxControls :
          [generation |-> g, control |-> k] \in Entries
    /\ \A e \in Entries : e.generation \in 1..MaxGeneration /\ e.control \in 0..MaxControls
  BY DEF Entries

\* The new control in a slot that was free, or did not exist.
LEMMA PlacedKnown ==
    ASSUME HandleInv, NEW s \in Nat \ {0}, NEW g \in 1..MaxGeneration,
           made < MaxControls, made' = made + 1,
           handle' = [handle EXCEPT ![made + 1] = [slot |-> s, generation |-> g]],
           slots' \in Seq(Entries),
           DOMAIN slots' = DOMAIN slots \cup {s},
           slots'[s] = [generation |-> g, control |-> made + 1],
           \A r \in DOMAIN slots \ {s} : slots'[r] = slots[r],
           s \in DOMAIN slots => slots[s].control = 0 /\ slots[s].generation = g
    PROVE  /\ made' \in 0..MaxControls /\ handle' \in [Controls -> Handles \cup {NoHandle}]
           /\ \A k \in 1..made' :
                 handle'[k] \in Handles /\ handle'[k].slot \in DOMAIN slots'
           /\ \A r \in DOMAIN slots' :
                 /\ slots'[r].control \in 0..made'
                 /\ slots'[r].control # 0 =>
                       /\ handle'[slots'[r].control] =
                             [slot |-> r, generation |-> slots'[r].generation]
                       /\ \A k \in 1..made' :
                             handle'[k].slot = r => k <= slots'[r].control
           /\ GenerationsTell'
  <1>1. made \in Nat /\ made + 1 \in Controls
    BY BoundsAssumption DEF HandleInv, RegistryTypes, Controls
  <1>2. /\ \A k \in 1..made : handle'[k] = handle[k]
        /\ handle'[made + 1] = [slot |-> s, generation |-> g]
        /\ 1..made' = 1..made \cup {made + 1}
    BY <1>1 DEF HandleInv, RegistryTypes, Controls
  <1>3. [slot |-> s, generation |-> g] \in Handles
    BY DEF Handles
  <1>4. made' \in 0..MaxControls /\ handle' \in [Controls -> Handles \cup {NoHandle}]
    BY <1>1, <1>3, BoundsAssumption DEF HandleInv, RegistryTypes
  <1>5. \A k \in 1..made' : handle'[k] \in Handles /\ handle'[k].slot \in DOMAIN slots'
    BY <1>2, <1>3 DEF HandleInv, SlotsKnown
  <1>6. ASSUME NEW r \in DOMAIN slots'
        PROVE  /\ slots'[r].control \in 0..made'
               /\ slots'[r].control # 0 =>
                     /\ handle'[slots'[r].control] =
                           [slot |-> r, generation |-> slots'[r].generation]
                     /\ \A k \in 1..made' :
                           handle'[k].slot = r => k <= slots'[r].control
    <2>1. CASE r = s
      BY <1>1, <1>2, <2>1
    <2>2. CASE r # s
      <3>1. r \in DOMAIN slots /\ slots'[r] = slots[r]
        BY <2>2
      <3>2. slots[r].control \in 0..made
        BY <3>1 DEF HandleInv, SlotsKnown
      <3>3. slots[r].control # 0 => slots[r].control \in 1..made
        BY <1>1, <3>2
      <3>4. slots[r].control # 0 =>
               handle'[slots[r].control] =
                  [slot |-> r, generation |-> slots[r].generation]
        BY <1>2, <3>1, <3>3 DEF HandleInv, SlotsOnce
      <3>5. ASSUME slots[r].control # 0, NEW k \in 1..made', handle'[k].slot = r
            PROVE  k <= slots[r].control
        <4>1. k \in 1..made
          BY <1>2, <2>2, <3>5
        <4>2. handle[k].slot = r
          BY <1>2, <3>5, <4>1
        <4>3. QED
          BY <3>1, <3>5, <4>1, <4>2 DEF HandleInv, SlotsKnown
      <3>6. QED
        BY <1>1, <3>1, <3>2, <3>4, <3>5
    <2>3. QED
      BY <2>1, <2>2
  <1>7. GenerationsTell'
    <2> SUFFICES ASSUME NEW k \in 1..made', Releases(k)' < MaxGeneration
                 PROVE  slots'[handle'[k].slot].generation =
                           Later(handle'[k].generation, Releases(k)')
      BY DEF GenerationsTell
    <2>1. CASE k = made + 1
      <3>1. Tenants(k)' = {k}
        BY <1>1, <2>1 DEF Tenants
      <3>2. Cardinality(Tenants(k)') = 1
        BY <3>1, FS_Singleton
      <3>3. handle'[k].slot = s /\ slots'[s].control # 0
        BY <1>1, <1>2, <2>1
      <3>4. Releases(k)' = 0
        BY <3>2, <3>3 DEF Releases
      <3>5. QED
        BY <1>2, <2>1, <3>4, LaterStep
    <2>2. CASE k \in 1..made
      <3> DEFINE q == handle[k].slot
      <3>1. handle'[k] = handle[k] /\ q \in DOMAIN slots /\ handle[k] \in Handles
        BY <1>2, <2>2 DEF HandleInv, SlotsKnown
      <3>2. CASE q = s
        <4>1. Tenants(k)' = Tenants(k) \cup {made + 1}
          BY <1>1, <1>2, <2>2, <3>1, <3>2 DEF Tenants
        <4>2. made + 1 \notin Tenants(k)
          BY <1>1 DEF Tenants
        <4>3. Cardinality(Tenants(k)') = Cardinality(Tenants(k)) + 1
          BY <2>2, <4>1, <4>2, TenantsCount, FS_AddElement DEF HandleInv
        <4>4. Cardinality(Tenants(k)) \in Nat
          BY <2>2, TenantsCount DEF HandleInv
        <4>5. Releases(k)' = Cardinality(Tenants(k)')  - 1
          BY <1>1, <3>1, <3>2 DEF Releases
        <4>6. Releases(k) = Cardinality(Tenants(k))
          BY <3>1, <3>2 DEF Releases
        <4>7. Releases(k)' = Releases(k)
          BY <4>3, <4>4, <4>5, <4>6
        <4>8. slots[q].generation = Later(handle[k].generation, Releases(k))
          BY <2>2, <4>7 DEF HandleInv, GenerationsTell
        <4>9. QED
          BY <3>1, <3>2, <4>7, <4>8
      <3>3. CASE q # s
        <4>1. Tenants(k)' = Tenants(k)
          BY <1>1, <1>2, <2>2, <3>1, <3>3 DEF Tenants
        <4>2. slots'[q] = slots[q]
          BY <3>1, <3>3
        <4>3. Releases(k)' = Releases(k)
          BY <3>1, <4>1, <4>2 DEF Releases
        <4>4. slots[q].generation = Later(handle[k].generation, Releases(k))
          BY <2>2, <4>3 DEF HandleInv, GenerationsTell
        <4>5. QED
          BY <3>1, <4>2, <4>3, <4>4
      <3>4. QED
        BY <3>2, <3>3
    <2>3. QED
      BY <1>2, <2>1, <2>2
  <1>8. QED
    BY <1>4, <1>5, <1>6, <1>7

\* The new control's slot comes from the end of the free list, or is new.
LEMMA CreateKeepsHandles ==
    ASSUME HandleInv, NEW t \in Threads, Create(t)
    PROVE  HandleInv'
  <1>1. made \in Nat /\ made < MaxControls /\ made' = made + 1
    BY BoundsAssumption DEF HandleInv, RegistryTypes, Create
  <1>2. PICK d \in Deadlines, n \in Capacities :
            /\ capacity' = [capacity EXCEPT ![made + 1] = n]
            /\ \/ /\ free # <<>>
                  /\ LET s == free[Len(free)]
                         g == slots[s].generation
                     IN  /\ free' = SubSeq(free, 1, Len(free) - 1)
                         /\ slots' = [slots EXCEPT ![s] =
                                         [generation |-> g, control |-> made + 1]]
                         /\ handle' = [handle EXCEPT ![made + 1] =
                                          [slot |-> s, generation |-> g]]
               \/ /\ free = <<>>
                  /\ slots' = Append(slots, [generation |-> 1, control |-> made + 1])
                  /\ handle' = [handle EXCEPT ![made + 1] =
                                   [slot |-> Len(slots) + 1, generation |-> 1]]
                  /\ UNCHANGED free
    BY DEF Create
  <1>3. capacity' \in [Controls -> Nat]
    BY <1>2, CreateAssumption DEF HandleInv, RegistryTypes
  <1>4. CASE free # <<>>
    <2> DEFINE s == free[Len(free)]
               g == slots[s].generation
    <2>1. /\ free' = SubSeq(free, 1, Len(free) - 1)
          /\ slots' = [slots EXCEPT ![s] = [generation |-> g, control |-> made + 1]]
          /\ handle' = [handle EXCEPT ![made + 1] = [slot |-> s, generation |-> g]]
      BY <1>2, <1>4
    <2>2. /\ Len(free) \in Nat \ {0} /\ Len(free) \in DOMAIN free
          /\ DOMAIN slots \subseteq Nat \ {0}
      BY <1>4 DEF HandleInv, RegistryTypes
    <2>3. s \in DOMAIN slots /\ slots[s].control = 0
      BY <2>2 DEF HandleInv, SlotsKnown, SlotsOnce
    <2>4. slots[s] \in Entries /\ g \in 1..MaxGeneration
      BY <2>3, EntryTypes DEF HandleInv, RegistryTypes
    <2>5. /\ slots' \in Seq(Entries)
          /\ DOMAIN slots' = DOMAIN slots \cup {s}
          /\ slots'[s] = [generation |-> g, control |-> made + 1]
          /\ \A r \in DOMAIN slots \ {s} : slots'[r] = slots[r]
      <3> DEFINE e == [generation |-> g, control |-> made + 1]
      <3>1. e \in Entries
        BY <1>1, <2>4, EntryTypes, BoundsAssumption
      <3>2. slots' = [slots EXCEPT ![s] = e] /\ slots \in Seq(Entries)
        BY <2>1 DEF HandleInv, RegistryTypes
      <3> HIDE DEF e, s, g
      <3>3. slots' \in Seq(Entries) /\ DOMAIN slots' = DOMAIN slots
        BY <2>3, <3>1, <3>2, SequencesChange
      <3>4. slots'[s] = e /\ \A r \in DOMAIN slots \ {s} : slots'[r] = slots[r]
        BY <2>3, <3>2
      <3>5. QED
        BY <2>3, <3>3, <3>4 DEF e
    <2>6. s \in Nat \ {0}
      BY <2>2, <2>3
    <2> HIDE DEF s, g
    <2>7. /\ free' \in Seq(Nat \ {0}) /\ DOMAIN free' = 1..(Len(free) - 1)
          /\ \A i \in DOMAIN free' : i \in DOMAIN free /\ free'[i] = free[i]
      BY <2>1, <2>2 DEF HandleInv, RegistryTypes
    <2>8. \A i \in DOMAIN free' : free'[i] # s
      BY <2>2, <2>7 DEF s, HandleInv, SlotsOnce
    <2>9. \A i \in DOMAIN free : i \in DOMAIN free' \/ free[i] = s
      BY <2>2, <2>7 DEF s, HandleInv, RegistryTypes
    <2>10. /\ \A i \in DOMAIN free' : free'[i] \in DOMAIN slots'
           /\ \A i, j \in DOMAIN free' : free'[i] = free'[j] => i = j
      BY <2>5, <2>7 DEF HandleInv, SlotsOnce, SlotsKnown
    <2>11. ASSUME NEW r \in DOMAIN slots'
           PROVE  (slots'[r].control = 0) <=> \E i \in DOMAIN free' : free'[i] = r
      <3>1. CASE r = s
        BY <1>1, <2>5, <2>8, <3>1
      <3>2. CASE r # s
        <4>1. (slots[r].control = 0) <=> \E i \in DOMAIN free : free[i] = r
          BY <2>5, <3>2 DEF HandleInv, SlotsOnce
        <4>2. QED
          BY <2>5, <2>7, <2>9, <3>2, <4>1
      <3>3. QED
        BY <3>1, <3>2
    <2>12. /\ made' \in 0..MaxControls
           /\ handle' \in [Controls -> Handles \cup {NoHandle}]
           /\ \A k \in 1..made' :
                 handle'[k] \in Handles /\ handle'[k].slot \in DOMAIN slots'
           /\ \A r \in DOMAIN slots' :
                 /\ slots'[r].control \in 0..made'
                 /\ slots'[r].control # 0 =>
                       /\ handle'[slots'[r].control] =
                             [slot |-> r, generation |-> slots'[r].generation]
                       /\ \A k \in 1..made' :
                             handle'[k].slot = r => k <= slots'[r].control
           /\ GenerationsTell'
      BY <1>1, <2>1, <2>3, <2>4, <2>5, <2>6, PlacedKnown DEF g
    <2>13. RegistryTypes'
      BY <1>3, <2>5, <2>7, <2>12 DEF RegistryTypes
    <2>14. SlotsOnce' /\ SlotsKnown'
      BY <2>10, <2>11, <2>12 DEF SlotsOnce, SlotsKnown
    <2>15. QED
      BY <2>12, <2>13, <2>14 DEF HandleInv
  <1>5. CASE free = <<>>
    <2> DEFINE s == Len(slots) + 1
    <2>1. /\ free' = <<>>
          /\ slots' = Append(slots, [generation |-> 1, control |-> made + 1])
          /\ handle' = [handle EXCEPT ![made + 1] = [slot |-> s, generation |-> 1]]
      BY <1>2, <1>5
    <2>2. s \in Nat \ {0} /\ s \notin DOMAIN slots /\ 1 \in 1..MaxGeneration
      BY GenerationAssumption DEF HandleInv, RegistryTypes
    <2>3. /\ slots' \in Seq(Entries)
          /\ DOMAIN slots' = DOMAIN slots \cup {s}
          /\ slots'[s] = [generation |-> 1, control |-> made + 1]
          /\ \A r \in DOMAIN slots \ {s} : slots'[r] = slots[r]
      <3> DEFINE e == [generation |-> 1, control |-> made + 1]
      <3>1. e \in Entries
        BY <1>1, <2>2, EntryTypes, BoundsAssumption
      <3>2. slots' = Append(slots, e) /\ slots \in Seq(Entries)
        BY <2>1 DEF HandleInv, RegistryTypes
      <3> HIDE DEF e
      <3>3. /\ slots' \in Seq(Entries) /\ DOMAIN slots' = DOMAIN slots \cup {s}
            /\ slots'[s] = e /\ \A r \in DOMAIN slots : slots'[r] = slots[r]
        BY <3>1, <3>2, SequencesChange
      <3>4. QED
        BY <3>3 DEF e
    <2> HIDE DEF s
    <2>4. /\ made' \in 0..MaxControls
          /\ handle' \in [Controls -> Handles \cup {NoHandle}]
          /\ \A k \in 1..made' :
                handle'[k] \in Handles /\ handle'[k].slot \in DOMAIN slots'
          /\ \A r \in DOMAIN slots' :
                /\ slots'[r].control \in 0..made'
                /\ slots'[r].control # 0 =>
                      /\ handle'[slots'[r].control] =
                            [slot |-> r, generation |-> slots'[r].generation]
                      /\ \A k \in 1..made' :
                            handle'[k].slot = r => k <= slots'[r].control
          /\ GenerationsTell'
      BY <1>1, <2>1, <2>2, <2>3, PlacedKnown
    <2>5. \A r \in DOMAIN slots' : slots'[r].control # 0
      BY <1>1, <1>5, <2>3 DEF HandleInv, SlotsOnce
    <2>6. RegistryTypes'
      BY <1>3, <2>1, <2>3, <2>4 DEF RegistryTypes
    <2>7. SlotsOnce' /\ SlotsKnown'
      <3>1. DOMAIN free' = {}
        BY <2>1
      <3>2. QED
        BY <2>4, <2>5, <3>1 DEF SlotsOnce, SlotsKnown
    <2>8. QED
      BY <2>4, <2>6, <2>7 DEF HandleInv
  <1>6. QED
    BY <1>4, <1>5


\* What a handle reaches is in the slot it names.
LEMMA ReachedHeld ==
    ASSUME HandleInv, NEW k \in 1..made, Reaches(handle[k]) # 0
    PROVE  /\ handle[k].slot \in DOMAIN slots
           /\ slots[handle[k].slot].control = Reaches(handle[k])
           /\ slots[handle[k].slot].generation = handle[k].generation
           /\ Reaches(handle[k]) \in 1..made
  <1>1. made \in Nat
    BY BoundsAssumption DEF HandleInv, RegistryTypes
  <1>2. handle[k].slot \in DOMAIN slots
    BY DEF HandleInv, SlotsKnown
  <1>3. slots[handle[k].slot].control \in 0..made
    BY <1>2 DEF HandleInv, SlotsKnown
  <1>4. QED
    BY <1>1, <1>2, <1>3 DEF Reaches

\* A release frees the slot and advances its generation, for all its tenants.
LEMMA ReleaseKeepsHandles ==
    ASSUME HandleInv, NEW t \in Threads, Release(t)
    PROVE  HandleInv'
  <1>1. PICK k \in 1..made :
            /\ Reaches(handle[k]) # 0
            /\ slots' = [slots EXCEPT ![handle[k].slot] =
                   [generation |-> NextGeneration(@.generation), control |-> 0]]
            /\ free' = Append(free, handle[k].slot)
            /\ UNCHANGED <<made, handle, capacity>>
    BY DEF Release, Lookup
  <1> DEFINE s == handle[k].slot
             e == [generation |-> NextGeneration(slots[s].generation), control |-> 0]
  <1>2. s \in DOMAIN slots /\ slots[s].control # 0
    BY <1>1, ReachedHeld
  <1>3. slots[s].generation \in 1..MaxGeneration
    BY <1>2, EntryTypes DEF HandleInv, RegistryTypes
  <1>4. NextGeneration(slots[s].generation) \in 1..MaxGeneration
    BY <1>3, GenerationAssumption DEF NextGeneration
  <1>5. e \in Entries
    BY <1>4, EntryTypes, BoundsAssumption
  <1>6. slots \in Seq(Entries) /\ free \in Seq(Nat \ {0}) /\ s \in Nat \ {0}
    BY <1>2 DEF HandleInv, RegistryTypes
  <1>7. /\ slots' = [slots EXCEPT ![s] = e]
        /\ free' = Append(free, s)
    BY <1>1, <1>2
  <1>8. /\ slots' \in Seq(Entries) /\ DOMAIN slots' = DOMAIN slots
        /\ slots'[s] = e /\ \A r \in DOMAIN slots \ {s} : slots'[r] = slots[r]
    <2> HIDE DEF e, s
    <2>1. QED
      BY <1>2, <1>5, <1>6, <1>7, SequencesChange
  <1>9. /\ free' \in Seq(Nat \ {0}) /\ DOMAIN free' = DOMAIN free \cup {Len(free) + 1}
        /\ free'[Len(free) + 1] = s /\ \A i \in DOMAIN free : free'[i] = free[i]
    <2> HIDE DEF e, s
    <2>1. QED
      BY <1>6, <1>7, SequencesChange
  <1>10. slots'[s].control = 0
         /\ slots'[s].generation = NextGeneration(slots[s].generation)
    BY <1>8
  <1>11. \A i \in DOMAIN free : free[i] # s
    BY <1>2 DEF HandleInv, SlotsOnce
  <1> HIDE DEF e, s
  <1>12. RegistryTypes'
    BY <1>1, <1>8, <1>9 DEF HandleInv, RegistryTypes
  <1>13. SlotsOnce'
    <2>1. \A i, j \in DOMAIN free' : free'[i] = free'[j] => i = j
      BY <1>9, <1>11 DEF HandleInv, SlotsOnce
    <2>2. ASSUME NEW r \in DOMAIN slots'
          PROVE  (slots'[r].control = 0) <=> \E i \in DOMAIN free' : free'[i] = r
      <3>1. CASE r = s
        BY <1>9, <1>10, <3>1
      <3>2. CASE r # s
        <4>1. slots'[r] = slots[r] /\ r \in DOMAIN slots
          BY <1>8, <3>2
        <4>2. (slots[r].control = 0) <=> \E i \in DOMAIN free : free[i] = r
          BY <4>1 DEF HandleInv, SlotsOnce
        <4>3. QED
          BY <1>9, <3>2, <4>1, <4>2
      <3>3. QED
        BY <3>1, <3>2
    <2>3. ASSUME NEW r \in DOMAIN slots', slots'[r].control # 0
          PROVE  handle'[slots'[r].control] =
                    [slot |-> r, generation |-> slots'[r].generation]
      <3>1. slots'[r] = slots[r] /\ r \in DOMAIN slots
        BY <1>8, <1>10, <2>3
      <3>2. QED
        BY <1>1, <2>3, <3>1 DEF HandleInv, SlotsOnce
    <2>4. QED
      BY <2>1, <2>2, <2>3 DEF SlotsOnce
  <1>14. SlotsKnown'
    <2>1. \A j \in 1..made' : handle'[j] \in Handles /\ handle'[j].slot \in DOMAIN slots'
      BY <1>1, <1>8 DEF HandleInv, SlotsKnown
    <2>2. \A i \in DOMAIN free' : free'[i] \in DOMAIN slots'
      BY <1>2, <1>8, <1>9 DEF HandleInv, SlotsKnown
    <2>3. ASSUME NEW r \in DOMAIN slots'
          PROVE  /\ slots'[r].control \in 0..made'
                 /\ slots'[r].control # 0 =>
                       \A j \in 1..made' : handle'[j].slot = r => j <= slots'[r].control
      <3>1. CASE r = s
        <4>1. made' \in Nat
          BY <1>1, BoundsAssumption DEF HandleInv, RegistryTypes
        <4>2. QED
          BY <1>10, <3>1, <4>1
      <3>2. CASE r # s
        <4>1. slots'[r] = slots[r] /\ r \in DOMAIN slots
          BY <1>8, <3>2
        <4>2. QED
          BY <1>1, <4>1 DEF HandleInv, SlotsKnown
      <3>3. QED
        BY <3>1, <3>2
    <2>4. QED
      BY <2>1, <2>2, <2>3 DEF SlotsKnown
  <1>15. GenerationsTell'
    <2> SUFFICES ASSUME NEW j \in 1..made, Releases(j)' < MaxGeneration
                 PROVE  slots'[handle[j].slot].generation =
                           Later(handle[j].generation, Releases(j)')
      BY <1>1 DEF GenerationsTell
    <2>1. /\ handle[j].slot \in DOMAIN slots
          /\ handle[j].generation \in 1..MaxGeneration
      BY DEF HandleInv, SlotsKnown, Handles
    <2>2. Tenants(j)' = Tenants(j)
      BY <1>1 DEF Tenants
    <2>3. CASE handle[j].slot = s
      <3>1. Releases(j) = Cardinality(Tenants(j)) - 1
        BY <1>2, <2>3 DEF Releases
      <3>2. Releases(j)' = Cardinality(Tenants(j))
        BY <1>1, <1>10, <2>2, <2>3 DEF Releases
      <3>3. Releases(j) \in Nat /\ Cardinality(Tenants(j)) \in Nat
        BY ReleasesNat, TenantsCount DEF HandleInv
      <3>4. Releases(j)' = Releases(j) + 1
        BY <3>1, <3>2, <3>3
      <3>5. Releases(j) < MaxGeneration
        BY <3>3, <3>4, GenerationAssumption
      <3>6. slots[s].generation = Later(handle[j].generation, Releases(j))
        BY <2>3, <3>5 DEF HandleInv, GenerationsTell
      <3>7. QED
        BY <1>10, <2>1, <2>3, <3>3, <3>4, <3>6, LaterStep
    <2>4. CASE handle[j].slot # s
      <3>1. slots'[handle[j].slot] = slots[handle[j].slot]
        BY <1>8, <2>1, <2>4
      <3>2. Releases(j)' = Releases(j)
        BY <1>1, <2>2, <3>1 DEF Releases
      <3>3. QED
        BY <3>1, <3>2 DEF HandleInv, GenerationsTell
    <2>5. QED
      BY <2>3, <2>4
  <1>16. QED
    BY <1>12, <1>13, <1>14, <1>15 DEF HandleInv

\* Between a handle and the control it reaches, all generations were used.
LEMMA HandlesTell == HandleInv => HandlesReachTheirs
  <1> SUFFICES ASSUME HandleInv, NEW k \in 1..made,
                      Reaches(handle[k]) # 0, Reaches(handle[k]) # k
               PROVE  /\ Reaches(handle[k]) > k
                      /\ Cardinality({i \in k..(Reaches(handle[k]) - 1) :
                                        handle[i].slot = handle[k].slot})
                            >= MaxGeneration
    BY DEF HandlesReachTheirs
  <1> DEFINE r == Reaches(handle[k])
             s == handle[k].slot
             reused == {i \in k..(r - 1) : handle[i].slot = s}
  <1>1. /\ s \in DOMAIN slots /\ slots[s].control = r
        /\ slots[s].generation = handle[k].generation /\ r \in 1..made
    BY ReachedHeld
  <1>2. made \in Nat /\ handle[k].generation \in 1..MaxGeneration
    BY BoundsAssumption DEF HandleInv, RegistryTypes, SlotsKnown, Handles
  <1>3. handle[r].slot = s
    <2>1. handle[slots[s].control] = [slot |-> s, generation |-> slots[s].generation]
      BY <1>1 DEF HandleInv, SlotsOnce
    <2>2. QED
      BY <1>1, <2>1
  <1>4. \A i \in 1..made : handle[i].slot = s => i <= r
    BY <1>1, <1>2 DEF HandleInv, SlotsKnown
  <1>5. r > k
    BY <1>1, <1>2, <1>4
  <1>6. Tenants(k) = reused \cup {r} /\ reused = Tenants(k) \ {r} /\ r \in Tenants(k)
    BY <1>1, <1>2, <1>3, <1>4, <1>5 DEF Tenants
  <1>7. k \in reused
    BY <1>1, <1>2, <1>5
  <1> HIDE DEF r, s, reused
  <1>8. IsFiniteSet(Tenants(k)) /\ Cardinality(Tenants(k)) \in Nat
    BY TenantsCount DEF HandleInv
  <1>9. IsFiniteSet(reused) /\ Cardinality(reused) = Cardinality(Tenants(k)) - 1
    BY <1>6, <1>8, FS_RemoveElement
  <1>10. Cardinality(reused) \in Nat /\ Cardinality(reused) # 0
    BY <1>7, <1>9, FS_CardinalityType, FS_EmptySet
  <1>11. Releases(k) = Cardinality(reused)
    BY <1>1, <1>9 DEF Releases, r, s
  <1>12. ASSUME Cardinality(reused) < MaxGeneration
         PROVE  FALSE
    <2>1. handle[k].generation = Later(handle[k].generation, Cardinality(reused))
      BY <1>1, <1>11, <1>12 DEF HandleInv, GenerationsTell, s
    <2>2. QED
      BY <1>2, <1>10, <1>12, <2>1, LaterStep
  <1>13. Cardinality(reused) >= MaxGeneration
    BY <1>10, <1>12, GenerationAssumption
  <1>14. QED
    BY <1>5, <1>13 DEF reused, r, s


-----------------------------------------------------------------------------
(* Threads.                                                                 *)

\* The positions the actions name are positions.
LEMMA Names ==
    /\ {"idle", "cancel", "record", "notify", "finish", "finish record", "look",
        "wait", "decide", "asleep", "woken", "push", "pop"} \subseteq Positions
    /\ {"caller", "deadline", "released"} \subseteq Reasons
  BY DEF Positions, Reasons

\* Controls that were created are controls.
LEMMA MadeNat ==
    HandleInv => /\ made \in Nat /\ made <= made
                 /\ 1..made \subseteq 0..MaxControls /\ 1..made \subseteq Controls
  BY BoundsAssumption DEF HandleInv, RegistryTypes, Controls

\* A thread that moves is still in a call, on the same control.
LEMMA MovedCalls ==
    ASSUME ThreadTypes, NEW t \in Threads, NEW p \in Positions
    PROVE  /\ Moved(t, p) \in Calls /\ Moved(t, p).at = p
           /\ p # "idle" => Moved(t, p).on = On(t)
  <1>1. thread[t] \in Calls
    BY DEF ThreadTypes
  <1>2. Idle \in Calls
    <2>1. "idle" \in Positions /\ "caller" \in Reasons
      BY Names
    <2>2. 0 \in 0..MaxControls
      BY BoundsAssumption
    <2>3. QED
      BY <2>1, <2>2 DEF Idle, Calls
  <1>3. CASE p = "idle"
    BY <1>2, <1>3 DEF Moved, Idle
  <1>4. CASE p # "idle"
    <2>1. Moved(t, p) = [thread[t] EXCEPT !.at = p]
      BY <1>4 DEF Moved
    <2>2. [thread[t] EXCEPT !.at = p] \in Calls
      BY <1>1 DEF Calls
    <2>3. QED
      BY <1>1, <1>4, <2>1, <2>2 DEF Calls, On
  <1>5. QED
    BY <1>3, <1>4

\* What no step towards or from a record changes.
Same(u) == thread'[u].at = thread[u].at /\ thread'[u].on = thread[u].on

Aside(u) == /\ ~At(u, "record") /\ ~At(u, "finish record")
            /\ thread'[u].at # "record" /\ thread'[u].at # "finish record"

\* Steps that neither take a control's mutex for a record nor write one.
LEMMA Unrecorded ==
    ASSUME HandleInv, OutcomeInv, UNCHANGED outcome, made' \in Nat, made <= made',
           ThreadTypes', \A u \in Threads : Same(u) \/ Aside(u),
           \A u \in Threads : \/ Same(u) \/ thread'[u].at = "idle"
                              \/ thread'[u].on \in 1..made
    PROVE  OutcomeInv'
  <1>1. made \in Nat
    BY BoundsAssumption DEF HandleInv, RegistryTypes
  <1>2. OutcomeTypes'
    BY DEF OutcomeInv, OutcomeTypes, outcome
  <1>3. ThreadsKnow'
    <2> SUFFICES ASSUME NEW u \in Threads, thread'[u].at # "idle"
                 PROVE  thread'[u].on \in 1..made'
      BY DEF ThreadsKnow, At, On
    <2>1. thread'[u].on \in 1..made
      BY DEF OutcomeInv, ThreadsKnow, At, On, Same
    <2>2. QED
      BY <1>1, <2>1
  <1>4. RecordersHold'
    BY DEF OutcomeInv, RecordersHold, At, On, Same, Aside, outcome
  <1>5. ASSUME NEW k \in Controls
        PROVE  FlagsRaised(k)'
    <2>1. dataLock[k] \in Threads \cup {None}
      BY DEF OutcomeInv, OutcomeTypes
    <2>2. /\ Recording(k, "record")' <=> Recording(k, "record")
          /\ Recording(k, "finish record")' <=> Recording(k, "finish record")
      BY <2>1 DEF Recording, Same, Aside, At, outcome
    <2>3. UNCHANGED <<cancelled[k], finished[k], reason[k], finish[k]>>
      BY DEF outcome
    <2>4. FlagsRaised(k)
      BY DEF OutcomeInv
    <2> QED
      BY <2>2, <2>3, <2>4 DEF FlagsRaised
  <1>6. QED
    BY <1>2, <1>3, <1>4, <1>5 DEF OutcomeInv

\* A move between positions that are not those of the records.
LEMMA GoUnrecorded ==
    ASSUME HandleInv, OutcomeInv, NEW t \in Threads, NEW p \in Positions,
           ~At(t, "idle"), ~At(t, "record"), ~At(t, "finish record"),
           p # "record", p # "finish record", Go(t, p),
           UNCHANGED outcome, made' = made
    PROVE  OutcomeInv'
  <1>1. ThreadTypes /\ made' \in Nat /\ made <= made'
    BY MadeNat DEF OutcomeInv
  <1>2. /\ Moved(t, p) \in Calls /\ Moved(t, p).at = p
        /\ p # "idle" => Moved(t, p).on = On(t)
    BY <1>1, MovedCalls
  <1>3. On(t) \in 1..made
    BY DEF OutcomeInv, ThreadsKnow
  <1>4. thread' = [thread EXCEPT ![t] = Moved(t, p)]
    BY DEF Go
  <1>5. ThreadTypes' /\ thread'[t] = Moved(t, p)
        /\ \A u \in Threads \ {t} : thread'[u] = thread[u]
    BY <1>1, <1>2, <1>4 DEF ThreadTypes
  <1>6. \A u \in Threads : Same(u) \/ Aside(u)
    BY <1>2, <1>5 DEF Same, Aside
  <1>7. \A u \in Threads : \/ Same(u) \/ thread'[u].at = "idle"
                           \/ thread'[u].on \in 1..made
    BY <1>2, <1>3, <1>5 DEF Same
  <1>8. QED
    BY <1>1, <1>5, <1>6, <1>7, Unrecorded

\* The same for the move that may turn to a cancel for the deadline.
LEMMA ExpireUnrecorded ==
    ASSUME HandleInv, OutcomeInv, NEW t \in Threads, NEW p \in {"idle", "decide"},
           NEW k, ~At(t, "idle"), ~At(t, "record"), ~At(t, "finish record"),
           ExpireThen(t, k, p), UNCHANGED outcome, made' = made
    PROVE  OutcomeInv'
  <1>1. CASE ~Overdue(k)
    BY <1>1, Names, GoUnrecorded DEF ExpireThen
  <1>2. CASE Overdue(k)
    <2> DEFINE call == [thread[t] EXCEPT !.at = "cancel", !.why = "deadline", !.then = p]
    <2>1. thread' = [thread EXCEPT ![t] = call]
      BY <1>2 DEF ExpireThen
    <2>2. ThreadTypes /\ made' \in Nat /\ made <= made' /\ thread[t] \in Calls
      BY MadeNat DEF OutcomeInv, ThreadTypes
    <2>3. "cancel" \in Positions /\ "deadline" \in Reasons
      BY Names
    <2>4. call \in Calls /\ call.at = "cancel" /\ call.on = thread[t].on
      BY <2>2, <2>3 DEF Calls
    <2> HIDE DEF call
    <2>5. ThreadTypes' /\ thread'[t] = call
          /\ \A u \in Threads \ {t} : thread'[u] = thread[u]
      BY <2>1, <2>2, <2>4 DEF ThreadTypes
    <2>6. thread[t].on \in 1..made
      BY DEF OutcomeInv, ThreadsKnow, On
    <2>7. \A u \in Threads : Same(u) \/ Aside(u)
      BY <2>4, <2>5 DEF Same, Aside
    <2>8. \A u \in Threads : \/ Same(u) \/ thread'[u].at = "idle"
                             \/ thread'[u].on \in 1..made
      BY <2>4, <2>5, <2>6 DEF Same
    <2>9. QED
      BY <2>2, <2>5, <2>7, <2>8, Unrecorded
  <1>3. QED
    BY <1>1, <1>2

\* A call that begins is on a control its handle reaches.
LEMMA LookupUnrecorded ==
    ASSUME HandleInv, OutcomeInv, NEW t \in Threads, NEW op, NEW k \in 1..made,
           NEW p \in Positions \ {"record", "finish record"}, NEW why \in Reasons,
           NEW limit \in {"never", "ahead"},
           Lookup(t, op, k, p, why, limit), UNCHANGED outcome, made' = made
    PROVE  OutcomeInv'
  <1> DEFINE call == [at |-> p, on |-> Reaches(handle[k]), why |-> why,
                      then |-> "idle", limit |-> limit]
  <1>1. /\ thread' = [thread EXCEPT ![t] = call]
        /\ At(t, "idle") /\ Reaches(handle[k]) # 0
    BY DEF Lookup
  <1>2. Reaches(handle[k]) \in 1..made
    BY <1>1, ReachedHeld
  <1>3. ThreadTypes /\ made' \in Nat /\ made <= made' /\ 1..made \subseteq 0..MaxControls
    BY MadeNat DEF OutcomeInv
  <1>4. Reaches(handle[k]) \in 0..MaxControls
    BY <1>2, <1>3
  <1>5. call \in Calls /\ call.at = p /\ call.on = Reaches(handle[k])
    BY <1>4 DEF Calls
  <1> HIDE DEF call
  <1>6. ThreadTypes' /\ thread'[t] = call
        /\ \A u \in Threads \ {t} : thread'[u] = thread[u]
    BY <1>1, <1>3, <1>5 DEF ThreadTypes
  <1>7. \A u \in Threads : Same(u) \/ Aside(u)
    BY <1>1, <1>5, <1>6 DEF Same, Aside, At
  <1>8. \A u \in Threads : \/ Same(u) \/ thread'[u].at = "idle"
                           \/ thread'[u].on \in 1..made
    BY <1>2, <1>5, <1>6 DEF Same
  <1>9. QED
    BY <1>3, <1>6, <1>7, <1>8, Unrecorded

\* What a thread that moves to p leaves and what it becomes.
LEMMA RecorderMoves ==
    ASSUME HandleInv, OutcomeInv, NEW t \in Threads, ~At(t, "idle"),
           NEW p \in Positions \ {"idle"}, Go(t, p), made' = made
    PROVE  /\ ThreadTypes' /\ ThreadsKnow'
           /\ At(t, p)' /\ thread'[t].on = On(t) /\ On(t) \in Controls
           /\ \A u \in Threads \ {t} : thread'[u] = thread[u]
  <1>1. ThreadTypes /\ 1..made \subseteq 0..MaxControls /\ made \in Nat
    BY MadeNat DEF OutcomeInv
  <1>2. Moved(t, p) \in Calls /\ Moved(t, p).at = p /\ Moved(t, p).on = On(t)
    BY <1>1, MovedCalls
  <1>3. thread' = [thread EXCEPT ![t] = Moved(t, p)]
    BY DEF Go
  <1>4. ThreadTypes' /\ thread'[t] = Moved(t, p)
        /\ \A u \in Threads \ {t} : thread'[u] = thread[u]
    BY <1>1, <1>2, <1>3 DEF ThreadTypes
  <1>5. On(t) \in 1..made
    BY DEF OutcomeInv, ThreadsKnow
  <1>6. On(t) \in Controls
    BY <1>1, <1>5, BoundsAssumption DEF Controls
  <1>7. ThreadsKnow'
    BY <1>2, <1>4, <1>5 DEF OutcomeInv, ThreadsKnow, At, On
  <1>8. QED
    BY <1>2, <1>4, <1>6, <1>7 DEF At

\* Taking or releasing the mutex of one's own control disturbs no other holder.
LEMMA HoldersKept ==
    ASSUME HandleInv, OutcomeInv, NEW t \in Threads, NEW k \in Controls,
           dataLock[k] \in {None, t},
           dataLock'[k] = t \/ ~(At(t, "record")' \/ At(t, "finish record")'),
           thread'[t].on = k,
           \A j \in Controls \ {k} : UNCHANGED dataLock[j],
           \A u \in Threads \ {t} : thread'[u] = thread[u]
    PROVE  RecordersHold'
  <1> SUFFICES ASSUME NEW u \in Threads,
                      thread'[u].at \in {"record", "finish record"}
               PROVE  dataLock'[thread'[u].on] = u
    BY DEF RecordersHold, At, On
  <1>1. CASE u = t
    BY <1>1 DEF At
  <1>2. CASE u # t
    <2>1. /\ At(u, "record") \/ At(u, "finish record")
          /\ thread'[u] = thread[u]
      BY <1>2 DEF At
    <2>2. dataLock[thread[u].on] = u
      BY <2>1 DEF OutcomeInv, RecordersHold, On
    <2>3. thread[u].on \in Controls
      <3>1. thread[u].on \in 1..made
        BY <2>1 DEF OutcomeInv, ThreadsKnow, At, On
      <3>2. QED
        BY <3>1, MadeNat
    <2>4. thread[u].on # k
      BY <1>2, <2>2, ThreadsAssumption
    <2>5. QED
      BY <2>1, <2>2, <2>3, <2>4
  <1>3. QED
    BY <1>1, <1>2

\* The first cancel raises the flag and keeps the mutex.
LEMMA CancelFlagKeeps ==
    ASSUME HandleInv, OutcomeInv, NEW t \in Threads, CancelFlag(t)
    PROVE  OutcomeInv'
  <1>1. At(t, "cancel") /\ Unlocked(On(t)) /\ made' = made
        /\ UNCHANGED <<finished, reason, finish>>
    BY DEF CancelFlag, Control, registry
  <1>2. CASE cancelled[On(t)]
    <2>1. Go(t, thread[t].then) /\ UNCHANGED outcome
      BY <1>1, <1>2 DEF CancelFlag, outcome
    <2>2. thread[t].then \in Positions \ {"record", "finish record"}
      BY Names DEF OutcomeInv, ThreadTypes, Calls
    <2>3. ~At(t, "idle") /\ ~At(t, "record") /\ ~At(t, "finish record")
      BY <1>1 DEF At
    <2>4. QED
      BY <1>1, <2>1, <2>2, <2>3, GoUnrecorded
  <1>3. CASE ~cancelled[On(t)]
    <2>1. /\ Go(t, "record")
          /\ cancelled' = [cancelled EXCEPT ![On(t)] = TRUE]
          /\ dataLock' = [dataLock EXCEPT ![On(t)] = t]
      BY <1>3 DEF CancelFlag
    <2>2. "record" \in Positions \ {"idle"} /\ ~At(t, "idle")
      BY <1>1, Names DEF At
    <2>3. /\ ThreadTypes' /\ ThreadsKnow'
          /\ At(t, "record")' /\ thread'[t].on = On(t) /\ On(t) \in Controls
          /\ \A u \in Threads \ {t} : thread'[u] = thread[u]
      BY <1>1, <2>1, <2>2, RecorderMoves
    <2>4. OutcomeTypes
      BY DEF OutcomeInv
    <2>5. OutcomeTypes'
      BY <1>1, <2>1, <2>3, <2>4 DEF OutcomeTypes
    <2>6. PICK k \in Controls : k = On(t)
      BY <2>3
    <2>7. /\ cancelled'[k] = TRUE /\ dataLock'[k] = t
          /\ \A j \in Controls \ {k} : UNCHANGED <<cancelled[j], dataLock[j]>>
          /\ dataLock[k] = None
      BY <1>1, <2>1, <2>4, <2>6 DEF OutcomeTypes, Unlocked
    <2>8. RecordersHold'
      BY <2>3, <2>6, <2>7, HoldersKept
    <2>9. ASSUME NEW j \in Controls
          PROVE  FlagsRaised(j)'
      <3>1. FlagsRaised(j) /\ dataLock[j] \in Threads \cup {None}
        BY <2>4 DEF OutcomeInv, OutcomeTypes
      <3>2. CASE j = k
        <4>1. /\ ~Recording(k, "record") /\ ~Recording(k, "finish record")
          BY <2>7 DEF Recording
        <4>2. Recording(k, "record")' /\ ~Recording(k, "finish record")'
          BY <2>3, <2>6, <2>7, ThreadsAssumption DEF Recording, At
        <4>3. reason[k] = "none"
          BY <1>3, <2>6, <3>1, <3>2, <4>1 DEF FlagsRaised
        <4>4. QED
          BY <1>1, <2>7, <3>1, <3>2, <4>1, <4>2, <4>3 DEF FlagsRaised
      <3>3. CASE j # k
        <4>1. UNCHANGED <<cancelled[j], dataLock[j], finished[j], reason[j], finish[j]>>
          BY <1>1, <2>7, <3>3
        <4>2. \A p : Recording(j, p)' <=> Recording(j, p)
          BY <2>3, <2>6, <3>1, <3>3, <4>1 DEF Recording, On
        <4>3. QED
          BY <3>1, <4>1, <4>2 DEF FlagsRaised
      <3>4. QED
        BY <3>2, <3>3
    <2>10. QED
      BY <2>3, <2>5, <2>8, <2>9 DEF OutcomeInv
  <1>4. QED
    BY <1>2, <1>3

\* The first finish raises its flag and keeps the mutex.
LEMMA FinishFlagKeeps ==
    ASSUME HandleInv, OutcomeInv, NEW t \in Threads, FinishFlag(t)
    PROVE  OutcomeInv'
  <1>1. At(t, "finish") /\ Unlocked(On(t)) /\ made' = made
        /\ UNCHANGED <<cancelled, reason, finish>>
    BY DEF FinishFlag, Control, registry
  <1>2. CASE finished[On(t)]
    <2>1. Go(t, "idle") /\ UNCHANGED outcome
      BY <1>1, <1>2 DEF FinishFlag, outcome
    <2>2. "idle" \in Positions
      BY Names
    <2>3. ~At(t, "idle") /\ ~At(t, "record") /\ ~At(t, "finish record")
      BY <1>1 DEF At
    <2>4. QED
      BY <1>1, <2>1, <2>2, <2>3, GoUnrecorded
  <1>3. CASE ~finished[On(t)]
    <2>1. /\ Go(t, "finish record")
          /\ finished' = [finished EXCEPT ![On(t)] = TRUE]
          /\ dataLock' = [dataLock EXCEPT ![On(t)] = t]
      BY <1>3 DEF FinishFlag
    <2>2. "finish record" \in Positions \ {"idle"} /\ ~At(t, "idle")
      BY <1>1, Names DEF At
    <2>3. /\ ThreadTypes' /\ ThreadsKnow'
          /\ At(t, "finish record")' /\ thread'[t].on = On(t) /\ On(t) \in Controls
          /\ \A u \in Threads \ {t} : thread'[u] = thread[u]
      BY <1>1, <2>1, <2>2, RecorderMoves
    <2>4. OutcomeTypes
      BY DEF OutcomeInv
    <2>5. OutcomeTypes'
      BY <1>1, <2>1, <2>3, <2>4 DEF OutcomeTypes
    <2>6. PICK k \in Controls : k = On(t)
      BY <2>3
    <2>7. /\ finished'[k] = TRUE /\ dataLock'[k] = t
          /\ \A j \in Controls \ {k} : UNCHANGED <<finished[j], dataLock[j]>>
          /\ dataLock[k] = None
      BY <1>1, <2>1, <2>4, <2>6 DEF OutcomeTypes, Unlocked
    <2>8. RecordersHold'
      BY <2>3, <2>6, <2>7, HoldersKept
    <2>9. ASSUME NEW j \in Controls
          PROVE  FlagsRaised(j)'
      <3>1. FlagsRaised(j) /\ dataLock[j] \in Threads \cup {None}
        BY <2>4 DEF OutcomeInv, OutcomeTypes
      <3>2. CASE j = k
        <4>1. /\ ~Recording(k, "record") /\ ~Recording(k, "finish record")
          BY <2>7 DEF Recording
        <4>2. ~Recording(k, "record")' /\ Recording(k, "finish record")'
          BY <2>3, <2>6, <2>7, ThreadsAssumption DEF Recording, At
        <4>3. finish[k] = None
          BY <1>3, <2>6, <3>1, <3>2, <4>1 DEF FlagsRaised
        <4>4. QED
          BY <1>1, <2>7, <3>1, <3>2, <4>1, <4>2, <4>3 DEF FlagsRaised
      <3>3. CASE j # k
        <4>1. UNCHANGED <<cancelled[j], dataLock[j], finished[j], reason[j], finish[j]>>
          BY <1>1, <2>7, <3>3
        <4>2. \A p : Recording(j, p)' <=> Recording(j, p)
          BY <2>3, <2>6, <3>1, <3>3, <4>1 DEF Recording, On
        <4>3. QED
          BY <3>1, <4>1, <4>2 DEF FlagsRaised
      <3>4. QED
        BY <3>2, <3>3
    <2>10. QED
      BY <2>3, <2>5, <2>8, <2>9 DEF OutcomeInv
  <1>4. QED
    BY <1>2, <1>3

\* The record is written while the mutex is held, over none.
LEMMA CancelRecordKeeps ==
    ASSUME HandleInv, OutcomeInv, NEW t \in Threads, CancelRecord(t)
    PROVE  OutcomeInv' /\ reason[On(t)] = "none"
  <1>1. /\ At(t, "record") /\ made' = made
        /\ reason' = [reason EXCEPT ![On(t)] = thread[t].why]
        /\ dataLock' = [dataLock EXCEPT ![On(t)] = None]
        /\ Go(t, "notify")
        /\ UNCHANGED <<cancelled, finished, finish>>
    BY DEF CancelRecord, Control, registry
  <1>2. "notify" \in Positions \ {"idle"} /\ ~At(t, "idle")
    BY <1>1, Names DEF At
  <1>3. /\ ThreadTypes' /\ ThreadsKnow'
        /\ At(t, "notify")' /\ thread'[t].on = On(t) /\ On(t) \in Controls
        /\ \A u \in Threads \ {t} : thread'[u] = thread[u]
    BY <1>1, <1>2, RecorderMoves
  <1>4. OutcomeTypes /\ thread[t].why \in Reasons /\ "none" \notin Reasons
    BY DEF OutcomeInv, ThreadTypes, Calls, Reasons
  <1>5. OutcomeTypes'
    BY <1>1, <1>4 DEF OutcomeTypes
  <1>6. PICK k \in Controls : k = On(t)
    BY <1>3
  <1>7. /\ reason'[k] = thread[t].why /\ dataLock'[k] = None
        /\ \A j \in Controls \ {k} : UNCHANGED <<reason[j], dataLock[j]>>
    BY <1>1, <1>4, <1>6 DEF OutcomeTypes
  <1>8. dataLock[k] = t
    BY <1>1, <1>6 DEF OutcomeInv, RecordersHold
  <1>9. RecordersHold'
    BY <1>3, <1>6, <1>7, <1>8, HoldersKept DEF At
  <1>10. Recording(k, "record") /\ ~Recording(k, "finish record")
    BY <1>1, <1>6, <1>8, ThreadsAssumption DEF Recording, At, On
  <1>11. FlagsRaised(k)
    BY DEF OutcomeInv
  <1>12. ASSUME NEW j \in Controls
         PROVE  FlagsRaised(j)'
    <2>1. FlagsRaised(j) /\ dataLock[j] \in Threads \cup {None}
      BY <1>4 DEF OutcomeInv, OutcomeTypes
    <2>2. CASE j = k
      <3>1. \A p : ~Recording(k, p)'
        BY <1>7 DEF Recording
      <3>2. reason'[k] # "none"
        BY <1>4, <1>7
      <3>3. QED
        BY <1>1, <1>10, <1>11, <2>2, <3>1, <3>2 DEF FlagsRaised
    <2>3. CASE j # k
      <3>1. UNCHANGED <<cancelled[j], dataLock[j], finished[j], reason[j], finish[j]>>
        BY <1>1, <1>7, <2>3
      <3>2. \A p : Recording(j, p)' <=> Recording(j, p)
        BY <1>3, <1>6, <2>1, <2>3, <3>1 DEF Recording, On
      <3>3. QED
        BY <2>1, <3>1, <3>2 DEF FlagsRaised
    <2>4. QED
      BY <2>2, <2>3
  <1>13. QED
    BY <1>3, <1>5, <1>6, <1>9, <1>10, <1>11, <1>12 DEF OutcomeInv, FlagsRaised

\* The same for the result.
LEMMA FinishRecordKeeps ==
    ASSUME HandleInv, OutcomeInv, NEW t \in Threads, FinishRecord(t)
    PROVE  OutcomeInv' /\ finish[On(t)] = None
  <1>1. /\ At(t, "finish record") /\ made' = made
        /\ finish' = [finish EXCEPT ![On(t)] = t]
        /\ dataLock' = [dataLock EXCEPT ![On(t)] = None]
        /\ Go(t, "notify")
        /\ UNCHANGED <<cancelled, finished, reason>>
    BY DEF FinishRecord, Control, registry
  <1>2. "notify" \in Positions \ {"idle"} /\ ~At(t, "idle")
    BY <1>1, Names DEF At
  <1>3. /\ ThreadTypes' /\ ThreadsKnow'
        /\ At(t, "notify")' /\ thread'[t].on = On(t) /\ On(t) \in Controls
        /\ \A u \in Threads \ {t} : thread'[u] = thread[u]
    BY <1>1, <1>2, RecorderMoves
  <1>4. OutcomeTypes /\ t # None
    BY ThreadsAssumption DEF OutcomeInv
  <1>5. OutcomeTypes'
    BY <1>1, <1>4 DEF OutcomeTypes
  <1>6. PICK k \in Controls : k = On(t)
    BY <1>3
  <1>7. /\ finish'[k] = t /\ dataLock'[k] = None
        /\ \A j \in Controls \ {k} : UNCHANGED <<finish[j], dataLock[j]>>
    BY <1>1, <1>4, <1>6 DEF OutcomeTypes
  <1>8. dataLock[k] = t
    BY <1>1, <1>6 DEF OutcomeInv, RecordersHold
  <1>9. RecordersHold'
    BY <1>3, <1>6, <1>7, <1>8, HoldersKept DEF At
  <1>10. ~Recording(k, "record") /\ Recording(k, "finish record")
    BY <1>1, <1>6, <1>8, ThreadsAssumption DEF Recording, At, On
  <1>11. FlagsRaised(k)
    BY DEF OutcomeInv
  <1>12. ASSUME NEW j \in Controls
         PROVE  FlagsRaised(j)'
    <2>1. FlagsRaised(j) /\ dataLock[j] \in Threads \cup {None}
      BY <1>4 DEF OutcomeInv, OutcomeTypes
    <2>2. CASE j = k
      <3>1. \A p : ~Recording(k, p)'
        BY <1>7 DEF Recording
      <3>2. finish'[k] # None
        BY <1>4, <1>7
      <3>3. QED
        BY <1>1, <1>10, <1>11, <2>2, <3>1, <3>2 DEF FlagsRaised
    <2>3. CASE j # k
      <3>1. UNCHANGED <<cancelled[j], dataLock[j], finished[j], reason[j], finish[j]>>
        BY <1>1, <1>7, <2>3
      <3>2. \A p : Recording(j, p)' <=> Recording(j, p)
        BY <1>3, <1>6, <2>1, <2>3, <3>1 DEF Recording, On
      <3>3. QED
        BY <2>1, <3>1, <3>2 DEF FlagsRaised
    <2>4. QED
      BY <2>2, <2>3
  <1>13. QED
    BY <1>3, <1>5, <1>6, <1>9, <1>10, <1>11, <1>12 DEF OutcomeInv, FlagsRaised

\* A notification wakes sleepers; nobody else moves.
LEMMA NotifyKeeps ==
    ASSUME HandleInv, OutcomeInv, NEW t \in Threads, Notify(t)
    PROVE  OutcomeInv'
  <1>1. /\ At(t, "notify") /\ UNCHANGED outcome /\ made' = made
        /\ thread' = [u \in Threads |->
               IF u = t THEN Moved(t, thread[t].then)
               ELSE IF At(u, "asleep") /\ On(u) = On(t) THEN Moved(u, "woken")
               ELSE thread[u]]
    BY DEF Notify, Control, registry
  <1>2. ThreadTypes /\ made' \in Nat /\ made <= made'
    BY <1>1, MadeNat DEF OutcomeInv
  <1>3. thread[t].then \in {"idle", "decide"} /\ {"idle", "decide", "woken"} \subseteq Positions
    BY <1>2, Names DEF ThreadTypes, Calls
  <1>4. /\ Moved(t, thread[t].then) \in Calls
        /\ Moved(t, thread[t].then).at = thread[t].then
        /\ thread[t].then # "idle" => Moved(t, thread[t].then).on = On(t)
    BY <1>2, <1>3, MovedCalls
  <1>5. \A u \in Threads : Moved(u, "woken") \in Calls /\ Moved(u, "woken").at = "woken"
                           /\ Moved(u, "woken").on = On(u)
    BY <1>2, <1>3, MovedCalls
  <1>6. \A u \in Threads : thread[u] \in Calls
    BY <1>2 DEF ThreadTypes
  <1>7. ThreadTypes'
    BY <1>1, <1>4, <1>5, <1>6 DEF ThreadTypes
  <1>8. On(t) \in 1..made
    BY <1>1 DEF OutcomeInv, ThreadsKnow, At
  <1>9. \A u \in Threads : Same(u) \/ Aside(u)
    BY <1>1, <1>3, <1>4, <1>5 DEF Same, Aside, At
  <1>10. \A u \in Threads : \/ Same(u) \/ thread'[u].at = "idle"
                            \/ thread'[u].on \in 1..made
    <2> SUFFICES ASSUME NEW u \in Threads
                 PROVE  Same(u) \/ thread'[u].at = "idle" \/ thread'[u].on \in 1..made
      OBVIOUS
    <2>1. CASE u = t
      BY <1>1, <1>3, <1>4, <1>8, <2>1
    <2>2. CASE u # t /\ At(u, "asleep") /\ On(u) = On(t)
      BY <1>1, <1>5, <1>8, <2>2
    <2>3. CASE u # t /\ ~(At(u, "asleep") /\ On(u) = On(t))
      BY <1>1, <2>3 DEF Same
    <2>4. QED
      BY <2>1, <2>2, <2>3
  <1>11. QED
    BY <1>1, <1>2, <1>7, <1>9, <1>10, Unrecorded

\* A timeout passes.
LEMMA TimeoutKeeps ==
    ASSUME HandleInv, OutcomeInv, NEW t \in Threads, TimeoutPasses(t)
    PROVE  OutcomeInv'
  <1>1. /\ thread' = [thread EXCEPT ![t].limit = "passed"]
        /\ UNCHANGED outcome /\ made' = made
    BY DEF TimeoutPasses, registry
  <1>2. ThreadTypes /\ made' \in Nat /\ made <= made' /\ thread[t] \in Calls
    BY <1>1, MadeNat DEF OutcomeInv, ThreadTypes
  <1>3. [thread[t] EXCEPT !.limit = "passed"] \in Calls
    BY <1>2 DEF Calls
  <1>4. ThreadTypes'
    BY <1>1, <1>2, <1>3 DEF ThreadTypes
  <1>5. \A u \in Threads : Same(u)
    BY <1>1, <1>2 DEF Same, ThreadTypes, Calls
  <1>6. QED
    BY <1>1, <1>2, <1>4, <1>5, Unrecorded

\* A thread's step in a wait keeps what the mutexes guard.
LEMMA WaitKeeps ==
    ASSUME HandleInv, OutcomeInv, NEW t \in Threads,
           WaitExpire(t) \/ WaitDecide(t) \/ WaitWoken(t) \/ SleepEnds(t)
           \/ WakesSpuriously(t) \/ Look(t)
    PROVE  OutcomeInv'
  <1>1. /\ ~At(t, "idle") /\ ~At(t, "record") /\ ~At(t, "finish record")
        /\ UNCHANGED outcome /\ made' = made
    BY DEF WaitExpire, WaitDecide, WaitWoken, SleepEnds, WakesSpuriously, Look,
           Decide, At, registry
  <1>2. {"idle", "asleep", "woken"} \subseteq Positions \ {"record", "finish record"}
    BY Names
  <1>3. \/ \E p \in {"idle", "decide"} : ExpireThen(t, On(t), p)
        \/ \E p \in {"idle", "asleep", "woken"} : Go(t, p)
    <2>1. CASE WaitExpire(t)
      BY <2>1 DEF WaitExpire
    <2>2. CASE WaitDecide(t)
      BY <2>2 DEF WaitDecide, Decide
    <2>3. CASE WaitWoken(t)
      BY <2>3 DEF WaitWoken, Decide
    <2>4. CASE SleepEnds(t)
      BY <2>4 DEF SleepEnds
    <2>5. CASE WakesSpuriously(t)
      BY <2>5 DEF WakesSpuriously
    <2>6. CASE Look(t)
      BY <2>6 DEF Look
    <2>7. QED
      BY <2>1, <2>2, <2>3, <2>4, <2>5, <2>6
  <1>4. CASE \E p \in {"idle", "decide"} : ExpireThen(t, On(t), p)
    BY <1>1, <1>4, ExpireUnrecorded
  <1>5. CASE \E p \in {"idle", "asleep", "woken"} : Go(t, p)
    BY <1>1, <1>2, <1>5, GoUnrecorded
  <1>6. QED
    BY <1>3, <1>4, <1>5

\* So does a report pushed or popped.
LEMMA ReportsKeepOutcomes ==
    ASSUME HandleInv, OutcomeInv, NEW t \in Threads, Push(t) \/ Pop(t)
    PROVE  OutcomeInv'
  <1>1. /\ ~At(t, "idle") /\ ~At(t, "record") /\ ~At(t, "finish record")
        /\ UNCHANGED outcome /\ made' = made
    BY DEF Push, Pop, At, registry
  <1>2. {"idle", "notify"} \subseteq Positions \ {"record", "finish record"}
    BY Names
  <1>3. \E p \in {"idle", "notify"} : Go(t, p)
    BY DEF Push, Pop
  <1>4. QED
    BY <1>1, <1>2, <1>3, GoUnrecorded

\* And the beginning of a call.
LEMMA BeginsKeepOutcomes ==
    ASSUME HandleInv, OutcomeInv, NEW t \in Threads, Begins(t)
    PROVE  OutcomeInv'
  <1>1. CASE Create(t)
    <2>1. UNCHANGED <<outcome, thread>> /\ made' = made + 1
      BY <1>1 DEF Create
    <2>2. made' \in Nat /\ made <= made' /\ ThreadTypes'
      BY <2>1, MadeNat DEF OutcomeInv, ThreadTypes
    <2>3. \A u \in Threads : Same(u)
      BY <2>1 DEF Same
    <2>4. QED
      BY <2>1, <2>2, <2>3, Unrecorded
  <1>2. ASSUME NEW op, NEW k \in 1..made,
               NEW p \in {"cancel", "finish", "look", "wait", "push", "pop"},
               NEW why \in {"caller", "released"}, NEW limit \in {"never", "ahead"},
               Lookup(t, op, k, p, why, limit), UNCHANGED outcome, made' = made
        PROVE  OutcomeInv'
    <2>1. p \in Positions \ {"record", "finish record"} /\ why \in Reasons
      BY Names
    <2>2. QED
      BY <1>2, <2>1, LookupUnrecorded
  <1>3. CASE Release(t)
    BY <1>2, <1>3 DEF Release
  <1>4. ASSUME NEW p \in {"cancel", "finish", "look", "wait", "push", "pop"}, Begin(t, p)
        PROVE  OutcomeInv'
    BY <1>2, <1>4 DEF Begin, registry
  <1>5. CASE BeginCancel(t) \/ BeginFinish(t) \/ BeginLook(t) \/ BeginPop(t)
    BY <1>4, <1>5 DEF BeginCancel, BeginFinish, BeginLook, BeginPop
  <1>6. CASE BeginWait(t)
    BY <1>2, <1>6 DEF BeginWait, registry
  <1>7. CASE BeginPush(t)
    BY <1>2, <1>7 DEF BeginPush, registry
  <1>8. QED
    BY <1>1, <1>3, <1>5, <1>6, <1>7 DEF Begins

\* Every step keeps flags, records and holders in agreement.
LEMMA OutcomeStep == HandleInv /\ OutcomeInv /\ [Next]_vars => OutcomeInv'
  <1> SUFFICES ASSUME HandleInv, OutcomeInv, [Next]_vars PROVE OutcomeInv'
    OBVIOUS
  <1>1. ASSUME UNCHANGED outcome, UNCHANGED thread, made' = made
        PROVE  OutcomeInv'
    <2>1. made' \in Nat /\ made <= made' /\ ThreadTypes'
      BY <1>1, MadeNat DEF OutcomeInv, ThreadTypes
    <2>2. \A u \in Threads : Same(u)
      BY <1>1 DEF Same
    <2>3. QED
      BY <1>1, <2>1, <2>2, Unrecorded
  <1>2. CASE UNCHANGED vars
    BY <1>1, <1>2 DEF vars, registry
  <1>3. CASE \E k \in 1..made : DeadlinePasses(k)
    BY <1>1, <1>3 DEF DeadlinePasses, registry
  <1>4. ASSUME NEW t \in Threads, Runs(t)
        PROVE  OutcomeInv'
    BY <1>4, CancelFlagKeeps, CancelRecordKeeps, FinishFlagKeeps, FinishRecordKeeps,
       NotifyKeeps, WaitKeeps, ReportsKeepOutcomes DEF Runs
  <1>5. QED
    BY <1>2, <1>3, <1>4, BeginsKeepOutcomes, TimeoutKeeps, WaitKeeps DEF Next

\* Every step keeps handles and slots in agreement.
LEMMA HandleStep == HandleInv /\ [Next]_vars => HandleInv'
  <1> SUFFICES ASSUME HandleInv, [Next]_vars PROVE HandleInv'
    OBVIOUS
  <1>1. CASE UNCHANGED vars
    BY <1>1, RegistryKept DEF vars
  <1>2. CASE \E k \in 1..made : DeadlinePasses(k)
    BY <1>2, RegistryKept DEF DeadlinePasses
  <1>3. ASSUME NEW t \in Threads, Begins(t)
        PROVE  HandleInv'
    BY <1>3, CreateKeepsHandles, ReleaseKeepsHandles, RegistryKept
       DEF Begins, BeginCancel, BeginFinish, BeginLook, BeginPop, Begin, BeginWait, BeginPush
  <1>4. ASSUME NEW t \in Threads, Runs(t)
        PROVE  HandleInv'
    BY <1>4, RegistryKept
       DEF Runs, CancelFlag, CancelRecord, Notify, FinishFlag, FinishRecord, Look,
           WaitExpire, WaitDecide, WaitWoken, Decide, SleepEnds, Push, Pop, Control,
           registry
  <1>5. ASSUME NEW t \in Threads, TimeoutPasses(t) \/ WakesSpuriously(t)
        PROVE  HandleInv'
    BY <1>5, RegistryKept DEF TimeoutPasses, WakesSpuriously
  <1>6. QED
    BY <1>1, <1>2, <1>3, <1>4, <1>5 DEF Next

-----------------------------------------------------------------------------
(* Reports.                                                                 *)

\* Who leaves the reports and the capacities alone.
LEMMA ReportsKept ==
    ReportInv /\ UNCHANGED <<reports, capacity, made>> => ReportInv'
  BY DEF ReportInv, ReportTypes, ProgressKept, reports

\* A queue of the newest of n reports, in order, after the first gone ones.
Numbered(q, gone, n) ==
    /\ q \in Seq(Nat \ {0})
    /\ Len(q) + gone = n
    /\ \A i \in DOMAIN q : q[i] = gone + i

\* A report is added.
LEMMA ReportAdded ==
    ASSUME NEW q, NEW gone \in Nat, NEW n \in Nat, Numbered(q, gone, n)
    PROVE  /\ Numbered(Append(q, n + 1), gone, n + 1)
           /\ Len(q) \in Nat /\ Len(Append(q, n + 1)) = Len(q) + 1
  <1>1. q \in Seq(Nat \ {0}) /\ Len(q) + gone = n /\ \A i \in DOMAIN q : q[i] = gone + i
    BY DEF Numbered
  <1>2. /\ Append(q, n + 1) \in Seq(Nat \ {0})
        /\ Len(Append(q, n + 1)) = Len(q) + 1 /\ Len(q) \in Nat
        /\ DOMAIN Append(q, n + 1) = 1..(Len(q) + 1) /\ DOMAIN q = 1..Len(q)
        /\ Append(q, n + 1)[Len(q) + 1] = n + 1
        /\ \A i \in 1..Len(q) : Append(q, n + 1)[i] = q[i]
    BY <1>1
  <1>3. ASSUME NEW i \in 1..(Len(q) + 1)
        PROVE  Append(q, n + 1)[i] = gone + i
    <2>1. CASE i \in 1..Len(q)
      BY <1>1, <1>2, <2>1
    <2>2. CASE i = Len(q) + 1
      BY <1>1, <1>2, <2>2
    <2>3. QED
      BY <1>2, <2>1, <2>2
  <1>4. Len(q) + 1 + gone = n + 1
    BY <1>1, <1>2
  <1>5. QED
    BY <1>2, <1>3, <1>4 DEF Numbered

\* The oldest report is taken.
LEMMA ReportTaken ==
    ASSUME NEW q, NEW gone \in Nat, NEW n \in Nat, Numbered(q, gone, n), q # <<>>
    PROVE  /\ Numbered(Tail(q), gone + 1, n)
           /\ Len(q) \in Nat /\ Len(Tail(q)) = Len(q) - 1
  <1>1. q \in Seq(Nat \ {0}) /\ Len(q) + gone = n /\ \A i \in DOMAIN q : q[i] = gone + i
    BY DEF Numbered
  <1>2. /\ Tail(q) \in Seq(Nat \ {0}) /\ Len(q) \in Nat
        /\ Len(Tail(q)) = Len(q) - 1 /\ DOMAIN Tail(q) = 1..(Len(q) - 1)
        /\ \A i \in 1..(Len(q) - 1) : Tail(q)[i] = q[i + 1] /\ i + 1 \in DOMAIN q
    BY <1>1
  <1>3. \A i \in 1..(Len(q) - 1) : Tail(q)[i] = gone + 1 + i
    BY <1>1, <1>2
  <1>4. Len(Tail(q)) + (gone + 1) = n
    BY <1>1, <1>2
  <1>5. QED
    BY <1>2, <1>3, <1>4 DEF Numbered

\* A control's part of the invariant.
Gone(k) == popped[k] + dropped[k]

ReportsOf(k) ==
    /\ Numbered(progress[k], Gone(k), pushed[k])
    /\ Len(progress[k]) <= capacity[k]
    /\ k > made => progress[k] = <<>>

LEMMA ReportParts ==
    ReportInv <=> ReportTypes /\ \A k \in Controls : ReportsOf(k)
  BY DEF ReportInv, ReportTypes, ReportsOf, Gone, Numbered, ProgressKept

\* The same in the next state.
LEMMA ReportPartsNext ==
    ASSUME ReportTypes', \A k \in Controls : ReportsOf(k)'
    PROVE  ReportInv'
  BY DEF ReportInv, ReportTypes, ReportsOf, Gone, Numbered, ProgressKept

\* The types of one control's reports.
LEMMA ReportTypesOf ==
    ASSUME HandleInv, ReportTypes, NEW k \in Controls
    PROVE  /\ progress[k] \in Seq(Nat \ {0}) /\ pushed[k] \in Nat
           /\ popped[k] \in Nat /\ dropped[k] \in Nat /\ Gone(k) \in Nat
           /\ capacity[k] \in Nat
  BY DEF ReportTypes, Gone, HandleInv, RegistryTypes

\* A step that changes the reports of one control only.
LEMMA ReportsChange ==
    ASSUME ReportInv, NEW k \in Controls, k <= made, made \in Nat,
           NEW q, NEW pu \in Nat, NEW po \in Nat, NEW dr \in Nat,
           progress' = [progress EXCEPT ![k] = q],
           pushed' = [pushed EXCEPT ![k] = pu],
           popped' = [popped EXCEPT ![k] = po],
           dropped' = [dropped EXCEPT ![k] = dr],
           UNCHANGED <<capacity, made>>,
           Numbered(q, po + dr, pu), Len(q) <= capacity[k]
    PROVE  ReportInv'
  <1>1. ReportTypes /\ k \in Nat
    BY DEF ReportInv, Controls
  <1>2. q \in Seq(Nat \ {0})
    BY DEF Numbered
  <1>3. ReportTypes'
    BY <1>1, <1>2 DEF ReportTypes
  <1>4. ASSUME NEW j \in Controls
        PROVE  ReportsOf(j)'
    <2>1. CASE j = k
      <3>1. /\ progress'[j] = q /\ pushed'[j] = pu /\ Gone(j)' = po + dr
            /\ capacity'[j] = capacity[k] /\ ~(j > made')
        BY <1>1, <2>1 DEF ReportTypes, Gone
      <3>2. QED
        BY <3>1 DEF ReportsOf
    <2>2. CASE j # k
      <3>1. UNCHANGED <<progress[j], pushed[j], dropped[j], popped[j], capacity[j], made>>
        BY <1>1, <2>2 DEF ReportTypes
      <3>2. ReportsOf(j)
        BY ReportParts
      <3>3. QED
        BY <3>1, <3>2 DEF ReportsOf, Gone
    <2>3. QED
      BY <2>1, <2>2
  <1>5. QED
    BY <1>3, <1>4, ReportPartsNext

\* The control a thread reports to.
LEMMA ReportedControl ==
    ASSUME HandleInv, OutcomeInv, ReportInv, NEW t \in Threads, ~At(t, "idle")
    PROVE  /\ On(t) \in Controls /\ On(t) <= made /\ made \in Nat
           /\ ReportsOf(On(t)) /\ ReportTypes
  <1>1. On(t) \in 1..made
    BY DEF OutcomeInv, ThreadsKnow
  <1>2. made \in Nat /\ On(t) \in Controls
    BY <1>1, MadeNat
  <1>3. QED
    BY <1>1, <1>2, ReportParts

\* A push adds the newest report and drops the oldest of a full queue.
LEMMA PushKeeps ==
    ASSUME HandleInv, OutcomeInv, ReportInv, NEW t \in Threads, Push(t)
    PROVE  ReportInv'
  <1>1. ~At(t, "idle")
    BY DEF At, Push
  <1>2. PICK k \in Controls :
            k = On(t) /\ k <= made /\ made \in Nat /\ ReportsOf(k) /\ ReportTypes
    BY <1>1, ReportedControl
  <1>3. /\ progress[k] \in Seq(Nat \ {0}) /\ pushed[k] \in Nat
        /\ popped[k] \in Nat /\ dropped[k] \in Nat /\ Gone(k) \in Nat
        /\ capacity[k] \in Nat
    BY <1>2, ReportTypesOf
  <1>4. Numbered(progress[k], Gone(k), pushed[k]) /\ Len(progress[k]) <= capacity[k]
    BY <1>2 DEF ReportsOf
  <1>5. /\ pushed' = [pushed EXCEPT ![k] = pushed[k] + 1]
        /\ popped' = [popped EXCEPT ![k] = popped[k]]
        /\ UNCHANGED <<capacity, made>>
    BY <1>2 DEF Push, registry, ReportTypes
  <1>6. pushed[k] + 1 \in Nat /\ dropped[k] + 1 \in Nat
    BY <1>3
  <1>7. CASE capacity[k] = 0
    <2>1. Len(progress[k]) = 0 /\ progress[k] = <<>>
      BY <1>3, <1>4, <1>7
    <2>2. /\ progress' = [progress EXCEPT ![k] = <<>>]
          /\ dropped' = [dropped EXCEPT ![k] = dropped[k] + 1]
      BY <1>2, <1>7, <2>1 DEF Push, ReportTypes
    <2>3. pushed[k] = Gone(k)
      BY <1>3, <1>4, <2>1 DEF Numbered
    <2>4. popped[k] + (dropped[k] + 1) = pushed[k] + 1
      BY <1>3, <2>3 DEF Gone
    <2>5. Numbered(<<>>, popped[k] + (dropped[k] + 1), pushed[k] + 1)
      BY <1>6, <2>4 DEF Numbered
    <2>6. QED
      BY <1>2, <1>3, <1>5, <1>6, <2>1, <2>2, <2>5, <1>4, ReportsChange
  <1>8. CASE capacity[k] # 0 /\ Len(progress[k]) # capacity[k]
    <2>1. /\ progress' = [progress EXCEPT ![k] = Append(progress[k], pushed[k] + 1)]
          /\ dropped' = [dropped EXCEPT ![k] = dropped[k]]
      BY <1>2, <1>8 DEF Push, ReportTypes
    <2>2. /\ Numbered(Append(progress[k], pushed[k] + 1), Gone(k), pushed[k] + 1)
          /\ Len(progress[k]) \in Nat
          /\ Len(Append(progress[k], pushed[k] + 1)) = Len(progress[k]) + 1
      BY <1>3, <1>4, ReportAdded
    <2>3. Len(Append(progress[k], pushed[k] + 1)) <= capacity[k]
      BY <1>3, <1>4, <1>8, <2>2
    <2>4. QED
      BY <1>2, <1>3, <1>5, <1>6, <2>1, <2>2, <2>3, ReportsChange DEF Gone
  <1>9. CASE capacity[k] # 0 /\ Len(progress[k]) = capacity[k]
    <2> DEFINE q == Tail(progress[k])
    <2>1. /\ progress' = [progress EXCEPT ![k] = Append(q, pushed[k] + 1)]
          /\ dropped' = [dropped EXCEPT ![k] = dropped[k] + 1]
      BY <1>2, <1>9 DEF Push, ReportTypes
    <2>2. progress[k] # <<>>
      BY <1>9
    <2>3. /\ Numbered(q, Gone(k) + 1, pushed[k])
          /\ Len(progress[k]) \in Nat /\ Len(q) = Len(progress[k]) - 1
      BY <1>3, <1>4, <2>2, ReportTaken
    <2> HIDE DEF q
    <2>4. Gone(k) + 1 \in Nat
      BY <1>3
    <2>5. /\ Numbered(Append(q, pushed[k] + 1), Gone(k) + 1, pushed[k] + 1)
          /\ Len(q) \in Nat /\ Len(Append(q, pushed[k] + 1)) = Len(q) + 1
      BY <1>3, <2>3, <2>4, ReportAdded
    <2>6. Len(Append(q, pushed[k] + 1)) <= capacity[k]
      BY <1>3, <1>4, <2>3, <2>5
    <2>7. Gone(k) + 1 = popped[k] + (dropped[k] + 1)
      BY <1>3 DEF Gone
    <2>8. QED
      BY <1>2, <1>3, <1>5, <1>6, <2>1, <2>5, <2>6, <2>7, ReportsChange
  <1>10. QED
    BY <1>7, <1>8, <1>9

\* A pop takes the oldest report, if there is one.
LEMMA PopKeeps ==
    ASSUME HandleInv, OutcomeInv, ReportInv, NEW t \in Threads, Pop(t)
    PROVE  ReportInv'
  <1>1. ~At(t, "idle")
    BY DEF At, Pop
  <1>2. PICK k \in Controls :
            k = On(t) /\ k <= made /\ made \in Nat /\ ReportsOf(k) /\ ReportTypes
    BY <1>1, ReportedControl
  <1>3. /\ progress[k] \in Seq(Nat \ {0}) /\ pushed[k] \in Nat
        /\ popped[k] \in Nat /\ dropped[k] \in Nat /\ Gone(k) \in Nat
        /\ capacity[k] \in Nat
    BY <1>2, ReportTypesOf
  <1>4. Numbered(progress[k], Gone(k), pushed[k]) /\ Len(progress[k]) <= capacity[k]
    BY <1>2 DEF ReportsOf
  <1>5. /\ pushed' = [pushed EXCEPT ![k] = pushed[k]]
        /\ dropped' = [dropped EXCEPT ![k] = dropped[k]]
        /\ UNCHANGED <<capacity, made>>
    BY <1>2 DEF Pop, registry, ReportTypes
  <1>6. CASE progress[k] = <<>>
    <2>1. UNCHANGED <<progress, popped, pushed, dropped>>
      BY <1>2, <1>6 DEF Pop
    <2>2. QED
      BY <1>5, <2>1, ReportsKept DEF reports
  <1>7. CASE progress[k] # <<>>
    <2> DEFINE q == Tail(progress[k])
    <2>1. /\ progress' = [progress EXCEPT ![k] = q]
          /\ popped' = [popped EXCEPT ![k] = popped[k] + 1]
      BY <1>2, <1>7 DEF Pop, ReportTypes
    <2>2. /\ Numbered(q, Gone(k) + 1, pushed[k])
          /\ Len(progress[k]) \in Nat /\ Len(q) = Len(progress[k]) - 1
      BY <1>3, <1>4, <1>7, ReportTaken
    <2> HIDE DEF q
    <2>3. Len(q) <= capacity[k] /\ popped[k] + 1 \in Nat
      BY <1>3, <1>4, <2>2
    <2>4. Gone(k) + 1 = (popped[k] + 1) + dropped[k]
      BY <1>3 DEF Gone
    <2>5. QED
      BY <1>2, <1>3, <1>5, <2>1, <2>2, <2>3, <2>4, ReportsChange
  <1>8. QED
    BY <1>6, <1>7

\* A new control has no reports yet.
LEMMA CreateKeepsReports ==
    ASSUME HandleInv, ReportInv, NEW t \in Threads, Create(t)
    PROVE  ReportInv'
  <1>1. PICK n \in Capacities : capacity' = [capacity EXCEPT ![made + 1] = n]
    BY DEF Create
  <1>2. UNCHANGED reports /\ made' = made + 1 /\ made \in Nat /\ n \in Nat
    BY MadeNat, CreateAssumption DEF Create
  <1>3. ReportTypes'
    BY <1>2 DEF ReportInv, ReportTypes, reports
  <1>4. ASSUME NEW k \in Controls
        PROVE  ReportsOf(k)'
    <2>1. ReportsOf(k) /\ k \in Nat
      BY ReportParts DEF Controls
    <2>2. UNCHANGED <<progress[k], pushed[k], Gone(k)>>
      BY <1>2 DEF reports, Gone
    <2>3. k > made' => k > made
      BY <1>2, <2>1
    <2>4. Len(progress[k]) <= capacity'[k]
      <3>1. CASE k = made + 1
        <4>1. progress[k] = <<>>
          BY <1>2, <2>1, <3>1 DEF ReportsOf
        <4>2. capacity'[k] = n
          BY <1>1, <3>1 DEF HandleInv, RegistryTypes
        <4>3. QED
          BY <1>2, <4>1, <4>2
      <3>2. CASE k # made + 1
        BY <1>1, <2>1, <3>2 DEF HandleInv, RegistryTypes, ReportsOf
      <3>3. QED
        BY <3>1, <3>2
    <2>5. QED
      BY <2>1, <2>2, <2>3, <2>4 DEF ReportsOf
  <1>5. QED
    BY <1>3, <1>4, ReportPartsNext

\* Every step keeps the reports.
LEMMA ReportStep ==
    HandleInv /\ OutcomeInv /\ ReportInv /\ [Next]_vars => ReportInv'
  <1> SUFFICES ASSUME HandleInv, OutcomeInv, ReportInv, [Next]_vars PROVE ReportInv'
    OBVIOUS
  <1>1. CASE UNCHANGED vars
    BY <1>1, ReportsKept DEF vars, registry
  <1>2. CASE \E k \in 1..made : DeadlinePasses(k)
    BY <1>2, ReportsKept DEF DeadlinePasses, registry
  <1>3. ASSUME NEW t \in Threads, Begins(t)
        PROVE  ReportInv'
    BY <1>3, CreateKeepsReports, ReportsKept
       DEF Begins, Release, BeginCancel, BeginFinish, BeginLook, BeginPop, Begin,
           BeginWait, BeginPush, registry
  <1>4. ASSUME NEW t \in Threads, Runs(t)
        PROVE  ReportInv'
    BY <1>4, PushKeeps, PopKeeps, ReportsKept
       DEF Runs, CancelFlag, CancelRecord, Notify, FinishFlag, FinishRecord, Look,
           WaitExpire, WaitDecide, WaitWoken, Decide, SleepEnds, Control, registry
  <1>5. ASSUME NEW t \in Threads, TimeoutPasses(t) \/ WakesSpuriously(t)
        PROVE  ReportInv'
    BY <1>5, ReportsKept DEF TimeoutPasses, WakesSpuriously, registry
  <1>6. QED
    BY <1>1, <1>2, <1>3, <1>4, <1>5 DEF Next

-----------------------------------------------------------------------------
(* The theorems.                                                            *)

\* Deadlines only pass.
LEMMA DeadlineStep == DeadlineTypes /\ [Next]_vars => DeadlineTypes'
  <1> SUFFICES ASSUME DeadlineTypes, [Next]_vars PROVE DeadlineTypes'
    OBVIOUS
  <1>1. \/ UNCHANGED deadline
        \/ \E k : deadline' = [deadline EXCEPT ![k] = "passed"]
        \/ \E k : \E d \in Deadlines : deadline' = [deadline EXCEPT ![k] = d]
    <2>1. CASE UNCHANGED vars
      BY <2>1 DEF vars
    <2>2. CASE \E k \in 1..made : DeadlinePasses(k)
      BY <2>2 DEF DeadlinePasses
    <2>3. ASSUME NEW t \in Threads, Create(t)
          PROVE  \E k : \E d \in Deadlines : deadline' = [deadline EXCEPT ![k] = d]
      BY <2>3 DEF Create
    <2>4. ASSUME NEW t \in Threads, Begins(t), ~Create(t)
          PROVE  UNCHANGED deadline
      BY <2>4 DEF Begins, Release, BeginCancel, BeginFinish, BeginLook, BeginPop,
                  Begin, BeginWait, BeginPush
    <2>5. ASSUME NEW t \in Threads, Runs(t)
          PROVE  UNCHANGED deadline
      BY <2>5 DEF Runs, CancelFlag, CancelRecord, Notify, FinishFlag, FinishRecord,
                  Look, WaitExpire, WaitDecide, WaitWoken, Decide, SleepEnds, Push,
                  Pop, Control
    <2>6. ASSUME NEW t \in Threads, TimeoutPasses(t) \/ WakesSpuriously(t)
          PROVE  UNCHANGED deadline
      BY <2>6 DEF TimeoutPasses, WakesSpuriously
    <2>7. QED
      BY <2>1, <2>2, <2>3, <2>4, <2>5, <2>6 DEF Next
  <1>2. QED
    BY <1>1, CreateAssumption DEF DeadlineTypes

\* The initial state.
LEMMA InitInv == Init => ToolInv
  <1> SUFFICES ASSUME Init PROVE ToolInv
    OBVIOUS
  <1>1. OutcomeTypes
    BY DEF Init, OutcomeTypes
  <1>2. ThreadTypes
    <2>1. "idle" \in Positions /\ "caller" \in Reasons
      BY Names
    <2>2. 0 \in 0..MaxControls
      BY BoundsAssumption
    <2>3. QED
      BY <2>1, <2>2 DEF Init, ThreadTypes, Idle, Calls
  <1>3. ThreadsKnow /\ RecordersHold
    BY DEF Init, ThreadsKnow, RecordersHold, Idle, At
  <1>4. \A k \in Controls : FlagsRaised(k)
    BY DEF Init, FlagsRaised, Recording
  <1>5. ReportInv
    <2>1. ReportTypes /\ RegistryTypes
      BY BoundsAssumption DEF Init, ReportTypes, RegistryTypes
    <2>2. QED
      BY <2>1 DEF Init, ReportInv, ProgressKept, RegistryTypes
  <1>6. DeadlineTypes
    BY DEF Init, DeadlineTypes
  <1>7. QED
    BY <1>1, <1>2, <1>3, <1>4, <1>5, <1>6, InitHandles DEF ToolInv, OutcomeInv

\* ToolInv is inductive: handles and slots agree, flags agree with records and
\* with who holds the mutexes, queues agree with their counters.
THEOREM Invariant == Spec => []ToolInv
  <1>1. ToolInv /\ [Next]_vars => ToolInv'
    BY HandleStep, OutcomeStep, ReportStep, DeadlineStep DEF ToolInv
  <1>2. QED
    BY <1>1, InitInv, PTL DEF Spec

\* The registry, the controls, the queues and the threads keep their types,
\* and no queue of reports grows beyond its capacity.
THEOREM TypeCorrect == Spec => []TypeOK
  <1>1. ToolInv => TypeOK
    BY DEF ToolInv, TypeOK, HandleInv, OutcomeInv, ReportInv
  <1>2. QED
    BY <1>1, Invariant, PTL

\* Two creates never get the same slot.
THEOREM SlotsNeverShared == Spec => []SlotsOnce
  <1>1. ToolInv => SlotsOnce
    BY DEF ToolInv, HandleInv
  <1>2. QED
    BY <1>1, Invariant, PTL

\* A handle reaches its own control or nothing, until all the generations of
\* its slot have been used.
THEOREM HandlesReach == Spec => []HandlesReachTheirs
  <1>1. ToolInv => HandlesReachTheirs
    BY HandlesTell DEF ToolInv
  <1>2. QED
    BY <1>1, Invariant, PTL

\* Who sees a flag raised, and then takes the mutex, finds the record.
THEOREM RecordsTold == Spec => []FlagsTellRecords
  <1>1. ToolInv => FlagsTellRecords
    BY DEF ToolInv, OutcomeInv, FlagsRaised, FlagsTellRecords, Recording, Unlocked
  <1>2. QED
    BY <1>1, Invariant, PTL

\* Reports are delivered in order, and none is lost uncounted.
THEOREM ReportsDelivered == Spec => []ProgressKept
  <1>1. ToolInv => ProgressKept
    BY DEF ToolInv, ReportInv
  <1>2. QED
    BY <1>1, Invariant, PTL

\* A step writes a reason or a result only over none.
LEMMA RecordsStay ==
    ToolInv /\ [Next]_vars =>
        \A k \in Controls : /\ reason[k] # "none" => reason'[k] = reason[k]
                            /\ finish[k] # None => finish'[k] = finish[k]
  <1> SUFFICES ASSUME ToolInv, [Next]_vars, NEW k \in Controls
               PROVE  /\ reason[k] # "none" => reason'[k] = reason[k]
                      /\ finish[k] # None => finish'[k] = finish[k]
    OBVIOUS
  <1>1. HandleInv /\ OutcomeInv /\ OutcomeTypes
    BY DEF ToolInv, OutcomeInv
  <1>2. CASE UNCHANGED vars
    BY <1>2 DEF vars, outcome
  <1>3. CASE \E j \in 1..made : DeadlinePasses(j)
    BY <1>3 DEF DeadlinePasses, outcome
  <1>4. ASSUME NEW t \in Threads, Begins(t)
        PROVE  UNCHANGED outcome
    BY <1>4 DEF Begins, Create, Release, BeginCancel, BeginFinish, BeginLook,
                BeginPop, Begin, BeginWait, BeginPush
  <1>5. ASSUME NEW t \in Threads, CancelRecord(t)
        PROVE  /\ reason[k] # "none" => reason'[k] = reason[k]
               /\ finish' = finish
    <2>1. reason[On(t)] = "none"
      BY <1>1, <1>5, CancelRecordKeeps
    <2>2. QED
      BY <1>1, <1>5, <2>1 DEF CancelRecord, OutcomeTypes
  <1>6. ASSUME NEW t \in Threads, FinishRecord(t)
        PROVE  /\ finish[k] # None => finish'[k] = finish[k]
               /\ reason' = reason
    <2>1. finish[On(t)] = None
      BY <1>1, <1>6, FinishRecordKeeps
    <2>2. QED
      BY <1>1, <1>6, <2>1 DEF FinishRecord, OutcomeTypes
  <1>7. ASSUME NEW t \in Threads, Runs(t), ~CancelRecord(t), ~FinishRecord(t)
        PROVE  UNCHANGED <<reason, finish>>
    BY <1>7 DEF Runs, CancelFlag, Notify, FinishFlag, Look, WaitExpire, WaitDecide,
                WaitWoken, Decide, SleepEnds, Push, Pop, outcome
  <1>8. ASSUME NEW t \in Threads, TimeoutPasses(t) \/ WakesSpuriously(t)
        PROVE  UNCHANGED outcome
    BY <1>8 DEF TimeoutPasses, WakesSpuriously
  <1>9. QED
    BY <1>2, <1>3, <1>4, <1>5, <1>6, <1>7, <1>8 DEF Next, outcome

\* The first cancel's reason and the first finish's result stay.
THEOREM FirstStays == Spec => FirstWins
  <1>1. ToolInv /\ [Next]_vars =>
          [\A k \in Controls : /\ reason[k] # "none" => reason'[k] = reason[k]
                               /\ finish[k] # None => finish'[k] = finish[k]]_vars
    BY RecordsStay
  <1>2. QED
    BY <1>1, Invariant, PTL DEF Spec, FirstWins

=============================================================================
