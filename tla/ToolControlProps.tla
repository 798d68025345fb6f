-------------------------- MODULE ToolControlProps --------------------------
(* What tool_control.rs promises.                                           *)
EXTENDS ToolControl

Positions == {"idle", "cancel", "record", "notify", "finish", "finish record",
              "look", "wait", "decide", "asleep", "woken", "push", "pop"}

Handles == [slot : Nat \ {0}, generation : 1..MaxGeneration]

Entries == [generation : 1..MaxGeneration, control : 0..MaxControls]

RegistryTypes ==
    /\ made \in 0..MaxControls
    /\ slots \in Seq(Entries)
    /\ free \in Seq(Nat \ {0})
    /\ handle \in [Controls -> Handles \cup {NoHandle}]
    /\ capacity \in [Controls -> Nat]

OutcomeTypes ==
    /\ cancelled \in [Controls -> BOOLEAN] /\ finished \in [Controls -> BOOLEAN]
    /\ reason \in [Controls -> Reasons \cup {"none"}]
    /\ finish \in [Controls -> Threads \cup {None}]
    /\ dataLock \in [Controls -> Threads \cup {None}]

ReportTypes ==
    /\ progress \in [Controls -> Seq(Nat \ {0})]
    /\ pushed \in [Controls -> Nat] /\ popped \in [Controls -> Nat]
    /\ dropped \in [Controls -> Nat]

Calls == [at : Positions, on : 0..MaxControls, why : Reasons,
          then : {"idle", "decide"}, limit : {"never", "ahead", "passed"}]

ThreadTypes == thread \in [Threads -> Calls]

DeadlineTypes == deadline \in [Controls -> {"none", "ahead", "passed"}]

\* Types of the registry, the controls and the threads; a queue never grows
\* beyond its capacity.
TypeOK ==
    /\ RegistryTypes /\ OutcomeTypes /\ ReportTypes /\ ThreadTypes
    /\ DeadlineTypes
    /\ \A k \in Controls : Len(progress[k]) <= capacity[k]

-----------------------------------------------------------------------------
\* A slot is free or holds one control, and is on the free list once if it is
\* free: two creates never get the same one.
SlotsOnce ==
    /\ \A i, j \in DOMAIN free : free[i] = free[j] => i = j
    /\ \A s \in DOMAIN slots :
          (slots[s].control = 0) <=> \E i \in DOMAIN free : free[i] = s
    /\ \A s \in DOMAIN slots : slots[s].control # 0 =>
          handle[slots[s].control] = [slot |-> s, generation |-> slots[s].generation]

\* "Releasing a handle invalidates it immediately; reusing its slot produces a
\* different handle" (tool_control.rs:3): a handle reaches the control it was
\* made for or nothing, until its slot has gone through all generations.
HandlesReachTheirs ==
    \A k \in 1..made :
        LET r == Reaches(handle[k])
            reused == {i \in k..(r - 1) : handle[i].slot = handle[k].slot}
        IN  r \in {0, k} \/ (r > k /\ Cardinality(reused) >= MaxGeneration)

\* is_cancelled and is_finished read a flag without the mutex; who saw it
\* raised and asks for the reason or the result, under the mutex, gets one.
FlagsTellRecords ==
    \A k \in Controls : Unlocked(k) =>
        /\ cancelled[k] <=> reason[k] # "none"
        /\ finished[k] <=> finish[k] # None

\* However cancels, deadlines, a release and finishes race, the first reason
\* and the first result stay for ever.
FirstWins ==
    [][\A k \in Controls : /\ reason[k] # "none" => reason'[k] = reason[k]
                           /\ finish[k] # None => finish'[k] = finish[k]]_vars

\* The queue holds the newest reports, in order, and every other one has been
\* taken or is counted as dropped.
ProgressKept ==
    \A k \in Controls :
        LET gone == popped[k] + dropped[k]
        IN  /\ Len(progress[k]) + gone = pushed[k]
            /\ \A i \in DOMAIN progress[k] : progress[k][i] = gone + i

-----------------------------------------------------------------------------
(* What makes these inductive, with the types.                              *)

\* A handle names a slot, and a slot in use holds the last control that had it.
SlotsKnown ==
    /\ \A k \in 1..made : handle[k] \in Handles /\ handle[k].slot \in DOMAIN slots
    /\ \A i \in DOMAIN free : free[i] \in DOMAIN slots
    /\ \A s \in DOMAIN slots :
          /\ slots[s].control \in 0..made
          /\ slots[s].control # 0 =>
                \A k \in 1..made : handle[k].slot = s => k <= slots[s].control

\* The controls that had the slot of k, from k on, and the number of releases
\* of the slot since k was created.
Tenants(k) == {i \in k..made : handle[i].slot = handle[k].slot}

Releases(k) == IF slots[handle[k].slot].control = 0
               THEN Cardinality(Tenants(k)) ELSE Cardinality(Tenants(k)) - 1

\* The generation n releases after g, for n < MaxGeneration.
Later(g, n) == IF g + n > MaxGeneration THEN g + n - MaxGeneration ELSE g + n

\* Every release advances the slot's generation.
GenerationsTell ==
    \A k \in 1..made : Releases(k) < MaxGeneration =>
        slots[handle[k].slot].generation = Later(handle[k].generation, Releases(k))

HandleInv == RegistryTypes /\ SlotsOnce /\ SlotsKnown /\ GenerationsTell

\* A thread in a call is on a control that exists.
ThreadsKnow == \A t \in Threads : ~At(t, "idle") => On(t) \in 1..made

\* The holder of k's mutex is at p.
Recording(k, p) ==
    dataLock[k] # None /\ thread[dataLock[k]].at = p /\ thread[dataLock[k]].on = k

\* A flag is raised when its record is written or about to be.
FlagsRaised(k) ==
    /\ cancelled[k] <=> reason[k] # "none" \/ Recording(k, "record")
    /\ Recording(k, "record") => reason[k] = "none"
    /\ finished[k] <=> finish[k] # None \/ Recording(k, "finish record")
    /\ Recording(k, "finish record") => finish[k] = None

\* Who is about to write a record holds the mutex.
RecordersHold ==
    \A t \in Threads : At(t, "record") \/ At(t, "finish record") =>
        dataLock[On(t)] = t

OutcomeInv ==
    /\ OutcomeTypes /\ ThreadTypes /\ ThreadsKnow /\ RecordersHold
    /\ \A k \in Controls : FlagsRaised(k)

\* A control that does not exist yet has no reports.
ReportInv ==
    /\ ReportTypes /\ ProgressKept
    /\ \A k \in Controls : Len(progress[k]) <= capacity[k]
    /\ \A k \in Controls : k > made => progress[k] = <<>>

ToolInv == HandleInv /\ OutcomeInv /\ ReportInv /\ DeadlineTypes

-----------------------------------------------------------------------------
(* Liveness.                                                                *)
Waiting(t) == \/ thread[t].at \in {"wait", "decide", "asleep", "woken"}
              \/ thread[t].then = "decide"

Released(k) == k \in 1..made /\ \A s \in DOMAIN slots : slots[s].control # k

\* "A negative timeout waits indefinitely, bounded by the control deadline"
\* (tool_control.rs:437): a wait returns once its control is finished,
\* cancelled or released, or either time is up; no notification is missed.
WaitersReturn ==
    \A t \in Threads :
        /\ Waiting(t)
        /\ \/ Ended(On(t)) \/ Released(On(t)) \/ Overdue(On(t))
           \/ thread[t].limit = "passed"
        ~> At(t, "idle")
=============================================================================
