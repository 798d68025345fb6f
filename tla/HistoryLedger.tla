--------------------------- MODULE HistoryLedger ----------------------------
(* What committing the answers of streams to a shared history promises: an  *)
(* answer is added, once and whole, to exactly the history its question was *)
(* asked on, or never.                                                      *)
EXTENDS Sequences

CONSTANTS Streams, Deltas, Other

VARIABLES
    history,   \* entries [by, answer]
    asked,     \* <<the history>> each question was asked on, <<>> before that
    answer,    \* what has been heard so far
    fate       \* "pending", "committed" or "aborted"

vars == <<history, asked, answer, fate>>

Init ==
    /\ history = <<>>
    /\ asked = [s \in Streams |-> <<>>]
    /\ answer = [s \in Streams |-> <<>>]
    /\ fate = [s \in Streams |-> "pending"]

Ask(s) ==
    /\ asked[s] = <<>>
    /\ asked' = [asked EXCEPT ![s] = <<history>>]
    /\ UNCHANGED <<history, answer, fate>>

\* An answer does not change any more once it is committed.
Hear(s) ==
    /\ asked[s] # <<>>
    /\ fate[s] # "committed"
    /\ \E d \in Deltas : answer' = [answer EXCEPT ![s] = Append(@, d)]
    /\ UNCHANGED <<history, asked, fate>>

Commit(s) ==
    /\ fate[s] = "pending"
    /\ asked[s] = <<history>>
    /\ history' = Append(history, [by |-> s, answer |-> answer[s]])
    /\ fate' = [fate EXCEPT ![s] = "committed"]
    /\ UNCHANGED <<asked, answer>>

Abort(s) ==
    /\ fate[s] # "committed"
    /\ fate' = [fate EXCEPT ![s] = "aborted"]
    /\ UNCHANGED <<history, asked, answer>>

\* Somebody else adds an entry, or clears the history.
Rewrite ==
    /\ history' \in {Append(history, [by |-> Other, answer |-> <<>>]), <<>>}
    /\ UNCHANGED <<asked, answer, fate>>

Next ==
    \/ \E s \in Streams : Ask(s) \/ Hear(s) \/ Commit(s) \/ Abort(s)
    \/ Rewrite

Spec == Init /\ [][Next]_vars
=============================================================================
