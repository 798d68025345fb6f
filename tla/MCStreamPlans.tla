--------------------------- MODULE MCStreamPlans ----------------------------
(* Small instances of the v2 streams, with several plans in one run: two      *)
(* readers who also cancel and close; two streams that are committed while    *)
(* the history changes; a reader beside a caller who cancels and chats.       *)
EXTENDS MCReliableStream

\* The plans a run follows.
CONSTANT Used

Anything == [c \in Callers |-> Ops]

\* Two readers of one stream, who also cancel and close it.
Readers == (c1 :> {"open", "next_event", "cancel"})
           @@ (c2 :> {"next_event_timeout", "cancel", "close"})

\* Two streams, committed and aborted while the history changes.
Committers == (c1 :> {"open", "commit"})
              @@ (c2 :> {"commit", "abort", "clear"})

\* One reader; the other caller cancels, commits and chats.
Watched == (c1 :> {"open", "next_event", "next_event_timeout"})
           @@ (c2 :> {"cancel", "commit", "chat", "append", "close_session"})

Plans == "read" :> Readers @@ "commit" :> Committers @@ "watch" :> Watched

VARIABLES plan

PlanInit == Init /\ plan \in Used

Planned(c, op) == op \in Plans[plan][c]

PlannedCalls(c) ==
    \/ Planned(c, "open") /\ Open(c)
    \/ Planned(c, "next_event") /\ BeginNext(c)
    \/ Planned(c, "next_event_timeout") /\ BeginTimed(c)
    \/ Planned(c, "cancel") /\ Cancel(c)
    \/ Planned(c, "commit") /\ BeginCommit(c)
    \/ Planned(c, "abort") /\ Abort(c)
    \/ Planned(c, "close") /\ CloseRemove(c)
    \/ Planned(c, "clear") /\ ClearHistory(c)
    \/ Planned(c, "chat") /\ ChatBegin(c)
    \/ Planned(c, "append") /\ AppendHistory(c)
    \/ Planned(c, "close_session") /\ CloseSession(c)

\* Only committers use both streams; only readers are sent everything.
Kept ==
    /\ plan = "read" => \E s \in Streams : wpc'[s] = "none"
    /\ plan = "commit" =>
          \A s \in Streams :
              /\ Len(answer'[s]) <= 1 /\ emitting'[s] # "tool_call.delta"
              /\ wpc[s] = "frames" /\ wpc'[s] = "emit" =>
                    /\ emitting'[s] = "error" => ~finished[s]
                    /\ emitting'[s] = "usage" => ~usage'[s]

PlanNext ==
    /\ \/ \E s \in Streams : Provider(s) \/ WorkerRuns(s) \/ CancelThread(s)
       \/ \E c \in Callers : PlannedCalls(c) \/ Continues(c)
    /\ Kept /\ UNCHANGED plan

PlanSpec == PlanInit /\ [][PlanNext]_<<vars, plan>>

FairPlanSpec == PlanSpec /\ Fairness

\* Streams are interchangeable.
Handles == Permutations({s1, s2})
=============================================================================
