----------------------------- MODULE MCCoroMany -----------------------------
(* Two workers: hand-off, overflow to the local queue, stealing, and        *)
(* coroutines that park while their peers run on the other worker.          *)
EXTENDS CoroSchedProps, TLC

CONSTANTS c1, c2, c3, c4, c5, k, l, x, y

Send(ch, v) == [op |-> "send", ch |-> ch, val |-> v]
Recv(ch) == [op |-> "recv", ch |-> ch]
Yield == [op |-> "yield"]
Sleep == [op |-> "sleep"]
Spawn(c) == [op |-> "spawn", co |-> c]
Await(c) == [op |-> "await", co |-> c]
Cancel(c) == [op |-> "cancel", co |-> c]
Run == [op |-> "run"]

McCoros == {c1, c2, c3, c4, c5}
McChannels == {k, l}
McValues == {x, y}
McCap == (k :> 1) @@ (l :> 0)

Bodies(b1, b2, b3, b4, b5) ==
    (c1 :> b1) @@ (c2 :> b2) @@ (c3 :> b3) @@ (c4 :> b4) @@ (c5 :> b5)

\* One sender wakes four parked receivers: NEXT, then three in its local
\* queue, of which the other worker steals two.
FanOut ==
    [body |-> Bodies(<<Recv(l)>>, <<Recv(l)>>, <<Recv(l)>>, <<Recv(l)>>,
                     <<Yield, Send(l, x), Send(l, y), Send(l, x), Send(l, y)>>),
     main |-> <<Spawn(c1), Spawn(c2), Spawn(c3), Spawn(c4), Spawn(c5), Run>>]

\* Senders park on a full channel while a receiver drains it.
FanIn ==
    [body |-> Bodies(<<Yield, Send(k, x)>>, <<Yield, Send(k, y)>>,
                     <<Recv(k), Recv(k)>>, <<>>, <<>>),
     main |-> <<Spawn(c1), Spawn(c2), Spawn(c3), Run>>]

\* A spawn and an await inside a coroutine, and a sleeper.
Nested ==
    [body |-> Bodies(<<Yield, Spawn(c2), Await(c2)>>, <<Yield, Sleep>>, <<>>,
                     <<>>, <<>>),
     main |-> <<Spawn(c1), Run>>]

\* A coroutine is cancelled while it may be queued, running, or between both.
Cancelled ==
    [body |-> Bodies(<<Yield, Yield>>, <<Yield, Cancel(c1)>>, <<>>, <<>>, <<>>),
     main |-> <<Spawn(c1), Spawn(c2), Run>>]

\* Two receivers and two senders on a channel of capacity 1, all running.
Contended ==
    [body |-> Bodies(<<Yield, Recv(k)>>, <<Recv(k)>>, <<Yield, Send(k, x)>>,
                     <<Yield, Send(k, y)>>, <<>>),
     main |-> <<Spawn(c1), Spawn(c2), Spawn(c3), Spawn(c4), Run>>]

McPrograms == {FanOut, FanIn, Nested, Cancelled, Contended}

\* The theorems are about all of these but the one that cancels.
ASSUME RegularButOne == \A p \in McPrograms : Regular(p) <=> p # Cancelled

FanInOnly == {FanIn}
FanOutOnly == {FanOut}
=============================================================================
