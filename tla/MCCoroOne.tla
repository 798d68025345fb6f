----------------------------- MODULE MCCoroOne -----------------------------
(* One worker: programs with competing senders and receivers, nested spawns,*)
(* sleepers, cancellation and a real dead-lock.                             *)
EXTENDS CoroSchedProps, TLC

CONSTANTS c1, c2, c3, c4, k, l, x, y

Send(ch, v) == [op |-> "send", ch |-> ch, val |-> v]
Recv(ch) == [op |-> "recv", ch |-> ch]
Yield == [op |-> "yield"]
Sleep == [op |-> "sleep"]
Spawn(c) == [op |-> "spawn", co |-> c]
Await(c) == [op |-> "await", co |-> c]
Cancel(c) == [op |-> "cancel", co |-> c]
Run == [op |-> "run"]

McCoros == {c1, c2, c3, c4}
McChannels == {k, l}
McValues == {x, y}
McCap == (k :> 1) @@ (l :> 0)

Bodies(b1, b2, b3, b4) == (c1 :> b1) @@ (c2 :> b2) @@ (c3 :> b3) @@ (c4 :> b4)

\* Two receivers park before two senders fill the channel: promotion of a
\* parked sender while a receiver is parked.
Contended ==
    [body |-> Bodies(<<Recv(k)>>, <<Recv(k), Recv(k)>>,
                     <<Yield, Send(k, x), Send(k, y)>>,
                     <<Yield, Yield, Send(k, x)>>),
     main |-> <<Spawn(c1), Spawn(c2), Spawn(c3), Spawn(c4), Run>>]

\* Ping-pong over two channels, one side spawned by the other.
PingPong ==
    [body |-> Bodies(<<Yield, Send(k, x), Recv(l), Send(k, y), Recv(l)>>,
                     <<Yield, Recv(k), Send(l, y), Recv(k), Send(l, x)>>,
                     <<Yield, Spawn(c2), Await(c2), Sleep>>, <<>>),
     main |-> <<Spawn(c1), Spawn(c3), Spawn(c4), Await(c4), Run>>]

\* Sleepers, a cancelled one, driven first by a synchronous await.
Sleepers ==
    [body |-> Bodies(<<Sleep, Yield, Send(l, x)>>, <<Recv(l), Cancel(c4)>>,
                     <<Await(c1), Sleep, Cancel(c1)>>, <<Sleep, Sleep, Yield>>),
     main |-> <<Spawn(c1), Spawn(c2), Spawn(c3), Spawn(c4), Await(c3), Run>>]

\* The second receive of c1 is not served in the first run_all, which
\* announces a dead-lock; it is in the second.
Starved ==
    [body |-> Bodies(<<Recv(k), Recv(k)>>, <<Send(k, x)>>, <<Yield, Send(k, y)>>,
                     <<Sleep>>),
     main |-> <<Spawn(c1), Spawn(c2), Spawn(c4), Run, Spawn(c3), Run>>]

McPrograms == {Contended, PingPong, Sleepers, Starved}

\* The theorems are about two of these.
ASSUME RegularTwo ==
    \A p \in McPrograms : Regular(p) <=> p \in {Contended, PingPong}

\* The main thread gets to the end of its calls; by then every coroutine
\* spawned is finished and no dead-lock stands.  In Starved one was announced.
Finishes ==
    /\ <>(At(0, "end") /\ ~deadlock /\ \A c \in Coros : ~Alive(c))
    /\ prog = Starved => <>deadlock
=============================================================================
