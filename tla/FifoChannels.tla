---------------------------- MODULE FifoChannels ----------------------------
(* What a family of channels promises its users: values leave each channel  *)
(* in the order they entered it, none lost, none invented.                  *)
EXTENDS Sequences

CONSTANTS Channels, Values

VARIABLE queue

Init == queue = [k \in Channels |-> <<>>]

Send(k, v) == queue' = [queue EXCEPT ![k] = Append(@, v)]

Receive(k) == queue[k] # <<>> /\ queue' = [queue EXCEPT ![k] = Tail(@)]

Next == \E k \in Channels : Receive(k) \/ \E v \in Values : Send(k, v)

Spec == Init /\ [][Next]_queue
=============================================================================
