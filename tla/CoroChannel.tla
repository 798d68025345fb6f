---------------------------- MODULE CoroChannel ----------------------------
(* The coroutine channel of src/src/async_runtime/coro.rs, "ChanInner": a   *)
(* FIFO buffer and the two lists of coroutines parked on it.  Every         *)
(* exported function of the channel takes the channel's mutex once, so each *)
(* is one atomic transformation of the record below; the wake-ups it owes   *)
(* are performed after the mutex is released and are returned as a sequence.*)
(*   buf   : the buffered values                                            *)
(*   rwait : coroutines parked because the channel was empty                *)
(*   swait : [co, val] of coroutines parked because it was full             *)
(* "closed" is written by close and read nowhere; it is left out.           *)
EXTENDS Integers, Sequences

EmptyChan == [buf |-> <<>>, rwait |-> <<>>, swait |-> <<>>]

ChanType(C, V) ==
    [buf : Seq(V), rwait : Seq(C), swait : Seq([co : C, val : V])]

\* Wrong variant: one value too many.
RoomAndOne(ch, cap) == cap = 0 \/ Len(ch.buf) <= cap

\* A capacity of 0 means unbounded.
Room(ch, cap) == cap = 0 \/ Len(ch.buf) < cap

\* pop_front of a waiter list that may be empty.
Rest(s) == IF s = <<>> THEN <<>> ELSE Tail(s)
First(s) == IF s = <<>> THEN <<>> ELSE <<Head(s)>>

\* Successful send: the value enters the buffer and the first parked
\* receiver leaves the list, to be woken.
Pushed(ch, v) ==
    [ch EXCEPT !.buf = Append(@, v), !.rwait = Rest(@)]

PushWakes(ch) == First(ch.rwait)

\* Wrong variant: the parked sender is released and its value forgotten.
PoppedForgetful(ch) ==
    [ch EXCEPT !.buf = Tail(@), !.swait = Rest(@)]

\* Successful receive: the head leaves the buffer; if a sender is parked its
\* value takes the freed place, and the sender and one parked receiver (for
\* the value just promoted) are woken.
Popped(ch) ==
    IF ch.swait = <<>>
    THEN [ch EXCEPT !.buf = Tail(@)]
    ELSE [buf   |-> Append(Tail(ch.buf), Head(ch.swait).val),
          rwait |-> Rest(ch.rwait),
          swait |-> Tail(ch.swait)]

\* Wrong variant: only the promoted sender is woken.
PopWakesNoReceiver(ch) ==
    IF ch.swait = <<>> THEN <<>> ELSE <<Head(ch.swait).co>>

PopWakes(ch) ==
    IF ch.swait = <<>> THEN <<>>
    ELSE <<Head(ch.swait).co>> \o First(ch.rwait)

ParkedReceiver(ch, c) == [ch EXCEPT !.rwait = Append(@, c)]

ParkedSender(ch, c, v) == [ch EXCEPT !.swait = Append(@, [co |-> c, val |-> v])]
=============================================================================
