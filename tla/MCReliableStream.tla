-------------------------- MODULE MCReliableStream --------------------------
(* Small instances of the v2 streams.                                       *)
EXTENDS ReliableStreamProps, TLC

CONSTANTS c1, c2, s1, s2

AllParts == DeltaTypes \cup {"usage", "bad"}
TextOnly == {"text.delta"}

\* One caller, who only opens a stream and polls it.
TimedReader == (c1 :> {"open", "next_event_timeout"}) @@ (c2 :> {})

\* One reader; the other caller closes.
ReaderAndCloser == (c1 :> {"open", "next_event"}) @@ (c2 :> {"close"})
=============================================================================
