------------------------------ MODULE MCQueue ------------------------------
(* Small instances of Queue for TLC. *)
EXTENDS Queue

AnyNode == Node

\* Two threads make enough calls for a fragment to go once around the queue
\* and the pool, while a third one is inside one queue_dequeue.
CONSTANT Slow
OneRound == [t \in Thread |-> IF t = Slow THEN 1 ELSE Room + 2]

TwoCalls == [t \in Thread |-> 2]

NoOverlap == ~ overlap

\* The tail is left behind after the first two values only.
LagsEarly ==
  \A t \in Enqueuer, f \in Frag :
    qpc[t] = "idle" /\ calls[t] > 2 /\ qtail.frag = f => mem[f].frag = Null
=============================================================================
