-------------------------------- MODULE Fifo --------------------------------
(***************************************************************************)
(* What the queue of src/src/collections.c promises: at most Capacity      *)
(* values, which are taken in the order in which they were put in, each    *)
(* once.  A put or a take that is impossible is refused and changes        *)
(* nothing.                                                                *)
(***************************************************************************)
EXTENDS Naturals, Sequences, Functions

CONSTANTS Value, Capacity

VARIABLES
  items,  \* the values in the queue
  got     \* the values that have been taken, in that order

vars == <<items, got>>

Init == items = <<>> /\ got = <<>>

\* No value is put in twice: they can be told apart.
Put(v) ==
  /\ Len(items) < Capacity
  /\ items' = Append(items, v)
  /\ UNCHANGED got

Take ==
  /\ items # <<>>
  /\ items' = Tail(items)
  /\ got' = Append(got, Head(items))

Next == Take \/ \E v \in Value \ (Range(items) \cup Range(got)) : Put(v)

Spec == Init /\ [][Next]_vars
=============================================================================
