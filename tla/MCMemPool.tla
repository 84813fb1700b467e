----------------------------- MODULE MCMemPool -----------------------------
(* Small instances of MemPool for TLC. *)
EXTENDS MemPool, TLC

\* Users clear their memory, as queue_alloc_value, list_alloc_node and sem_init
\* do, or leave something there that is no pointer.
AnyData == {NoNode, NodeOf(0, Junk)}

FourCalls == [t \in Thread |-> 4]

NoOverlap == ~ overlap

ThreadSymmetry == Permutations(Thread)
=============================================================================
