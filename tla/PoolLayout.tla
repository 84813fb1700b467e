----------------------------- MODULE PoolLayout -----------------------------
(***************************************************************************)
(* The layout of a memory pool of src/src/collections.c: the size of a     *)
(* fragment, the bytes that mempool_create allocates, the fragments that   *)
(* internal_mempool_setup cuts them into, and the range of addresses that  *)
(* mempool_contains accepts.  Addresses are offsets from the pool's start. *)
(* (Sizes are far from the range where a size_t would wrap.)               *)
(***************************************************************************)
EXTENDS Integers

CONSTANT HeaderBytes  \* sizeof(struct memory_fragment)

Larger(a, b) == IF a > b THEN a ELSE b

\* internal_mempool_aligned_data_bytes
AlignedBytes(b) ==
  LET n == Larger(b, HeaderBytes)
  IN  IF n % 16 # 0 THEN n + (16 - (n % 16)) ELSE n

\* The size of the pool in mempool_create: a fragment for the dummy, too.
PoolBytes(b, c) == (c + 1) * AlignedBytes(b)

\* The offset of fragment i, where 0 is the first dummy.
FragAt(b, i) == AlignedBytes(b) * i

\* mempool_contains
Contains(b, c, p) == 0 <= p /\ p < AlignedBytes(b) * c + 1

=============================================================================
