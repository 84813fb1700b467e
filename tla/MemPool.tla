------------------------------ MODULE MemPool ------------------------------
(***************************************************************************)
(* The lock-free memory pool of src/src/collections.c: a Michael-Scott     *)
(* queue of free fragments, linked through their first bytes, behind a     *)
(* dummy fragment.  mempool_free appends at the tail, mempool_alloc takes  *)
(* the dummy and makes its successor the new one.                          *)
(*                                                                         *)
(* An allocated fragment belongs to the user from its first byte on: what  *)
(* the pool keeps in next is overwritten by the user's data, zeros among   *)
(* it.  Every access to shared memory is an action; the plain copy of next *)
(* is two loads, the count and then the pointer, as a copy of 16 bytes     *)
(* compiles to.                                                            *)
(*                                                                         *)
(* Any calls may be in progress at once.  The variable overlap records     *)
(* whether two calls of mempool_free have been: up to then the pool is     *)
(* sound, afterwards it need not be.                                       *)
(***************************************************************************)
EXTENDS Integers, FiniteSets

CONSTANTS
  Thread,
  Capacity,    \* allocatable fragments; the pool has one more
  CountMod,    \* counts are uint32_t: modulo 2^32
  SizeMod,     \* freeable is a size_t: modulo 2^64
  Null, Junk,  \* pointers that are no fragment
  InUse,       \* fragments that are allocated when the model starts
  UserData,    \* what users store in the first bytes: records like next
  SpuriousCAS, \* threads whose compare_exchange_weak may fail without reason
  MaxCalls     \* bound: the number of calls of each thread

Frag == 0 .. Capacity
Node == [count : 0 .. CountMod - 1, frag : Frag \cup {Null, Junk}]

ASSUME MemPoolAssumption ==
  /\ Capacity \in Nat \ {0} /\ InUse \in 0 .. Capacity
  /\ MaxCalls \in [Thread -> Nat]
  /\ CountMod \in Nat \ {0} /\ Capacity < CountMod
  /\ SizeMod \in Nat \ {0} /\ Capacity < SizeMod
  /\ {Null, Junk} \cap Frag = {} /\ UserData \subseteq Node
  /\ SpuriousCAS \subseteq Thread

VARIABLES
  mem,      \* the first bytes of each fragment
  head, tail, freeable,
  pc, reg,  \* of each thread: its place and its local variables
  user,     \* fragments that users own
  calls,    \* number of calls of each thread
  overlap   \* history: mempool_free was called during a mempool_free

vars == <<mem, head, tail, freeable, pc, reg, user, calls, overlap>>

NodeOf(c, f) == [count |-> c % CountMod, frag |-> f]
NoNode == NodeOf(0, Null)
NoReg  == [head |-> NoNode, tail |-> NoNode, next |-> NoNode, frag |-> Null,
           empty |-> FALSE]

\* internal_mempool_setup: MEMORY_POOL_MAKER, then a put per fragment.
Setup(i) == IF i < Capacity THEN NodeOf(1, i + 1) ELSE NoNode

\* mempool_create, after which InUse fragments have been allocated, one after
\* the other, and cleared by their users.
Init ==
  /\ mem = [i \in Frag |-> IF i < InUse THEN NoNode ELSE Setup(i)]
  /\ head = NodeOf(InUse, InUse) /\ tail = NodeOf(Capacity, Capacity)
  /\ freeable = Capacity - InUse
  /\ pc = [t \in Thread |-> "idle"]
  /\ reg = [t \in Thread |-> NoReg]
  /\ user = 0 .. InUse - 1
  /\ calls = [t \in Thread |-> 0]
  /\ overlap = FALSE

Goto(t, l) == pc' = [pc EXCEPT ![t] = l]

\* The fragments that can be reached from f through next.
From(f) ==
  LET link[k \in Frag] ==
        IF k = 0 THEN {f}
        ELSE link[k - 1] \cup ({mem[g].frag : g \in link[k - 1] \cap Frag} \ {Null})
  IN  link[Capacity]

\* The fragments in the free list, the dummy included.
Chain == From(head.frag)

-----------------------------------------------------------------------------
(***************************************************************************)
(* internal_mempool_put, for mempool_free.                                 *)
(***************************************************************************)
Unlinked == {"put_tail", "put_next_count", "put_next_frag", "put_check",
             "put_link", "put_swing"}
Linked   == {"put_end", "put_count"}
Putting  == {"put_init"} \cup Unlinked \cup Linked

FreeAt(t, f) ==
  /\ pc[t] = "idle" /\ calls[t] < MaxCalls[t]
  /\ user' = user \ {f}
  /\ reg' = [reg EXCEPT ![t].frag = f]
  /\ overlap' = (overlap \/ \E u \in Thread : pc[u] \in Putting)
  /\ calls' = [calls EXCEPT ![t] = @ + 1]
  /\ Goto(t, "put_init")
  /\ UNCHANGED <<mem, head, tail, freeable>>

\* Users free what they own.
Free(t) == \E f \in user : FreeAt(t, f)

\* *frag = MEMORY_FRAGMENT_MAKER()
PutInit(t) ==
  /\ pc[t] = "put_init"
  /\ mem' = [mem EXCEPT ![reg[t].frag] = NoNode]
  /\ Goto(t, "put_tail")
  /\ UNCHANGED <<head, tail, freeable, reg, user, calls, overlap>>

PutTail(t) ==
  /\ pc[t] = "put_tail"
  /\ reg' = [reg EXCEPT ![t].tail = tail]
  /\ Goto(t, "put_next_count")
  /\ UNCHANGED <<mem, head, tail, freeable, user, calls, overlap>>

\* struct memory_node next = tail.frag->next: the count, then the pointer.
\* (A pointer to no fragment would crash the program here.)
PutNextCount(t) ==
  /\ pc[t] = "put_next_count" /\ reg[t].tail.frag \in Frag
  /\ reg' = [reg EXCEPT ![t].next.count = mem[reg[t].tail.frag].count]
  /\ Goto(t, "put_next_frag")
  /\ UNCHANGED <<mem, head, tail, freeable, user, calls, overlap>>

PutNextFrag(t) ==
  /\ pc[t] = "put_next_frag" /\ reg[t].tail.frag \in Frag
  /\ reg' = [reg EXCEPT ![t].next.frag = mem[reg[t].tail.frag].frag]
  /\ Goto(t, "put_check")
  /\ UNCHANGED <<mem, head, tail, freeable, user, calls, overlap>>

\* Mutant: no second look at self->tail.
PutUnchecked(t) ==
  /\ pc[t] = "put_check"
  /\ Goto(t, IF reg[t].next.frag = Null THEN "put_link" ELSE "put_swing")
  /\ UNCHANGED <<mem, head, tail, freeable, reg, user, calls, overlap>>

\* equals(tail, self->tail)
PutCheck(t) ==
  /\ pc[t] = "put_check"
  /\ Goto(t, IF reg[t].tail # tail THEN "put_tail"
             ELSE IF reg[t].next.frag = Null THEN "put_link" ELSE "put_swing")
  /\ UNCHANGED <<mem, head, tail, freeable, reg, user, calls, overlap>>

PutLink(t) ==
  LET f == reg[t].tail.frag
  IN  /\ pc[t] = "put_link"
      /\ \/ /\ mem[f] = reg[t].next
            /\ mem' = [mem EXCEPT ![f] = NodeOf(@.count + 1, reg[t].frag)]
            /\ Goto(t, "put_end")
         \/ /\ mem[f] # reg[t].next \/ t \in SpuriousCAS
            /\ Goto(t, "put_tail")
            /\ UNCHANGED mem
      /\ UNCHANGED <<head, tail, freeable, reg, user, calls, overlap>>

\* CAS of self->tail to fragment f; its result is ignored.
SwingTail(t, f) ==
  \/ tail = reg[t].tail /\ tail' = NodeOf(tail.count + 1, f)
  \/ (tail # reg[t].tail \/ t \in SpuriousCAS) /\ UNCHANGED tail

PutSwing(t) ==
  /\ pc[t] = "put_swing"
  /\ SwingTail(t, reg[t].next.frag)
  /\ Goto(t, "put_tail")
  /\ UNCHANGED <<mem, head, freeable, reg, user, calls, overlap>>

PutEnd(t) ==
  /\ pc[t] = "put_end"
  /\ SwingTail(t, reg[t].frag)
  /\ Goto(t, "put_count")
  /\ UNCHANGED <<mem, head, freeable, reg, user, calls, overlap>>

PutCount(t) ==
  /\ pc[t] = "put_count"
  /\ freeable' = (freeable + 1) % SizeMod
  /\ reg' = [reg EXCEPT ![t] = NoReg]
  /\ Goto(t, "idle")
  /\ UNCHANGED <<mem, head, tail, user, calls, overlap>>

-----------------------------------------------------------------------------
(***************************************************************************)
(* internal_mempool_pick, for mempool_alloc.                               *)
(***************************************************************************)
Alloc(t) ==
  /\ pc[t] = "idle" /\ calls[t] < MaxCalls[t]
  /\ calls' = [calls EXCEPT ![t] = @ + 1]
  /\ Goto(t, "pick_head")
  /\ UNCHANGED <<mem, head, tail, freeable, reg, user, overlap>>

PickHead(t) ==
  /\ pc[t] = "pick_head"
  /\ reg' = [reg EXCEPT ![t].head = head]
  /\ Goto(t, "pick_tail")
  /\ UNCHANGED <<mem, head, tail, freeable, user, calls, overlap>>

PickTail(t) ==
  /\ pc[t] = "pick_tail"
  /\ reg' = [reg EXCEPT ![t].tail = tail]
  /\ Goto(t, "pick_next")
  /\ UNCHANGED <<mem, head, tail, freeable, user, calls, overlap>>

\* next = head.frag->next, of which only the pointer is used.  (empty is a
\* history variable: the list had no free fragment at this moment.)
PickNext(t) ==
  /\ pc[t] = "pick_next" /\ reg[t].head.frag \in Frag
  /\ reg' = [reg EXCEPT ![t].next.frag = mem[reg[t].head.frag].frag,
                        ![t].empty = (Cardinality(Chain) = 1)]
  /\ Goto(t, "pick_check")
  /\ UNCHANGED <<mem, head, tail, freeable, user, calls, overlap>>

\* Mutant: the test for an empty list is left out.
PickNoEmpty(t) ==
  IF reg[t].head.frag # reg[t].tail.frag THEN "pick_take" ELSE "pick_swing"

PickBranch(t) ==
  IF reg[t].head.frag # reg[t].tail.frag THEN "pick_take"
  ELSE IF reg[t].next.frag = Null THEN "pick_fail" ELSE "pick_swing"

\* Mutant: no second look at self->head.
PickUnchecked(t) ==
  /\ pc[t] = "pick_check"
  /\ Goto(t, PickBranch(t))
  /\ UNCHANGED <<mem, head, tail, freeable, reg, user, calls, overlap>>

\* equals(head, self->head)
PickCheck(t) ==
  /\ pc[t] = "pick_check"
  /\ Goto(t, IF reg[t].head # head THEN "pick_head" ELSE PickBranch(t))
  /\ UNCHANGED <<mem, head, tail, freeable, reg, user, calls, overlap>>

\* Mutant: freeable is decremented by a call that fails, too.
PickFailCounts(t) ==
  /\ pc[t] = "pick_fail"
  /\ reg' = [reg EXCEPT ![t] = NoReg]
  /\ freeable' = (freeable - 1) % SizeMod
  /\ Goto(t, "idle")
  /\ UNCHANGED <<mem, head, tail, user, calls, overlap>>

\* ENOMEM
PickFail(t) ==
  /\ pc[t] = "pick_fail"
  /\ reg' = [reg EXCEPT ![t] = NoReg]
  /\ Goto(t, "idle")
  /\ UNCHANGED <<mem, head, tail, freeable, user, calls, overlap>>

PickSwing(t) ==
  /\ pc[t] = "pick_swing"
  /\ SwingTail(t, reg[t].next.frag)
  /\ Goto(t, "pick_head")
  /\ UNCHANGED <<mem, head, freeable, reg, user, calls, overlap>>

\* Mutant: the CAS compares pointers and leaves the count alone.
PickTakeNoCount(t) ==
  /\ pc[t] = "pick_take"
  /\ \/ /\ head.frag = reg[t].head.frag
        /\ head' = NodeOf(head.count, reg[t].next.frag)
        /\ reg' = [reg EXCEPT ![t].frag = head.frag]
        /\ Goto(t, "pick_count")
     \/ /\ head.frag # reg[t].head.frag \/ t \in SpuriousCAS
        /\ Goto(t, "pick_head")
        /\ UNCHANGED <<head, reg>>
  /\ UNCHANGED <<mem, tail, freeable, user, calls, overlap>>

PickTake(t) ==
  /\ pc[t] = "pick_take"
  /\ \/ /\ head = reg[t].head
        /\ head' = NodeOf(head.count + 1, reg[t].next.frag)
        /\ reg' = [reg EXCEPT ![t].frag = head.frag]
        /\ Goto(t, "pick_count")
     \/ /\ head # reg[t].head \/ t \in SpuriousCAS
        /\ Goto(t, "pick_head")
        /\ UNCHANGED <<head, reg>>
  /\ UNCHANGED <<mem, tail, freeable, user, calls, overlap>>

\* The fragment is the user's when the call returns.
PickCount(t) ==
  /\ pc[t] = "pick_count"
  /\ freeable' = (freeable - 1) % SizeMod
  /\ user' = user \cup {reg[t].frag}
  /\ reg' = [reg EXCEPT ![t] = NoReg]
  /\ Goto(t, "idle")
  /\ UNCHANGED <<mem, head, tail, calls, overlap>>

\* The user of a fragment stores something in it, at any time.
Store(f, d) ==
  /\ mem' = [mem EXCEPT ![f] = d]
  /\ UNCHANGED <<head, tail, freeable, pc, reg, user, calls, overlap>>

\* mempool_clear, while no other call is in progress.
Clear(t) ==
  /\ \A u \in Thread : pc[u] = "idle"
  /\ calls[t] < MaxCalls[t]
  /\ calls' = [calls EXCEPT ![t] = @ + 1]
  /\ mem' = [i \in Frag |-> Setup(i)]
  /\ head' = NodeOf(0, 0) /\ tail' = NodeOf(Capacity, Capacity)
  /\ freeable' = Capacity
  /\ user' = {}
  /\ UNCHANGED <<pc, reg, overlap>>

Put(t) ==
  \/ PutInit(t) \/ PutTail(t) \/ PutNextCount(t) \/ PutNextFrag(t)
  \/ PutCheck(t) \/ PutLink(t) \/ PutSwing(t) \/ PutEnd(t) \/ PutCount(t)

Pick(t) ==
  \/ PickHead(t) \/ PickTail(t) \/ PickNext(t) \/ PickCheck(t) \/ PickFail(t)
  \/ PickSwing(t) \/ PickTake(t) \/ PickCount(t)

\* Every thread has made its calls.
Done == /\ \A t \in Thread : pc[t] = "idle" /\ calls[t] = MaxCalls[t]
        /\ UNCHANGED vars

Next ==
  \/ \E t \in Thread : Free(t) \/ Alloc(t) \/ Clear(t) \/ Put(t) \/ Pick(t)
  \/ \E f \in user, d \in UserData : Store(f, d)
  \/ Done

Spec == Init /\ [][Next]_vars

-----------------------------------------------------------------------------
Label == {"idle", "pick_head", "pick_tail", "pick_next", "pick_check",
          "pick_fail", "pick_swing", "pick_take", "pick_count"} \cup Putting

\* The types; head and tail point to a fragment of the pool, so that no thread
\* follows a pointer that is none, until calls of mempool_free overlap.
TypeOK ==
  /\ mem \in [Frag -> Node]
  /\ head \in Node /\ tail \in Node
  /\ freeable \in 0 .. SizeMod - 1
  /\ pc \in [Thread -> Label]
  /\ reg \in [Thread -> [head : Node, tail : Node, next : Node,
                         frag : Frag \cup {Null}, empty : BOOLEAN]]
  /\ user \subseteq Frag
  /\ calls \in [Thread -> Nat] /\ \A t \in Thread : calls[t] <= MaxCalls[t]
  /\ overlap \in BOOLEAN
  /\ ~ overlap => head.frag \in Frag /\ tail.frag \in Frag

\* The fragments in the hands of a call that is still to link it to the list,
\* or to return it.
Holders(f) == {t \in Thread : /\ pc[t] \in {"put_init", "pick_count"} \cup Unlinked
                              /\ reg[t].frag = f}

\* Each fragment is in the free list, or with one user, or in the hands of one
\* call: no fragment is allocated twice, lost, or allocated while it is in the
\* free list; and the tail never points out of the list.  It is so whatever
\* users store and however many calls of mempool_alloc there are at once
\* (collections.c:123-213), until calls of mempool_free overlap.
FreeListSound ==
  ~ overlap =>
    /\ tail.frag \in Chain
    /\ Chain \subseteq Frag
    /\ \A f \in Frag : Cardinality({f} \cap Chain) + Cardinality({f} \cap user)
                          + Cardinality(Holders(f)) = 1

\* A step of a call on the pool never writes to a fragment that a user owns,
\* although it may read it (collections.c:131-137).  Users write as they like.
UserMemSafe ==
  [][pc' # pc /\ ~ overlap' => \A f \in user \cap user' : mem'[f] = mem[f]]_vars

\* freeable is the number of fragments that can be allocated, but for calls
\* between the change of the list and the update of the counter.
FreeableExact ==
  LET linked == Cardinality({t \in Thread : pc[t] \in Linked})
      taken  == Cardinality({t \in Thread : pc[t] = "pick_count"})
  IN  ~ overlap => (freeable + linked - taken) % SizeMod = Cardinality(Chain) - 1

\* mempool_alloc returns NULL only if, at some moment of the call, the list
\* that starts at the head had no free fragment (collections.c:179-183).
NoSpuriousENOMEM == \A t \in Thread : pc[t] = "pick_fail" => reg[t].empty
=============================================================================
