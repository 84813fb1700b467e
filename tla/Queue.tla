-------------------------------- MODULE Queue --------------------------------
(***************************************************************************)
(* The lock-free queue of values of src/src/collections.c: a linked list   *)
(* of fragments behind a dummy.  queue_enqueue links a new fragment at the *)
(* end, queue_dequeue copies the value of the dummy's successor, makes     *)
(* that fragment the dummy and frees the old one.                          *)
(*                                                                         *)
(* Fragments come from the queue's own memory pool: the module extends     *)
(* MemPool, and a call of mempool_alloc or mempool_free takes the steps it *)
(* has there.  Both work on the same memory: struct queue_node has the     *)
(* form of struct memory_node, and the queue and the pool keep their links *)
(* in the same first bytes of a fragment.                                  *)
(*                                                                         *)
(* Every access to memory that is shared is an action; the plain copy of   *)
(* next is two loads, the count and then the pointer.                      *)
(***************************************************************************)
EXTENDS MemPool, Sequences

CONSTANTS Enqueuer, Dequeuer  \* threads that call queue_enqueue, queue_dequeue

Value == UNION {{t} \X (1 .. MaxCalls[t]) : t \in Enqueuer}

\* The queue's capacity: its pool has one fragment more, for the dummy.
Room == Capacity - 1

ASSUME QueueAssumption ==
  /\ Thread = Enqueuer \cup Dequeuer
  /\ Room \in Nat \ {0} /\ InUse = 1 /\ UserData = Node
  /\ Null \notin Value

VARIABLES
  qhead, qtail,  \* of the queue
  data,          \* the value in each fragment
  qpc, qreg,     \* of each thread: its place and its local variables
  accepted,      \* history: values whose queue_enqueue returned 0
  got            \* history: values taken out, in that order

qvars == <<qhead, qtail, data, qpc, qreg, accepted, got>>
allvars == <<vars, qvars>>

NoQReg == [head |-> NoNode, tail |-> NoNode, next |-> NoNode, frag |-> Null,
           copy |-> Null, empty |-> FALSE]

\* queue_create: fragment 0 of the pool has been allocated for the dummy.
QInit ==
  /\ Init
  /\ data = [f \in Frag |-> Null]
  /\ qhead = NodeOf(0, 0) /\ qtail = NodeOf(0, 0)
  /\ qpc = [t \in Thread |-> "idle"]
  /\ qreg = [t \in Thread |-> NoQReg]
  /\ accepted = {} /\ got = <<>>

QGoto(t, l) == qpc' = [qpc EXCEPT ![t] = l]

\* The value that thread t is putting in.
Current(t) == <<t, calls[t]>>

\* The fragments from f on, as the links lead (a cycle is cut off).
Path(f) ==
  LET link == [x \in Frag \cup {Null, Junk} |->
                 IF x \in Frag THEN mem[x].frag ELSE Null]
      at[n \in Frag] == IF n = 0 THEN f ELSE link[at[n - 1]]
  IN  [i \in 1 .. Cardinality({n \in Frag : at[n] # Null}) |-> at[i - 1]]

\* The values in the queue: those of the fragments behind the dummy.
items == LET p == Path(qhead.frag)
         IN  [i \in 1 .. Len(p) - 1 |-> data[p[i + 1]]]

On(f) == LET p == Path(f) IN {p[i] : i \in DOMAIN p}

-----------------------------------------------------------------------------
(***************************************************************************)
(* queue_enqueue                                                           *)
(***************************************************************************)
\* queue_alloc_value calls mempool_alloc,
Enqueue(t) ==
  /\ t \in Enqueuer /\ qpc[t] = "idle" /\ Alloc(t)
  /\ QGoto(t, "enq_alloc")
  /\ UNCHANGED <<qhead, qtail, data, qreg, accepted, got>>

EnqPick(t) ==
  /\ qpc[t] = "enq_alloc"
  /\ \/ PickHead(t) \/ PickTail(t) \/ PickNext(t) \/ PickCheck(t)
     \/ PickSwing(t) \/ PickTake(t)
  /\ UNCHANGED qvars

\* which fails with ENOMEM
EnqFails(t) ==
  /\ qpc[t] = "enq_alloc" /\ PickFail(t)
  /\ QGoto(t, "idle")
  /\ UNCHANGED <<qhead, qtail, data, qreg, accepted, got>>

\* or returns a fragment.
EnqAlloc(t) ==
  /\ qpc[t] = "enq_alloc" /\ PickCount(t)
  /\ qreg' = [qreg EXCEPT ![t].frag = reg[t].frag]
  /\ QGoto(t, "enq_init")
  /\ UNCHANGED <<qhead, qtail, data, accepted, got>>

\* *v = QUEUE_VALUE_MAKER()
EnqInit(t) ==
  /\ qpc[t] = "enq_init" /\ Store(qreg[t].frag, NoNode)
  /\ QGoto(t, "enq_data")
  /\ UNCHANGED <<qhead, qtail, data, qreg, accepted, got>>

EnqData(t) ==
  /\ qpc[t] = "enq_data"
  /\ data' = [data EXCEPT ![qreg[t].frag] = Current(t)]
  /\ QGoto(t, "enq_tail")
  /\ UNCHANGED <<vars, qhead, qtail, qreg, accepted, got>>

EnqTail(t) ==
  /\ qpc[t] = "enq_tail"
  /\ qreg' = [qreg EXCEPT ![t].tail = qtail]
  /\ QGoto(t, "enq_next_count")
  /\ UNCHANGED <<vars, qhead, qtail, data, accepted, got>>

\* struct queue_node next = tail.val->next: the count, then the pointer.
\* (A null pointer would crash the program here, and below.)
EnqNextCount(t) ==
  /\ qpc[t] = "enq_next_count" /\ qreg[t].tail.frag \in Frag
  /\ qreg' = [qreg EXCEPT ![t].next.count = mem[qreg[t].tail.frag].count]
  /\ QGoto(t, "enq_next_val")
  /\ UNCHANGED <<vars, qhead, qtail, data, accepted, got>>

EnqNextVal(t) ==
  /\ qpc[t] = "enq_next_val" /\ qreg[t].tail.frag \in Frag
  /\ qreg' = [qreg EXCEPT ![t].next.frag = mem[qreg[t].tail.frag].frag]
  /\ QGoto(t, "enq_check")
  /\ UNCHANGED <<vars, qhead, qtail, data, accepted, got>>

\* equals(tail, self->tail)
EnqCheck(t) ==
  /\ qpc[t] = "enq_check"
  /\ QGoto(t, IF qreg[t].tail # qtail THEN "enq_tail"
              ELSE IF qreg[t].next.frag = Null THEN "enq_link" ELSE "enq_swing")
  /\ UNCHANGED <<vars, qhead, qtail, data, qreg, accepted, got>>

EnqLink(t) ==
  LET f == qreg[t].tail.frag
  IN  /\ qpc[t] = "enq_link"
      /\ \/ /\ mem[f] = qreg[t].next
            /\ Store(f, NodeOf(mem[f].count + 1, qreg[t].frag))
            /\ QGoto(t, "enq_end")
         \/ /\ mem[f] # qreg[t].next \/ t \in SpuriousCAS
            /\ QGoto(t, "enq_tail")
            /\ UNCHANGED vars
      /\ UNCHANGED <<qhead, qtail, data, qreg, accepted, got>>

\* CAS of self->tail to fragment f; its result is ignored.
QSwingTail(t, f) ==
  \/ qtail = qreg[t].tail /\ qtail' = NodeOf(qtail.count + 1, f)
  \/ (qtail # qreg[t].tail \/ t \in SpuriousCAS) /\ UNCHANGED qtail

EnqSwing(t) ==
  /\ qpc[t] = "enq_swing"
  /\ QSwingTail(t, qreg[t].next.frag)
  /\ QGoto(t, "enq_tail")
  /\ UNCHANGED <<vars, qhead, data, qreg, accepted, got>>

EnqEnd(t) ==
  /\ qpc[t] = "enq_end"
  /\ QSwingTail(t, qreg[t].frag)
  /\ accepted' = accepted \cup {Current(t)}
  /\ qreg' = [qreg EXCEPT ![t] = NoQReg]
  /\ QGoto(t, "idle")
  /\ UNCHANGED <<vars, qhead, data, got>>

-----------------------------------------------------------------------------
(***************************************************************************)
(* queue_dequeue                                                           *)
(***************************************************************************)
Dequeue(t) ==
  /\ t \in Dequeuer /\ qpc[t] = "idle" /\ calls[t] < MaxCalls[t]
  /\ QGoto(t, "deq_head")
  /\ UNCHANGED <<vars, qhead, qtail, data, qreg, accepted, got>>

DeqHead(t) ==
  /\ qpc[t] = "deq_head"
  /\ qreg' = [qreg EXCEPT ![t].head = qhead]
  /\ QGoto(t, "deq_tail")
  /\ UNCHANGED <<vars, qhead, qtail, data, accepted, got>>

DeqTail(t) ==
  /\ qpc[t] = "deq_tail"
  /\ qreg' = [qreg EXCEPT ![t].tail = qtail]
  /\ QGoto(t, "deq_next")
  /\ UNCHANGED <<vars, qhead, qtail, data, accepted, got>>

\* next = head.val->next, of which only the pointer is used.  (empty is a
\* history variable: the queue was empty at this moment.)
DeqNext(t) ==
  /\ qpc[t] = "deq_next" /\ qreg[t].head.frag \in Frag
  /\ qreg' = [qreg EXCEPT ![t].next.frag = mem[qreg[t].head.frag].frag,
                          ![t].empty = (items = <<>>)]
  /\ QGoto(t, "deq_check")
  /\ UNCHANGED <<vars, qhead, qtail, data, accepted, got>>

\* Mutant: the test for an empty queue is left out.
DeqNoEmpty(t) ==
  IF qreg[t].head.frag # qreg[t].tail.frag THEN "deq_copy" ELSE "deq_swing"

DeqBranch(t) ==
  IF qreg[t].head.frag # qreg[t].tail.frag THEN "deq_copy"
  ELSE IF qreg[t].next.frag = Null THEN "deq_empty" ELSE "deq_swing"

\* Mutant: no second look at self->head.
DeqUnchecked(t) ==
  /\ qpc[t] = "deq_check"
  /\ QGoto(t, DeqBranch(t))
  /\ UNCHANGED <<vars, qhead, qtail, data, qreg, accepted, got>>

\* equals(head, self->head)
DeqCheck(t) ==
  /\ qpc[t] = "deq_check"
  /\ QGoto(t, IF qreg[t].head # qhead THEN "deq_head" ELSE DeqBranch(t))
  /\ UNCHANGED <<vars, qhead, qtail, data, qreg, accepted, got>>

\* ENOENT
DeqEmpty(t) ==
  /\ qpc[t] = "deq_empty"
  /\ qreg' = [qreg EXCEPT ![t] = NoQReg]
  /\ QGoto(t, "idle")
  /\ UNCHANGED <<vars, qhead, qtail, data, accepted, got>>

DeqSwing(t) ==
  /\ qpc[t] = "deq_swing"
  /\ QSwingTail(t, qreg[t].next.frag)
  /\ QGoto(t, "deq_head")
  /\ UNCHANGED <<vars, qhead, data, qreg, accepted, got>>

\* Mutant: the value of the old dummy is copied.
DeqCopyHead(t) ==
  /\ qpc[t] = "deq_copy" /\ qreg[t].next.frag \in Frag
  /\ qreg' = [qreg EXCEPT ![t].copy = data[qreg[t].head.frag]]
  /\ QGoto(t, "deq_take")
  /\ UNCHANGED <<vars, qhead, qtail, data, accepted, got>>

\* memcpy(val, next.val->data, ...), into memory that is the caller's own: it
\* is only looked at if the compare-and-swap that follows succeeds.
DeqCopy(t) ==
  /\ qpc[t] = "deq_copy" /\ qreg[t].next.frag \in Frag
  /\ qreg' = [qreg EXCEPT ![t].copy = data[qreg[t].next.frag]]
  /\ QGoto(t, "deq_take")
  /\ UNCHANGED <<vars, qhead, qtail, data, accepted, got>>

\* Mutant: the CAS compares the pointers only.
DeqTakeNoCount(t) ==
  /\ qpc[t] = "deq_take"
  /\ \/ /\ qhead.frag = qreg[t].head.frag
        /\ qhead' = NodeOf(qhead.count + 1, qreg[t].next.frag)
        /\ got' = Append(got, qreg[t].copy)
        /\ QGoto(t, "deq_free")
     \/ /\ qhead.frag # qreg[t].head.frag \/ t \in SpuriousCAS
        /\ QGoto(t, "deq_head")
        /\ UNCHANGED <<qhead, got>>
  /\ UNCHANGED <<vars, qtail, data, qreg, accepted>>

DeqTake(t) ==
  /\ qpc[t] = "deq_take"
  /\ \/ /\ qhead = qreg[t].head
        /\ qhead' = NodeOf(qhead.count + 1, qreg[t].next.frag)
        /\ got' = Append(got, qreg[t].copy)
        /\ QGoto(t, "deq_free")
     \/ /\ qhead # qreg[t].head \/ t \in SpuriousCAS
        /\ QGoto(t, "deq_head")
        /\ UNCHANGED <<qhead, got>>
  /\ UNCHANGED <<vars, qtail, data, qreg, accepted>>

\* Mutant: the new dummy is freed instead of the old one.
DeqFreeNext(t) ==
  /\ qpc[t] = "deq_free" /\ FreeAt(t, qreg[t].next.frag)
  /\ QGoto(t, "deq_put")
  /\ UNCHANGED <<qhead, qtail, data, qreg, accepted, got>>

\* mempool_free(&self->pool, head.val)
DeqFree(t) ==
  /\ qpc[t] = "deq_free" /\ FreeAt(t, qreg[t].head.frag)
  /\ QGoto(t, "deq_put")
  /\ UNCHANGED <<qhead, qtail, data, qreg, accepted, got>>

DeqPut(t) ==
  /\ qpc[t] = "deq_put"
  /\ \/ PutInit(t) \/ PutTail(t) \/ PutNextCount(t) \/ PutNextFrag(t)
     \/ PutCheck(t) \/ PutLink(t) \/ PutSwing(t) \/ PutEnd(t)
  /\ UNCHANGED qvars

DeqDone(t) ==
  /\ qpc[t] = "deq_put" /\ PutCount(t)
  /\ qreg' = [qreg EXCEPT ![t] = NoQReg]
  /\ QGoto(t, "idle")
  /\ UNCHANGED <<qhead, qtail, data, accepted, got>>

Enq(t) ==
  \/ Enqueue(t) \/ EnqPick(t) \/ EnqFails(t) \/ EnqAlloc(t) \/ EnqInit(t)
  \/ EnqData(t) \/ EnqTail(t) \/ EnqNextCount(t) \/ EnqNextVal(t)
  \/ EnqCheck(t) \/ EnqLink(t) \/ EnqSwing(t) \/ EnqEnd(t)

Deq(t) ==
  \/ Dequeue(t) \/ DeqHead(t) \/ DeqTail(t) \/ DeqNext(t) \/ DeqCheck(t)
  \/ DeqEmpty(t) \/ DeqSwing(t) \/ DeqCopy(t) \/ DeqTake(t) \/ DeqFree(t)
  \/ DeqPut(t) \/ DeqDone(t)

\* Every thread has made its calls, or would find the queue empty.
QDone ==
  /\ \A t \in Thread :
       /\ qpc[t] = "idle"
       /\ calls[t] = MaxCalls[t] \/ (t \in Dequeuer /\ items = <<>>)
  /\ UNCHANGED allvars

QNext == QDone \/ \E t \in Thread : Enq(t) \/ Deq(t)

QSpec == QInit /\ [][QNext]_allvars

-----------------------------------------------------------------------------
QLabel == {"idle", "enq_alloc", "enq_init", "enq_data", "enq_tail",
           "enq_next_count", "enq_next_val", "enq_check", "enq_link",
           "enq_swing", "enq_end", "deq_head", "deq_tail", "deq_next",
           "deq_check", "deq_empty", "deq_swing", "deq_copy", "deq_take",
           "deq_free", "deq_put"}

\* The types.  Until calls of mempool_free overlap, head and tail point to a
\* fragment, a value is never copied through a null pointer and what comes out
\* is a value (collections.c:639).
QTypeOK ==
  /\ data \in [Frag -> Value \cup {Null}]
  /\ qhead \in Node /\ qtail \in Node
  /\ qpc \in [Thread -> QLabel]
  /\ qreg \in [Thread -> [head : Node, tail : Node, next : Node,
                          frag : Frag \cup {Null}, copy : Value \cup {Null},
                          empty : BOOLEAN]]
  /\ accepted \subseteq Value
  /\ ~ overlap =>
       /\ qhead.frag \in Frag /\ qtail.frag \in Frag
       /\ \A t \in Thread : qpc[t] = "deq_copy" => qreg[t].next.frag \in Frag
       /\ got \in Seq(Value)

\* The fragments in the hands of a call.
Held(t) == CASE qpc[t] \in {"enq_init", "enq_data", "enq_tail", "enq_next_count",
                            "enq_next_val", "enq_check", "enq_link", "enq_swing"}
                  -> {qreg[t].frag}
             [] qpc[t] = "deq_free" -> {qreg[t].head.frag}
             [] OTHER -> {}

\* Each fragment that the queue has from the pool is linked in the queue or in
\* the hands of one call, and none of them is in the pool's free list, although
\* a late compare-and-swap works on the links of both.
FragmentsKept ==
  ~ overlap =>
    /\ qtail.frag \in On(qhead.frag)
    /\ user \cap Chain = {}
    /\ \A f \in Frag :
         Cardinality({f} \cap On(qhead.frag)) + Cardinality({t \in Thread : f \in Held(t)})
           = IF f \in user THEN 1 ELSE 0

\* queue_dequeue says that the queue is empty only if it was so at some moment
\* of the call (collections.c:630-633).
NoSpuriousENOENT == \A t \in Thread : qpc[t] = "deq_empty" => qreg[t].empty

\* Every value for which queue_enqueue returned 0 is in the queue or has been
\* taken out of it.
ValuesKept ==
  ~ overlap =>
    \A v \in accepted : \/ \E i \in DOMAIN items : items[i] = v
                        \/ \E i \in DOMAIN got : got[i] = v

\* What is taken out are values that were put in, each once.
NothingInvented ==
  \A i, j \in DOMAIN got : got[i] # Null /\ (got[i] = got[j] => i = j)

\* The queue uses its pool as the pool wants to be used, until calls of
\* mempool_free overlap: it frees what it owns, and stores where it owns.
UsesPool == Init /\ [][Next \/ overlap']_vars

F == INSTANCE Fifo WITH Capacity <- Room

\* The queue is a bounded FIFO queue: the compare-and-swap of line 588 puts a
\* value in, the one of line 643 takes the oldest one out, and no other step
\* changes what is in it, until calls of mempool_free overlap.
ImplementsFifo == F!Init /\ [][F!Next \/ overlap']_(F!vars)
=============================================================================
