-------------------------------- MODULE List --------------------------------
(***************************************************************************)
(* The lock-free sorted list of src/src/collections.c, after Fomitchev and *)
(* Ruppert.  To delete a node, a thread flags the link of the predecessor, *)
(* sets the node's backlink, marks its link, and unlinks it; any thread    *)
(* that meets a flag or a mark helps.  A thread whose predecessor has been *)
(* marked goes back along backlinks.                                       *)
(*                                                                         *)
(* Nodes come from the list's own memory pool, and list_delete frees the   *)
(* node it has unlinked.  The pool keeps its links in the same first bytes *)
(* of a node as the list: its modification count is where the list has its *)
(* mark.  mempool_alloc is one step, and mempool_free one with a second    *)
(* for its end, between which the node may not be in the free list yet.    *)
(* Module MemPool has the steps of both: what they do one after another is *)
(* all that can be told from outside until calls of mempool_free overlap.  *)
(*                                                                         *)
(* The code does nothing to keep calls of mempool_free apart, nor a node   *)
(* from being freed while other calls stand on it, nor try_flag from       *)
(* taking a flag for one that it is not.  All of this may happen here, and *)
(* the variable spoilt records it: what the list promises, it promises     *)
(* until then.                                                             *)
(*                                                                         *)
(* Every access to a shared link is an action.  Values are copied in one   *)
(* step: the word readers makes copies and updates exclude each other.     *)
(* atomic_compare_exchange_weak does not fail spuriously, as in an x86-64  *)
(* build: help_marked does not repeat it and relies on that.               *)
(***************************************************************************)
EXTENDS Integers, Sequences, FiniteSets

CONSTANTS
  Thread, Value,
  Key,       \* keys, as integers
  Filled,    \* pairs <<key, value>> that one thread has inserted, in this order
  Capacity,  \* of the list; its pool has three fragments more
  Ops,       \* of each thread: the operations it may call, with which keys
  Null, None,
  MaxCalls   \* bound: calls of each thread

Op     == {"insert", "delete", "search", "update"}
Node   == 0 .. Capacity + 2
HeadN  == 0
TailN  == 1
Bottom == -1                                  \* INTPTR_MIN
Top    == 1 + CHOOSE k \in Key : \A j \in Key : j <= k  \* INTPTR_MAX

ASSUME ListAssumption ==
  /\ Key \subseteq Nat /\ IsFiniteSet(Key) /\ Key # {}
  /\ Capacity \in Nat \ {0} /\ Len(Filled) <= Capacity
  /\ Filled \in Seq(Key \X Value)
  /\ \A i, j \in DOMAIN Filled : i < j => Filled[i][1] < Filled[j][1]
  /\ Ops \in [Thread -> SUBSET (Op \X Key)] /\ MaxCalls \in Nat
  /\ Null \notin Node /\ None \notin Value

VARIABLES
  succ, back, key, val,  \* each node's link, backlink, key and value
  free,                  \* the pool's dummy, at the head of its free list
  pc, reg, stack,        \* of each thread: place, locals, calls of help_flagged
  calls,                 \* number of calls of each thread
  freeing,               \* the threads that may still be in mempool_free
  seen,                  \* history: what a call's key was bound to since it began
  spoilt                 \* history: the hazards that have come about

nodes == <<succ, back, key, val, free>>
vars  == <<nodes, pc, reg, stack, calls, freeing, seen, spoilt>>

Ref(n, m)  == [mark |-> m, node |-> n]
UNMARKED == 0
MARKED   == 1
FLAGGED  == 2
is_marked(r)  == r.mark % 2 = 1
is_flagged(r) == (r.mark \div 2) % 2 = 1

\* The nodes from f on, as the links lead (a cycle is cut off).
Path(f) ==
  LET walk[s \in (Node \cup {Null}) \X (0 .. Capacity + 3)] ==
        IF s[1] = Null \/ s[2] = 0
        THEN <<>> ELSE <<s[1]>> \o walk[<<succ[s[1]].node, s[2] - 1>>]
  IN  walk[<<f, Capacity + 3>>]

On(f) == LET p == Path(f) IN {p[i] : i \in DOMAIN p}

\* The value of each key: that of the node in the list that is not marked.
items ==
  LET live == {n \in On(HeadN) \ {HeadN, TailN} : ~ is_marked(succ[n])}
  IN  [k \in Key |-> IF \E n \in live : key[n] = k
                     THEN val[CHOOSE n \in live : key[n] = k] ELSE None]

Idle == [op |-> "search", arg |-> 0, v |-> None, out |-> "none",
         prev |-> Null, next |-> Null, node |-> Null, tmp |-> Null,
         key |-> 0, curr |-> Null, ret |-> "idle"]

\* After list_create and the insertions of Filled, whose nodes are 2 to NF + 1.
NF == Len(Filled)

Setup(i) ==
  CASE i \in {TailN, Capacity + 2}     -> Ref(Null, UNMARKED)
    [] i = HeadN /\ NF > 0            -> Ref(2, UNMARKED)
    [] i \in 2 .. NF                  -> Ref(i + 1, UNMARKED)
    [] i = (IF NF = 0 THEN HeadN ELSE NF + 1) -> Ref(TailN, UNMARKED)
    [] OTHER                          -> Ref(i + 1, 1)

Init ==
  /\ succ = [i \in Node |-> Setup(i)]
  /\ back = [i \in Node |-> Null]
  /\ key = [i \in Node |-> CASE i = HeadN -> Bottom [] i = TailN -> Top
                              [] i \in 2 .. NF + 1 -> Filled[i - 1][1]
                              [] OTHER -> 0]
  /\ val = [i \in Node |-> IF i \in 2 .. NF + 1 THEN Filled[i - 1][2] ELSE None]
  /\ free = NF + 2
  /\ pc = [t \in Thread |-> "idle"]
  /\ reg = [t \in Thread |-> Idle]
  /\ stack = [t \in Thread |-> <<>>]
  /\ calls = [t \in Thread |-> 0]
  /\ freeing = {}
  /\ seen = [t \in Thread |-> {}]
  /\ spoilt = {}

Goto(t, l) == pc' = [pc EXCEPT ![t] = l]

\* The call returns.
Return(t, out) ==
  /\ reg' = [reg EXCEPT ![t] = [Idle EXCEPT !.out = out]]
  /\ Goto(t, "idle")

\* A step that reads shared memory into a local variable.
Local(t, l, r) == /\ reg' = [reg EXCEPT ![t] = r]
                  /\ Goto(t, l)
                  /\ UNCHANGED <<nodes, stack, calls>>

\* A step that only branches.
Branch(t, l) == Local(t, l, reg[t])

-----------------------------------------------------------------------------
(***************************************************************************)
(* search_from(reg.key, reg.curr): finds adjacent nodes curr and next with *)
(* curr.key <= key < next.key, unlinks marked nodes on its way, and goes   *)
(* on at reg.ret.                                                          *)
(***************************************************************************)
\* The loop's test: keys do not change while a node is in use.
Looked(r) == IF key[r.next] <= r.key THEN "s_mark" ELSE r.ret

\* curr is node c, and next its successor.
From(r, c) == [r EXCEPT !.curr = c, !.next = succ[c].node]
Look(t, r) == r.next \in Node /\ Local(t, Looked(r), r)

SearchMark(t) ==
  /\ pc[t] = "s_mark" /\ reg[t].next \in Node
  /\ Branch(t, IF is_marked(succ[reg[t].next]) THEN "s_curr_mark" ELSE "s_advance")

SearchCurrMark(t) ==
  /\ pc[t] = "s_curr_mark"
  /\ Branch(t, IF is_marked(succ[reg[t].curr]) THEN "s_curr_next" ELSE "s_body")

SearchCurrNext(t) ==
  /\ pc[t] = "s_curr_next"
  /\ Branch(t, IF succ[reg[t].curr].node # reg[t].next THEN "s_body" ELSE "s_advance")

SearchBody(t) ==
  /\ pc[t] = "s_body"
  /\ Branch(t, IF succ[reg[t].curr].node = reg[t].next THEN "s_unlink" ELSE "s_reload")

\* help_marked(curr, next): the new successor, then the compare-and-swap.
SearchUnlink(t) ==
  /\ pc[t] = "s_unlink"
  /\ Local(t, "s_cas", [reg[t] EXCEPT !.tmp = succ[reg[t].next].node])

SearchCas(t) ==
  LET c == reg[t].curr
  IN  /\ pc[t] = "s_cas"
      /\ succ' = IF succ[c] = Ref(reg[t].next, FLAGGED)
                 THEN [succ EXCEPT ![c] = Ref(reg[t].tmp, UNMARKED)] ELSE succ
      /\ reg' = [reg EXCEPT ![t].tmp = Null]
      /\ Goto(t, "s_reload")
      /\ UNCHANGED <<back, key, val, free, stack, calls>>

SearchReload(t) ==
  /\ pc[t] = "s_reload"
  /\ Local(t, "s_mark", From(reg[t], reg[t].curr))

SearchAdvance(t) ==
  /\ pc[t] = "s_advance"
  /\ IF key[reg[t].next] <= reg[t].key
     THEN Look(t, From(reg[t], reg[t].next))
     ELSE Branch(t, reg[t].ret)

SearchFrom(t) ==
  \/ SearchMark(t) \/ SearchCurrMark(t) \/ SearchCurrNext(t) \/ SearchBody(t)
  \/ SearchUnlink(t) \/ SearchCas(t) \/ SearchReload(t) \/ SearchAdvance(t)

-----------------------------------------------------------------------------
(***************************************************************************)
(* help_flagged(prev, del) with try_mark(del), which may call help_flagged *)
(* for the successor of del: the frames are on stack, the innermost first. *)
(***************************************************************************)
Frame(p, d, l) == [prev |-> p, del |-> d, next |-> Null, ret |-> l]
Top1(t) == stack[t][1]

\* Calls help_flagged(p, d), which returns to l.
Help(t, p, d, l) == /\ stack' = [stack EXCEPT ![t] = <<Frame(p, d, l)>> \o @]
                    /\ Goto(t, "h_back")

\* help_flagged returns, and so does list_delete if another list_delete had
\* flagged the node: it returns -1.
Resume(t) ==
  /\ stack' = [stack EXCEPT ![t] = Tail(@)]
  /\ IF Top1(t).ret = "lost" THEN Return(t, "noent")
                             ELSE Goto(t, Top1(t).ret) /\ UNCHANGED reg

\* Mutant: the backlink is not set.
HelpNoBack(t) ==
  /\ pc[t] = "h_back"
  /\ Goto(t, "h_test")
  /\ UNCHANGED <<nodes, reg, stack, calls>>

HelpBack(t) ==
  /\ pc[t] = "h_back" /\ Top1(t).del \in Node
  /\ back' = [back EXCEPT ![Top1(t).del] = Top1(t).prev]
  /\ Goto(t, "h_test")
  /\ UNCHANGED <<succ, key, val, free, reg, stack, calls>>

\* The test before and at the end of try_mark's loop.
HelpTest(t) ==
  /\ pc[t] = "h_test"
  /\ Branch(t, IF is_marked(succ[Top1(t).del]) THEN "h_unlink" ELSE "h_next")

TryMarkNext(t) ==
  /\ pc[t] = "h_next"
  /\ stack' = [stack EXCEPT ![t][1].next = succ[Top1(t).del].node]
  /\ Goto(t, "h_mark")
  /\ UNCHANGED <<nodes, reg, calls>>

TryMarkCas(t) ==
  LET d == Top1(t).del
  IN  /\ pc[t] = "h_mark"
      /\ succ' = IF succ[d] = Ref(Top1(t).next, UNMARKED)
                 THEN [succ EXCEPT ![d] = Ref(Top1(t).next, MARKED)] ELSE succ
      /\ Goto(t, "h_result")
      /\ UNCHANGED <<back, key, val, free, reg, stack, calls>>

TryMarkResult(t) ==
  LET r == succ[Top1(t).del]
  IN  /\ pc[t] = "h_result"
      /\ IF ~ is_marked(r) /\ is_flagged(r)
         THEN Help(t, Top1(t).del, r.node, "h_test")
         ELSE Goto(t, "h_test") /\ UNCHANGED stack
      /\ UNCHANGED <<nodes, reg, calls>>

\* help_marked(prev, del)
HelpUnlink(t) ==
  /\ pc[t] = "h_unlink"
  /\ stack' = [stack EXCEPT ![t][1].next = succ[Top1(t).del].node]
  /\ Goto(t, "h_cas")
  /\ UNCHANGED <<nodes, reg, calls>>

\* Mutant: the node is left in the list.
HelpNoCas(t) ==
  /\ pc[t] = "h_cas"
  /\ Resume(t)
  /\ UNCHANGED <<nodes, calls>>

HelpCas(t) ==
  LET f == Top1(t)
  IN  /\ pc[t] = "h_cas"
      /\ succ' = IF succ[f.prev] = Ref(f.del, FLAGGED)
                 THEN [succ EXCEPT ![f.prev] = Ref(f.next, UNMARKED)] ELSE succ
      /\ Resume(t)
      /\ UNCHANGED <<back, key, val, free, calls>>

HelpFlagged(t) ==
  \/ HelpBack(t) \/ HelpTest(t) \/ TryMarkNext(t) \/ TryMarkCas(t)
  \/ TryMarkResult(t) \/ HelpUnlink(t) \/ HelpCas(t)

-----------------------------------------------------------------------------
\* A call of one of the list's functions: each begins with search_from(.., head).
Call(t, op, k, v) ==
  /\ pc[t] = "idle" /\ t \notin freeing /\ calls[t] < MaxCalls
  /\ LET r == [Idle EXCEPT !.op = op, !.arg = k, !.v = v,
                            !.key = IF op = "delete" THEN k - 1 ELSE k,
                            !.ret = CASE op = "insert" -> "i_found"
                                      [] op = "delete" -> "d_found"
                                      [] OTHER -> "q_found"]
     IN  /\ reg' = [reg EXCEPT ![t] = From(r, HeadN)]
         /\ Goto(t, Looked(From(r, HeadN)))
  /\ calls' = [calls EXCEPT ![t] = @ + 1]
  /\ UNCHANGED <<nodes, stack>>

\* search_from(k, prev, &prev, &next) in the middle of a call.
SearchAgain(t, k, l) ==
  /\ reg[t].prev \in Node
  /\ Look(t, From([reg[t] EXCEPT !.key = k, !.ret = l], reg[t].prev))

\* mempool_free: node f is reset and linked to the last one of the free list.
Freed(f) == LET last == Path(free)[Len(Path(free))]
            IN  [succ EXCEPT ![f] = Ref(Null, 0), ![last] = Ref(f, @.mark + 1)]

\* while (is_marked_atomic(prev->succ)) prev = prev->backlink
GoBack(t, from, to) ==
  /\ pc[t] = from /\ reg[t].prev \in Node
  /\ IF is_marked(succ[reg[t].prev])
     THEN Local(t, from, [reg[t] EXCEPT !.prev = back[reg[t].prev]])
     ELSE Branch(t, to)

(***************************************************************************)
(* list_insert                                                             *)
(***************************************************************************)
InsertExists(t) ==
  /\ pc[t] = "i_found" /\ key[reg[t].curr] = reg[t].arg
  /\ Return(t, "exist")
  /\ UNCHANGED <<nodes, stack, calls>>

\* The free list is empty, or its only node is still being freed.
InsertNoMem(t) ==
  /\ pc[t] = "i_found" /\ key[reg[t].curr] # reg[t].arg
  /\ succ[free].node \in {Null} \cup {n \in Node : freeing # {} /\ succ[n].node = Null}
  /\ Return(t, "nomem")
  /\ UNCHANGED <<nodes, stack, calls>>

\* list_alloc_node, of memory that is the thread's own
InsertAlloc(t) ==
  /\ pc[t] = "i_found" /\ key[reg[t].curr] # reg[t].arg
  /\ succ[free].node # Null
  /\ free' = succ[free].node
  /\ succ' = [succ EXCEPT ![free] = Ref(Null, UNMARKED)]
  /\ back' = [back EXCEPT ![free] = Null]
  /\ key'  = [key EXCEPT ![free] = reg[t].arg]
  /\ val'  = [val EXCEPT ![free] = reg[t].v]
  /\ reg'  = [reg EXCEPT ![t].node = free, ![t].prev = reg[t].curr,
                          ![t].curr = Null]
  /\ Goto(t, "i_load")
  /\ UNCHANGED <<stack, calls>>

\* prev is flagged, or the node, which is the thread's own, is linked to next.
Load(t, r) ==
  LET l == succ[r.prev]
  IN  /\ reg' = [reg EXCEPT ![t] = r]
      /\ IF is_flagged(l)
         THEN Help(t, r.prev, l.node, "i_search") /\ UNCHANGED nodes
         ELSE /\ succ' = [succ EXCEPT ![r.node] = Ref(r.next, UNMARKED)]
              /\ Goto(t, "i_cas")
              /\ UNCHANGED <<back, key, val, free, stack>>
      /\ UNCHANGED calls

InsertLoad(t) == pc[t] = "i_load" /\ Load(t, reg[t])

\* Mutant: a store, where the code compares.
InsertStore(t) ==
  /\ pc[t] = "i_cas"
  /\ succ' = [succ EXCEPT ![reg[t].prev] = Ref(reg[t].node, UNMARKED)]
  /\ Return(t, "ok")
  /\ UNCHANGED <<back, key, val, free, stack, calls>>

InsertCas(t) ==
  LET p == reg[t].prev
  IN  /\ pc[t] = "i_cas"
      /\ IF succ[p] = Ref(reg[t].next, UNMARKED)
         THEN /\ succ' = [succ EXCEPT ![p] = Ref(reg[t].node, UNMARKED)]
              /\ Return(t, "ok")
         ELSE /\ Goto(t, "i_result")
              /\ UNCHANGED <<succ, reg>>
      /\ UNCHANGED <<back, key, val, free, stack, calls>>

InsertResult(t) ==
  LET r == succ[reg[t].prev]
  IN  /\ pc[t] = "i_result"
      /\ IF ~ is_marked(r) /\ is_flagged(r)
         THEN Help(t, reg[t].prev, r.node, "i_back")
         ELSE Goto(t, "i_back") /\ UNCHANGED stack
      /\ UNCHANGED <<nodes, reg, calls>>

InsertSearch(t) == pc[t] = "i_search" /\ SearchAgain(t, reg[t].arg, "i_again")

\* Mutant: no second look for the key.
InsertAgainBlind(t) ==
  /\ pc[t] = "i_again"
  /\ Load(t, [reg[t] EXCEPT !.prev = reg[t].curr, !.curr = Null])

\* The key has been inserted meanwhile, or not.
InsertAgain(t) ==
  /\ pc[t] = "i_again"
  /\ IF key[reg[t].curr] = reg[t].arg
     THEN /\ succ' = Freed(reg[t].node)
          /\ Return(t, "exist")
          /\ UNCHANGED <<back, key, val, free, stack, calls>>
     ELSE Load(t, [reg[t] EXCEPT !.prev = reg[t].curr, !.curr = Null])

Insert(t) ==
  \/ InsertExists(t) \/ InsertNoMem(t) \/ InsertAlloc(t) \/ InsertLoad(t)
  \/ InsertCas(t) \/ InsertResult(t)
  \/ GoBack(t, "i_back", "i_search") \/ InsertSearch(t) \/ InsertAgain(t)

-----------------------------------------------------------------------------
(***************************************************************************)
(* list_delete, with try_flag(prev, node).                                 *)
(***************************************************************************)
\* The test of try_flag reads the link three times:
\* (prev->succ).node == target && !is_marked(...) && is_flagged(...)
FlagNode(t, r) ==
  Local(t, IF succ[r.prev].node = r.node THEN "f_mark" ELSE "f_cas", r)

DeleteFound(t) ==
  /\ pc[t] = "d_found"
  /\ IF key[reg[t].next] # reg[t].arg
     THEN Return(t, "noent") /\ UNCHANGED <<nodes, stack, calls>>
     ELSE FlagNode(t, [reg[t] EXCEPT !.prev = reg[t].curr, !.curr = Null,
                                     !.node = reg[t].next, !.next = Null])

FlagMark(t) ==
  /\ pc[t] = "f_mark"
  /\ Branch(t, IF is_marked(succ[reg[t].prev]) THEN "f_cas" ELSE "f_flag")

FlagFlag(t) ==
  /\ pc[t] = "f_flag"
  /\ IF is_flagged(succ[reg[t].prev])
     THEN Help(t, reg[t].prev, reg[t].node, "lost")
     ELSE Goto(t, "f_cas") /\ UNCHANGED stack
  /\ UNCHANGED <<nodes, reg, calls>>

FlagCas(t) ==
  LET p == reg[t].prev
  IN  /\ pc[t] = "f_cas"
      /\ IF succ[p] = Ref(reg[t].node, UNMARKED)
         THEN /\ succ' = [succ EXCEPT ![p] = Ref(reg[t].node, FLAGGED)]
              /\ Help(t, p, reg[t].node, "d_copy")
         ELSE /\ Goto(t, "f_result")
              /\ UNCHANGED <<succ, stack>>
      /\ UNCHANGED <<back, key, val, free, reg, calls>>

FlagResult(t) ==
  LET r == succ[reg[t].prev]
  IN  /\ pc[t] = "f_result"
      /\ IF r = Ref(reg[t].node, FLAGGED)
         THEN Help(t, reg[t].prev, reg[t].node, "lost")
         ELSE Goto(t, "f_back") /\ UNCHANGED stack
      /\ UNCHANGED <<nodes, reg, calls>>

FlagSearch(t) ==
  /\ pc[t] = "f_search"
  /\ SearchAgain(t, key[reg[t].node] - 1, "f_again")

FlagAgain(t) ==
  /\ pc[t] = "f_again"
  /\ IF reg[t].next # reg[t].node
     THEN Return(t, "noent") /\ UNCHANGED <<nodes, stack, calls>>
     ELSE FlagNode(t, [reg[t] EXCEPT !.prev = reg[t].curr, !.curr = Null,
                                     !.next = Null])

DeleteCopy(t) ==
  /\ pc[t] = "d_copy"
  /\ Local(t, "d_free", [reg[t] EXCEPT !.v = val[reg[t].node]])

DeleteFree(t) ==
  /\ pc[t] = "d_free"
  /\ succ' = Freed(reg[t].node)
  /\ Return(t, "ok")
  /\ UNCHANGED <<back, key, val, free, stack, calls>>

Delete(t) ==
  \/ DeleteFound(t) \/ FlagMark(t) \/ FlagFlag(t) \/ FlagCas(t)
  \/ FlagResult(t) \/ GoBack(t, "f_back", "f_search") \/ FlagSearch(t)
  \/ FlagAgain(t) \/ DeleteCopy(t) \/ DeleteFree(t)

-----------------------------------------------------------------------------
(***************************************************************************)
(* list_search and list_update.                                            *)
(***************************************************************************)
\* Mutant: a key that is not found is not reported.
FoundUntested(t) == Return(t, "ok") /\ UNCHANGED <<nodes, stack, calls>>

NotFound(t) ==
  /\ key[reg[t].curr] # reg[t].arg
  /\ Return(t, "noent")
  /\ UNCHANGED <<nodes, stack, calls>>

SearchFound(t) ==
  /\ reg[t].op = "search" /\ key[reg[t].curr] = reg[t].arg
  /\ reg' = [reg EXCEPT ![t] = [Idle EXCEPT !.out = "ok", !.v = val[reg[t].curr]]]
  /\ Goto(t, "idle")
  /\ UNCHANGED <<nodes, stack, calls>>

UpdateFound(t) ==
  /\ reg[t].op = "update" /\ key[reg[t].curr] = reg[t].arg
  /\ val' = [val EXCEPT ![reg[t].curr] = reg[t].v]
  /\ Return(t, "ok")
  /\ UNCHANGED <<succ, back, key, free, stack, calls>>

Find(t) ==
  /\ pc[t] = "q_found"
  /\ NotFound(t) \/ SearchFound(t) \/ UpdateFound(t)

Step(t) ==
  \/ \E o \in Ops[t] :
       \E v \in IF o[1] \in {"insert", "update"} THEN Value ELSE {None} :
         Call(t, o[1], o[2], v)
  \/ SearchFrom(t) \/ HelpFlagged(t) \/ Insert(t) \/ Delete(t) \/ Find(t)

\* What the key of each call was bound to at some moment of the call, and what
\* updates in progress at that moment were about to store: these may find the
\* node of a key that has just been deleted.
History ==
  LET now == items'
      updates(k) == {u \in Thread : /\ pc'[u] # "idle"
                                    /\ reg'[u].op = "update" /\ reg'[u].arg = k}
      bound(k) == {<<"is", now[k]>>} \cup {<<"update", reg'[u].v>> : u \in updates(k)}
  IN  seen' = [u \in Thread |->
                 IF pc'[u] = "idle" THEN {} ELSE seen[u] \cup bound(reg'[u].arg)]

\* The next step of t frees a node while other calls may stand on it.
Early(t) ==
  pc[t] = "d_free" /\ \E u \in Thread \ {t} : pc[u] \notin {"idle", "d_free"}

\* The third load of try_flag finds a flag (collections.c:1044), but the link no
\* longer leads to the node of t, and nobody has marked that node.
Misled(t) ==
  LET l == succ[reg[t].prev]
  IN  /\ pc[t] = "f_flag" /\ is_flagged(l) /\ l.node # reg[t].node
      /\ ~ is_marked(succ[reg[t].node])

Frees(t) == pc[t] \in {"i_again", "d_free"} /\ pc'[t] = "idle"

Hazard == {"early", "misled", "overlap"}

Hazards(t) ==
  /\ freeing' = IF Frees(t) THEN freeing \cup {t} ELSE freeing
  /\ spoilt' = spoilt \cup {h \in Hazard : CASE h = "early"   -> Early(t)
                                           [] h = "misled"  -> Misled(t)
                                           [] h = "overlap" -> Frees(t) /\ freeing # {}}

\* mempool_free returns.
FreeEnd(t) ==
  /\ t \in freeing
  /\ freeing' = freeing \ {t}
  /\ UNCHANGED <<nodes, pc, reg, stack, calls, seen, spoilt>>

Done == /\ \A t \in Thread : pc[t] = "idle" /\ calls[t] = MaxCalls
        /\ freeing = {}
        /\ UNCHANGED vars

Next == \/ Done
        \/ \E t \in Thread : FreeEnd(t) \/ (Step(t) /\ History /\ Hazards(t))

Spec == Init /\ [][Next]_vars

-----------------------------------------------------------------------------
Label == {"idle", "s_mark", "s_curr_mark", "s_curr_next",
          "s_body", "s_unlink", "s_cas", "s_reload", "s_advance",
          "h_back", "h_test", "h_next", "h_mark", "h_result", "h_unlink", "h_cas",
          "i_found", "i_load", "i_cas", "i_result", "i_back",
          "i_search", "i_again", "d_found", "f_mark", "f_flag", "f_cas",
          "f_result", "f_back", "f_search", "f_again", "d_copy",
          "d_free", "q_found"}

\* The types; until a hazard comes about, no thread goes back or on along a null
\* pointer.
TypeOK ==
  /\ freeing \subseteq Thread /\ spoilt \subseteq Hazard
  /\ spoilt = {} =>
       /\ succ \in [Node -> [mark : 0 .. 2, node : Node \cup {Null}]]
       /\ back \in [Node -> Node \cup {Null}]
       /\ key \in [Node -> Key \cup {Bottom, Top, 0}]
       /\ val \in [Node -> Value \cup {None}]
       /\ free \in Node
       /\ pc \in [Thread -> Label]
       /\ \A t \in Thread :
            /\ pc[t] \in {"s_mark", "s_advance"} => reg[t].curr \in Node
            /\ pc[t] \in {"s_mark", "s_advance"} => reg[t].next \in Node
            /\ pc[t] \in {"i_load", "i_back", "f_mark", "f_back"} =>
                 reg[t].prev \in Node
            /\ \A i \in DOMAIN stack[t] :
                 {stack[t][i].prev, stack[t][i].del} \subseteq Node
       /\ calls \in [Thread -> 0 .. MaxCalls]

\* The keys of the list increase strictly from the head to the tail, marked
\* nodes that are still linked included: an insertion never makes a key twice
\* and never goes behind a node that is being deleted, until a hazard comes about.
Sorted ==
  LET p == Path(HeadN)
  IN  spoilt = {} =>
        /\ p[Len(p)] = TailN
        /\ \A i \in 1 .. Len(p) - 1 : key[p[i]] < key[p[i + 1]]

\* The node that t inserts, or deletes since it flagged the predecessor.
Deleting(t) == \/ pc[t] \in {"d_copy", "d_free"}
               \/ stack[t] # <<>> /\ stack[t][Len(stack[t])].ret = "d_copy"
Owned(t) == IF Deleting(t) \/ reg[t].op = "insert" THEN {reg[t].node} \ {Null} ELSE {}

\* Each node is in the list, in the pool's free list, or owned by one call: two
\* deletions never own a node together, and one that is about to free its node
\* has got it out of the list, by itself or with the help of others
\* (collections.c:1106-1123), until a hazard comes about.
NodesKept ==
  LET listed   == On(HeadN)
      freed    == On(free)
      owners(n) == Cardinality({t \in Thread : n \in Owned(t)})
  IN  spoilt = {} =>
        /\ listed \cap freed = {}
        /\ \A n \in Node :
             /\ n \in freed => owners(n) = 0
             /\ n \in listed => owners(n) <= 1
             /\ n \notin listed \cup freed => owners(n) = 1
        /\ \A t \in Thread :
             (reg[t].op = "insert" \/ pc[t] \in {"d_copy", "d_free"})
               => Owned(t) \cap listed = {}

\* What a call returns was right at some moment of the call.
Right(t) ==
  LET r == reg[t]
      v == IF r.op = "search" THEN reg'[t].v ELSE r.v
      absent  == <<"is", None>> \in seen[t]
      present == \E w \in Value : <<"is", w>> \in seen[t]
      had     == {<<"is", v>>, <<"update", v>>} \cap seen[t] # {}
  IN  CASE reg'[t].out = "noent" -> absent
        [] reg'[t].out = "exist" -> present
        [] reg'[t].out = "nomem" -> TRUE
        [] reg'[t].out = "ok" -> CASE r.op = "insert" -> absent
                                   [] r.op = "update" -> present
                                   [] OTHER           -> present /\ had

\* A key that a call does not find was absent at some moment of the call, one
\* that exists was present, and a value was the key's, or that of an update of
\* the key at the same time, until a hazard comes about.
ResultsRight ==
  [][spoilt' = {} =>
       \A t \in Thread : pc[t] # "idle" /\ pc'[t] = "idle" => Right(t)]_vars

\* A key that is in the list all the time is found: "Returns zero if succeed, -1
\* if failed." (collections.c:1150)
FoundIfPresent ==
  [][\A t \in Thread :
       reg[t].op = "search" /\ pc[t] # "idle" /\ pc'[t] = "idle" =>
         (reg'[t].out = "noent" => <<"is", None>> \in seen[t])]_vars

\* A key is removed only by a call of list_delete that returns zero: "Returns
\* zero if succeed, -1 if failed." (collections.c:1091)
RemovedByWinner ==
  [][\A k \in Key : items[k] # None /\ items'[k] = None =>
       \E t \in Thread : reg[t].op = "delete" /\ reg[t].arg = k /\ Deleting(t)]_vars

\* A deletion has taken effect when its node is marked, by whomever.
call ==
  [t \in Thread |->
     IF pc[t] = "idle"
     THEN [op |-> "none", out |-> CASE reg[t].out = "none" -> "none"
                                    [] reg[t].out = "ok"   -> "ok"
                                    [] OTHER               -> "refused"]
     ELSE [op |-> reg[t].op, key |-> reg[t].arg,
           val |-> IF reg[t].op = "delete" THEN None ELSE reg[t].v,
           done |-> Deleting(t) /\ is_marked(succ[reg[t].node])]]

Dict == INSTANCE Dictionary

\* The list is a map from keys to values.  Each successful insertion binds its
\* key once, with the compare-and-swap of line 1000; each successful deletion
\* unbinds its key once, when its node is marked, by itself or by a helper; no
\* refused call and no other step changes what is bound to any key, and no
\* deletion returns before it has taken effect; until a hazard comes about.
ImplementsDictionary ==
  Dict!Init /\ [][Dict!Next \/ spoilt' # {}]_<<items, call>>
=============================================================================
