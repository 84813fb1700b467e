------------------------------ MODULE ListProofs ------------------------------
(***************************************************************************)
(* Proofs about List: until a hazard comes about, the types, the order of  *)
(* the keys, that each node has its place, and that the list implements    *)
(* Dictionary; and a way to use the list in which none comes about.        *)
(*                                                                         *)
(* The invariant speaks of three things: L, the nodes in the list; R, the  *)
(* nodes that a call may still come upon, which are those of L and marked  *)
(* ones that have been unlinked; and sq, the pool's free list in order.    *)
(* Links lead from nodes of R to nodes of R with greater keys, backlinks   *)
(* to nodes of R with smaller keys, so whatever a call has read stays good *)
(* for it to go on from.  A step of one thread may leave out nodes of R    *)
(* only if no call can come upon them, which is the case when it frees.    *)
(***************************************************************************)
EXTENDS List, FiniteSetTheorems, SequenceTheorems, WellFoundedInduction,
        TLAPS

\* A step that leaves the list unspoilt neither frees a node under another call,
\* nor during another mempool_free, nor takes a flag for one that it is not.
LEMMA CalmStep ==
  ASSUME NEW t \in Thread, Hazards(t), spoilt' = {}
  PROVE  /\ spoilt = {} /\ ~ Early(t) /\ ~ Misled(t)
         /\ Frees(t) => freeing = {}
<1>1. /\ spoilt = {}
      /\ \A h \in Hazard : ~ (CASE h = "early"   -> Early(t)
                               [] h = "misled"  -> Misled(t)
                               [] h = "overlap" -> Frees(t) /\ freeing # {})
  BY DEF Hazards
<1>2. "early" \in Hazard /\ "misled" \in Hazard /\ "overlap" \in Hazard
  BY DEF Hazard
<1>3. ~ Early(t)
  BY <1>1, <1>2
<1>4. ~ Misled(t)
  BY <1>1, <1>2
<1>5. ~ (Frees(t) /\ freeing # {})
  BY <1>1, <1>2
<1> QED BY <1>1, <1>3, <1>4, <1>5

-----------------------------------------------------------------------------
Maybe     == Node \cup {Null}
Link      == [mark : 0 .. 2, node : Maybe]
HelpFrame == [prev : Node, del : Node, next : Maybe,
              ret : {"h_test", "i_search", "i_back", "lost", "d_copy"}]
Reg == [op : Op, arg : Key \cup {0}, v : Value \cup {None},
        out : {"none", "ok", "exist", "noent", "nomem"},
        prev : Maybe, next : Maybe, node : Maybe, tmp : Maybe,
        key : Int, curr : Maybe, ret : Label]

TypeInv ==
  /\ succ \in [Node -> Link]
  /\ back \in [Node -> Maybe]
  /\ key \in [Node -> Key \cup {Bottom, Top, 0}]
  /\ val \in [Node -> Value \cup {None}]
  /\ free \in Node
  /\ pc \in [Thread -> Label]
  /\ reg \in [Thread -> Reg]
  /\ stack \in [Thread -> Seq(HelpFrame)]
  /\ calls \in [Thread -> 0 .. MaxCalls]

\* The link of p leads to n, and has the mark m.
Leads(p, n, m) == succ[p].node = n /\ succ[p].mark = m

\* L is the list: the link of a node leads to the next greater key.
ListInv(L) ==
  /\ HeadN \in L /\ TailN \in L /\ L \subseteq Node
  /\ key[HeadN] = Bottom /\ key[TailN] = Top
  /\ Leads(TailN, Null, UNMARKED)
  /\ \A m, n \in L : key[m] = key[n] => m = n
  /\ \A m \in L \ {TailN} : succ[m].node \in L /\ key[m] < key[succ[m].node]
  /\ \A m \in L \ {TailN}, n \in L :
       key[m] < key[n] => key[succ[m].node] <= key[n]

\* R are the nodes that a call may come upon.
RefInv(L, R) ==
  /\ L \subseteq R /\ R \subseteq Node
  /\ \A n \in R \ {HeadN, TailN} : key[n] \in Key
  /\ \A n \in R \ {TailN} : succ[n].node \in R /\ key[n] < key[succ[n].node]
  /\ \A n \in R : succ[n].mark = MARKED =>
       key[n] \in Key /\ back[n] \in R /\ key[back[n]] < key[n]
  /\ \A n \in R \ L : succ[n].mark = MARKED

\* The call whose frames are s has flagged p for the deletion of d.
Flags(s, p, d) == /\ s # <<>>
                  /\ s[Len(s)].ret = "d_copy"
                  /\ s[Len(s)].prev = p /\ s[Len(s)].del = d

FlagInv(L) ==
  /\ \A p \in L : succ[p].mark = FLAGGED =>
       \E t \in Thread : Flags(stack[t], p, succ[p].node)
  /\ \A n \in L : succ[n].mark = MARKED => \E p \in L : Leads(p, n, FLAGGED)

\* s are the nodes of the pool's free list.
PoolInv(s) ==
  /\ s \in Seq(Node) /\ Len(s) >= 1 /\ s[1] = free
  /\ \A i, j \in 1 .. Len(s) : s[i] = s[j] => i = j
  /\ \A i \in 1 .. Len(s) - 1 : succ[s[i]].node = s[i + 1]
  /\ Leads(s[Len(s)], Null, 0)

In(s) == {s[i] : i \in 1 .. Len(s)}

\* The node that a call at l with frames s and locals r owns.
OwnedOf(l, s, r) ==
  IF \/ l \in {"d_copy", "d_free"}
     \/ s # <<>> /\ s[Len(s)].ret = "d_copy"
     \/ r.op = "insert"
  THEN {r.node} \ {Null} ELSE {}

OwnInv(L, R, F) ==
  /\ R \cap F = {}
  /\ \A t \in Thread : OwnedOf(pc[t], stack[t], reg[t]) \cap F = {}
  /\ \A t, u \in Thread : t # u =>
       OwnedOf(pc[t], stack[t], reg[t])
         \cap OwnedOf(pc[u], stack[u], reg[u]) = {}
  /\ \A n \in Node \ (L \cup F) :
       \E t \in Thread : n \in OwnedOf(pc[t], stack[t], reg[t])
  /\ \A t \in Thread : reg[t].op = "insert" => reg[t].node \notin R

Searching == {"s_mark", "s_curr_mark", "s_curr_next", "s_body", "s_unlink",
              "s_cas", "s_reload", "s_advance"}
Marking   == {"s_curr_mark", "s_curr_next", "s_body", "s_unlink", "s_cas"}
Found     == {"i_found", "i_again", "d_found", "f_again", "q_found"}
Helping   == {"h_back", "h_test", "h_next", "h_mark", "h_result", "h_unlink",
              "h_cas"}
Linking   == {"i_load", "i_cas", "i_result", "i_back", "i_search"}
Flagging  == {"f_mark", "f_flag", "f_cas", "f_result", "f_back", "f_search"}

BackSet(R, d) == back[d] \in R /\ key[back[d]] < key[d]

FrameOk(R, f) ==
  /\ f.prev \in R /\ f.del \in R
  /\ key[f.prev] < key[f.del] /\ key[f.del] \in Key
  /\ succ[f.del].mark = MARKED \/ Leads(f.prev, f.del, FLAGGED)

FramesOk(R, s, fresh) ==
  \A i \in 1 .. Len(s) :
    /\ FrameOk(R, s[i])
    /\ (i > 1 \/ ~ fresh) => BackSet(R, s[i].del)
    /\ i < Len(s) => s[i].ret = "h_test"

\* f is the frame of the call with locals r itself.
OuterOk(L, f, r) ==
  /\ \/ r.op = "insert" /\ f.ret \in {"i_search", "i_back"}
     \/ r.op = "delete" /\ f.ret \in {"lost", "d_copy"}
  /\ f.ret = "d_copy" =>
       /\ f.del = r.node
       /\ r.node \in L => Leads(f.prev, r.node, FLAGGED)

StackOk(L, R, l, s, r) ==
  /\ s # <<>> <=> l \in Helping
  /\ FramesOk(R, s, l = "h_back")
  /\ s # <<>> => OuterOk(L, s[Len(s)], r)
  /\ l \in {"h_unlink", "h_cas"} => succ[s[1].del].mark = MARKED
  /\ l = "h_cas" => s[1].next = succ[s[1].del].node

\* The insertion has a node of its own.
Mine(r) == r.op = "insert" /\ r.node \in Node /\ key[r.node] = r.arg

\* The deletion has found its node.
Target(R, r) == r.op = "delete" /\ r.node \in R /\ key[r.node] = r.arg

Behind(R, r) == r.prev \in R /\ key[r.prev] < r.arg

\* What search_from looks for, and for whom.
Seeks(R, r) ==
  \/ r.op = "insert" /\ r.ret = "i_found" /\ r.key = r.arg /\ r.node = Null
  \/ Mine(r) /\ r.ret = "i_again" /\ r.key = r.arg
  \/ r.op = "delete" /\ r.ret = "d_found" /\ r.key = r.arg - 1
  \/ Target(R, r) /\ r.ret = "f_again" /\ r.key = r.arg - 1
  \/ r.op \in {"search", "update"} /\ r.ret = "q_found" /\ r.key = r.arg

\* search_from has come to curr.
Between(R, r) ==
  /\ r.curr \in R /\ r.next \in R
  /\ key[r.curr] <= r.key /\ key[r.curr] < key[r.next]

RegOk(L, R, l, r) ==
  /\ l = "idle" => r.op = "search" /\ r.node = Null
  /\ l \notin {"idle", "d_free"} => r.arg \in Key
  /\ (l \notin {"idle", "d_free"} /\ r.op \in {"insert", "update"}) =>
       r.v \in Value
  /\ l \in Searching \cup Found => Seeks(R, r) /\ Between(R, r)
  /\ l \in Marking => succ[r.next].mark = MARKED
  /\ l = "s_cas" => r.tmp = succ[r.next].node
  /\ l \in Found => l = r.ret /\ r.key < key[r.next]
  /\ l \in Linking => Mine(r) /\ Behind(R, r)
  /\ l \in {"i_load", "i_cas"} => r.next \in R /\ r.arg < key[r.next]
  /\ l = "i_cas" => Leads(r.node, r.next, UNMARKED)
  /\ l \in Flagging => Target(R, r) /\ Behind(R, r)
  /\ l \in Helping => (Mine(r) \/ Target(R, r)) /\ Behind(R, r)
  /\ l = "d_copy" => r.node \in R
  /\ l \in {"d_copy", "d_free"} => r.op = "delete" /\ r.node \in Node \ L

Inv(L, R, sq) ==
  /\ TypeInv
  /\ ListInv(L) /\ RefInv(L, R) /\ FlagInv(L) /\ PoolInv(sq)
  /\ OwnInv(L, R, In(sq))
  /\ \A t \in Thread : /\ RegOk(L, R, pc[t], reg[t])
                       /\ StackOk(L, R, pc[t], stack[t], reg[t])

IndInv == \E L, R, sq : Inv(L, R, sq)

-----------------------------------------------------------------------------
USE DEF HeadN, TailN, UNMARKED, MARKED, FLAGGED

\* Every set of natural numbers that is not empty has a least member.
LEMMA NatMin ==
  ASSUME NEW T \in SUBSET Nat, T # {}
  PROVE  \E m \in T : \A n \in T : m <= n
<1> DEFINE Less == {ss \in Nat \X Nat : ss[1] < ss[2]}
<1>1. IsWellFoundedOn(Less, Nat)
  BY NatLessThanWellFounded, Zenon DEF OpToRel
<1>2. PICK x \in T : \A y \in T : ~ (<<y, x>> \in Less)
  <2> HIDE DEF Less
  <2> QED BY <1>1, WFMin
<1>3. ASSUME NEW y \in T PROVE x <= y
  <2>1. x \in Nat /\ y \in Nat /\ <<y, x>> \in Nat \X Nat
    OBVIOUS
  <2>2. ~ (<<y, x>>[1] < <<y, x>>[2])
    BY <1>2, <2>1
  <2> QED BY <2>1, <2>2
<1> QED BY <1>3

\* A set of natural numbers with an upper bound has a greatest member.
LEMMA NatMax ==
  ASSUME NEW b \in Nat, NEW T \in SUBSET (0 .. b), T # {}
  PROVE  \E m \in T : \A n \in T : n <= m
<1> DEFINE U == {u \in Nat : \A n \in T : n <= u}
<1>1. b \in U
  OBVIOUS
<1>2. PICK u \in U : \A v \in U : u <= v
  <2>1. U \in SUBSET Nat /\ U # {}
    BY <1>1
  <2> HIDE DEF U
  <2> QED BY <2>1, NatMin
<1>3. u \in Nat /\ \A n \in T : n <= u
  OBVIOUS
<1>4. u \in T
  <2> SUFFICES ASSUME u \notin T PROVE FALSE
    OBVIOUS
  <2>1. \A n \in T : n \in Nat /\ n <= u - 1
    BY <1>3
  <2>2. u - 1 \in Nat
    <3>1. PICK n \in T : TRUE
      OBVIOUS
    <3> QED BY <1>3, <2>1, <3>1
  <2>3. u - 1 \in U
    BY <2>1, <2>2
  <2> HIDE DEF U
  <2> QED BY <1>2, <1>3, <2>3
<1> QED BY <1>3, <1>4

\* Keys are smaller than that of the tail.
LEMMA TopFacts == Top \in Nat /\ \A k \in Key : k \in Nat /\ k < Top
<1>0. Key \subseteq Nat /\ IsFiniteSet(Key) /\ Key # {}
  BY ListAssumption
<1> DEFINE HasMax(S) == \E k \in S : \A j \in S : j <= k
           Bad == {S \in SUBSET Key : S # {} /\ ~ HasMax(S)}
           Cards == {Cardinality(S) : S \in Bad}
<1>1. \A S \in SUBSET Key : IsFiniteSet(S) /\ Cardinality(S) \in Nat
  BY <1>0, FS_Subset, FS_CardinalityType
<1>2. HasMax(Key)
  <2> SUFFICES ASSUME ~ HasMax(Key) PROVE FALSE
    OBVIOUS
  <2>1. Cards \in SUBSET Nat /\ Cards # {}
    BY <1>0, <1>1
  <2>2. PICK c \in Cards : \A d \in Cards : c <= d
    <3> HIDE DEF Cards
    <3> QED BY <2>1, NatMin
  <2>3. PICK S \in Bad : Cardinality(S) = c
    OBVIOUS
  <2>4. PICK x \in S : TRUE
    OBVIOUS
  <2> DEFINE W == S \ {x}
  <2>5. S \in SUBSET Key /\ W \in SUBSET Key /\ x \in Nat /\ x \in S
    BY <1>0, <2>4
  <2>6. W # {}
    <3>1. SUFFICES ASSUME W = {} PROVE FALSE
      OBVIOUS
    <3>2. \A j \in S : j = x
      BY <3>1
    <3> QED BY <2>5, <3>2
  <2>7. Cardinality(W) < c /\ c \in Nat
    <3>1. IsFiniteSet(S) /\ Cardinality(S) \in Nat
      BY <1>1, <2>5
    <3>2. Cardinality(S \ {x})
            = IF x \in S THEN Cardinality(S) - 1 ELSE Cardinality(S)
      BY <3>1, FS_RemoveElement
    <3> QED BY <2>3, <2>5, <3>1, <3>2
  <2>8. HasMax(W)
    <3>1. SUFFICES ASSUME ~ HasMax(W) PROVE FALSE
      OBVIOUS
    <3>2. Cardinality(W) \in Cards
      BY <2>5, <2>6, <3>1
    <3>3. Cardinality(W) \in Nat
      BY <1>1, <2>5
    <3> HIDE DEF Cards
    <3> QED BY <2>2, <2>7, <3>2, <3>3
  <2>9. PICK m \in W : \A j \in W : j <= m
    BY <2>8
  <2>10. m \in Nat /\ S \subseteq Nat /\ m \in S
    BY <1>0, <2>5
  <2>11. \A j \in S : j = x \/ j <= m
    BY <2>9
  <2>12. \E k \in S : \A j \in S : j <= k
    <3>1. CASE x <= m
      BY <2>5, <2>10, <2>11, <3>1
    <3>2. CASE m <= x
      <4>1. \A j \in S : j <= x
        BY <2>5, <2>10, <2>11, <3>2
      <4> QED BY <2>5, <4>1
    <3> QED BY <2>5, <2>10, <3>1, <3>2
  <2> QED BY <2>12
<1> DEFINE m == CHOOSE k \in Key : \A j \in Key : j <= k
<1>3. m \in Key /\ \A j \in Key : j <= m
  BY <1>2
<1>4. Top = 1 + m
  BY DEF Top
<1> HIDE DEF m
<1> QED BY <1>0, <1>3, <1>4

\* The marks of a link.
LEMMA MarkFacts ==
  ASSUME NEW r \in Link
  PROVE  /\ r.mark \in 0 .. 2 /\ r.node \in Maybe
         /\ is_marked(r) <=> r.mark = MARKED
         /\ is_flagged(r) <=> r.mark = FLAGGED
<1>1. r.mark \in 0 .. 2 /\ r.node \in Maybe
  BY DEF Link
<1>2. r.mark = 0 \/ r.mark = 1 \/ r.mark = 2
  BY <1>1
<1> QED BY <1>1, <1>2 DEF is_marked, is_flagged

LEMMA RefFacts ==
  ASSUME NEW n \in Maybe, NEW m \in 0 .. 2
  PROVE  /\ Ref(n, m) \in Link
         /\ Ref(n, m).node = n /\ Ref(n, m).mark = m
         /\ \A r \in Link : r = Ref(n, m) <=> r.node = n /\ r.mark = m
BY DEF Ref, Link

LEMMA NodeFacts ==
  /\ Capacity \in Nat \ {0} /\ Node = 0 .. Capacity + 2
  /\ HeadN \in Node /\ TailN \in Node /\ Null \notin Node
  /\ Node \subseteq Maybe /\ Null \in Maybe /\ Bottom = -1
BY ListAssumption DEF Node, Maybe, Bottom

-----------------------------------------------------------------------------
\* The frames of a thread when a call of help_flagged begins and returns.
LEMMA Pushed ==
  ASSUME NEW S, NEW s \in Seq(S), NEW f \in S
  PROVE  /\ <<f>> \o s \in Seq(S) /\ Len(<<f>> \o s) = Len(s) + 1
         /\ <<f>> \o s # <<>> /\ (<<f>> \o s)[1] = f
         /\ Len(s) \in Nat
         /\ \A i \in 2 .. Len(s) + 1 : (<<f>> \o s)[i] = s[i - 1]
<1> DEFINE h == <<f>>
<1>1. h \in Seq(S) /\ Len(h) = 1 /\ h[1] = f /\ Len(s) \in Nat
  OBVIOUS
<1> HIDE DEF h
<1>2. /\ h \o s \in Seq(S) /\ Len(h \o s) = Len(h) + Len(s)
      /\ \A i \in 1 .. Len(h) + Len(s) :
           (h \o s)[i] = IF i <= Len(h) THEN h[i] ELSE s[i - Len(h)]
  BY <1>1, ConcatProperties
<1> DEFINE z == h \o s
<1> HIDE DEF z
<1>3. z \in Seq(S) /\ Len(z) = Len(s) + 1
  BY <1>1, <1>2 DEF z
<1>4. z[1] = f /\ \A i \in 2 .. Len(s) + 1 : z[i] = s[i - 1]
  BY <1>1, <1>2 DEF z
<1>5. z # <<>>
  BY <1>1, <1>3
<1> QED BY <1>1, <1>3, <1>4, <1>5 DEF h, z

LEMMA Popped ==
  ASSUME NEW S, NEW s \in Seq(S), s # <<>>
  PROVE  /\ Tail(s) \in Seq(S) /\ Len(Tail(s)) = Len(s) - 1 /\ Len(s) \in Nat
         /\ Len(s) >= 1 /\ s[1] \in S
         /\ Tail(s) = <<>> <=> Len(s) = 1
         /\ \A i \in 1 .. Len(s) - 1 : Tail(s)[i] = s[i + 1]
<1>1. Len(s) \in Nat /\ Len(s) >= 1 /\ s[1] \in S
  BY EmptySeq, ElementOfSeq
<1> DEFINE z == Tail(s)
<1>2. /\ z \in Seq(S) /\ Len(z) = Len(s) - 1
      /\ \A i \in 1 .. Len(z) : z[i] = s[i + 1]
  BY HeadTailProperties
<1> HIDE DEF z
<1>3. z = <<>> <=> Len(z) = 0
  BY <1>2, EmptySeq
<1> QED BY <1>1, <1>2, <1>3 DEF z

LEMMA NextSet ==
  ASSUME NEW s \in Seq(HelpFrame), s # <<>>, NEW n \in Maybe
  PROVE  LET z == [s EXCEPT ![1].next = n]
         IN  /\ z \in Seq(HelpFrame) /\ Len(z) = Len(s) /\ z # <<>>
             /\ z[1].next = n
             /\ \A i \in 1 .. Len(s) : /\ z[i].prev = s[i].prev
                                       /\ z[i].del = s[i].del
                                       /\ z[i].ret = s[i].ret
<1> DEFINE z == [s EXCEPT ![1].next = n]
<1>1. Len(s) \in Nat /\ Len(s) >= 1 /\ \A i \in 1 .. Len(s) : s[i] \in HelpFrame
  OBVIOUS
<1>2. [s[1] EXCEPT !.next = n] \in HelpFrame
  BY <1>1 DEF HelpFrame
<1>3. z = [i \in 1 .. Len(s) |->
             IF i = 1 THEN [s[1] EXCEPT !.next = n] ELSE s[i]]
  OBVIOUS
<1>4. z \in [1 .. Len(s) -> HelpFrame]
  <2> HIDE DEF z
  <2> QED BY <1>1, <1>2, <1>3
<1>5. z \in Seq(HelpFrame) /\ Len(z) = Len(s)
  <2> HIDE DEF z
  <2> QED BY <1>1, <1>4
<1>6. ASSUME NEW i \in 1 .. Len(s)
      PROVE  z[i].prev = s[i].prev /\ z[i].del = s[i].del /\ z[i].ret = s[i].ret
  <2>1. z[i] = IF i = 1 THEN [s[1] EXCEPT !.next = n] ELSE s[i]
    BY <1>3
  <2>2. s[i] \in HelpFrame
    BY <1>1
  <2> HIDE DEF z
  <2> QED BY <2>1, <2>2 DEF HelpFrame
<1>7. z[1].next = n
  <2>1. z[1] = [s[1] EXCEPT !.next = n] /\ s[1] \in HelpFrame
    BY <1>1, <1>3
  <2> HIDE DEF z
  <2> QED BY <2>1 DEF HelpFrame
<1> HIDE DEF z
<1>8. z # <<>>
  BY <1>1, <1>5
<1> QED BY <1>5, <1>6, <1>7, <1>8 DEF z

-----------------------------------------------------------------------------
LEMMA TypeFacts ==
  ASSUME TypeInv
  PROVE  /\ \A n \in Node : /\ succ[n] \in Link /\ succ[n].mark \in 0 .. 2
                            /\ succ[n].node \in Maybe /\ back[n] \in Maybe
                            /\ key[n] \in Int /\ -1 <= key[n] /\ key[n] <= Top
         /\ \A t \in Thread : /\ pc[t] \in Label /\ reg[t] \in Reg
                              /\ stack[t] \in Seq(HelpFrame)
<1>1. \A n \in Node : succ[n] \in Link /\ back[n] \in Maybe
  BY DEF TypeInv
<1>2. \A n \in Node : key[n] \in Int /\ -1 <= key[n] /\ key[n] <= Top
  <2> SUFFICES ASSUME NEW n \in Node
               PROVE  key[n] \in Int /\ -1 <= key[n] /\ key[n] <= Top
    OBVIOUS
  <2>1. key[n] \in Key \/ key[n] = Bottom \/ key[n] = Top \/ key[n] = 0
    BY DEF TypeInv
  <2>2. Bottom = -1 /\ Top \in Nat
    BY NodeFacts, TopFacts
  <2>3. CASE key[n] \in Key
    BY <2>2, <2>3, TopFacts
  <2>4. CASE key[n] \notin Key
    BY <2>1, <2>2, <2>4
  <2> QED BY <2>3, <2>4
<1>3. \A t \in Thread : /\ pc[t] \in Label /\ reg[t] \in Reg
                        /\ stack[t] \in Seq(HelpFrame)
  BY DEF TypeInv
<1> QED BY <1>1, <1>2, <1>3, MarkFacts

\* What other threads rely on when a step changes the list L and the nodes R
\* that calls may come upon to M and S, and leaves P alone.
Stable(L, R, P, M, S) ==
  /\ R \subseteq S
  /\ \A n \in R : key'[n] = key[n]
  /\ \A n \in R : succ[n].mark = MARKED => succ'[n] = succ[n]
  /\ \A p, d \in R : Leads(p, d, FLAGGED) =>
       succ'[d].mark = MARKED \/ Leads(p, d, FLAGGED)'
  /\ \A p \in R, d \in R \cap M : Leads(p, d, FLAGGED) => Leads(p, d, FLAGGED)'
  /\ \A d \in R : BackSet(R, d) => BackSet(S, d)'
  /\ \A n \in R \cup P : n \in M => n \in L
  /\ \A n \in P : succ'[n] = succ[n] /\ key'[n] = key[n]

LEMMA FramesStable ==
  ASSUME NEW L, NEW R, NEW P, NEW M, NEW S, Stable(L, R, P, M, S),
         NEW s, NEW b \in BOOLEAN, FramesOk(R, s, b)
  PROVE  FramesOk(S, s, b)'
<1> SUFFICES ASSUME NEW i \in 1 .. Len(s)
             PROVE  /\ FrameOk(S, s[i])'
                    /\ (i > 1 \/ ~ b) => BackSet(S, s[i].del)'
                    /\ i < Len(s) => s[i].ret = "h_test"
  BY DEF FramesOk
<1>1. /\ FrameOk(R, s[i])
      /\ (i > 1 \/ ~ b) => BackSet(R, s[i].del)
      /\ i < Len(s) => s[i].ret = "h_test"
  BY DEF FramesOk
<1> PICK f : f = s[i]
  OBVIOUS
<1>2. f.prev \in R /\ f.del \in R
  BY <1>1 DEF FrameOk
<1>3. FrameOk(S, f)'
  <2>1. key'[f.prev] = key[f.prev] /\ key'[f.del] = key[f.del]
    BY <1>2 DEF Stable
  <2>2. f.prev \in S /\ f.del \in S
    BY <1>2 DEF Stable
  <2>3. succ'[f.del].mark = MARKED \/ Leads(f.prev, f.del, FLAGGED)'
    <3>1. CASE succ[f.del].mark = MARKED
      BY <1>2, <3>1 DEF Stable
    <3>2. CASE Leads(f.prev, f.del, FLAGGED)
      BY <1>2, <3>2 DEF Stable
    <3> QED BY <1>1, <3>1, <3>2 DEF FrameOk
  <2> QED BY <1>1, <2>1, <2>2, <2>3 DEF FrameOk
<1>4. BackSet(R, f.del) => BackSet(S, f.del)'
  BY <1>2 DEF Stable
<1> QED BY <1>1, <1>3, <1>4

LEMMA OuterStable ==
  ASSUME NEW L, NEW R, NEW P, NEW M, NEW S, Stable(L, R, P, M, S),
         NEW f, NEW r, OuterOk(L, f, r), f.prev \in R, f.del \in R
  PROVE  OuterOk(M, f, r)'
<1>1. ASSUME f.ret = "d_copy", r.node \in M
      PROVE  Leads(f.prev, r.node, FLAGGED)'
  <2>1. f.del = r.node /\ (r.node \in L => Leads(f.prev, r.node, FLAGGED))
    BY <1>1 DEF OuterOk
  <2>2. r.node \in R /\ r.node \in L
    BY <1>1, <2>1 DEF Stable
  <2> QED BY <1>1, <2>1, <2>2 DEF Stable
<1> QED BY <1>1 DEF OuterOk

LEMMA StackStable ==
  ASSUME NEW L, NEW R, NEW P, NEW M, NEW S, Stable(L, R, P, M, S),
         NEW l, NEW s \in Seq(HelpFrame), NEW r, StackOk(L, R, l, s, r)
  PROVE  StackOk(M, S, l, s, r)'
<1>1. FramesOk(S, s, l = "h_back")'
  BY FramesStable DEF StackOk
<1>2. CASE s = <<>>
  BY <1>1, <1>2 DEF StackOk, Helping
<1>3. CASE s # <<>>
  <2>1. Len(s) \in Nat /\ Len(s) >= 1
    BY <1>3, EmptySeq
  <2>2. FrameOk(R, s[1]) /\ FrameOk(R, s[Len(s)])
    BY <2>1 DEF StackOk, FramesOk
  <2>3. OuterOk(M, s[Len(s)], r)'
    BY <1>3, <2>2, OuterStable DEF StackOk, FrameOk
  <2>4. s[1].del \in R
    BY <2>2 DEF FrameOk
  <2>5. succ[s[1].del].mark = MARKED => succ'[s[1].del] = succ[s[1].del]
    BY <2>4 DEF Stable
  <2> QED BY <1>1, <1>3, <2>3, <2>5 DEF StackOk
<1> QED BY <1>2, <1>3

LEMMA RegStable ==
  ASSUME NEW L, NEW R, NEW P, NEW M, NEW S, Stable(L, R, P, M, S),
         NEW l, NEW r, RegOk(L, R, l, r),
         r.op = "insert" /\ r.node \in Node => r.node \in P,
         l = "d_free" => r.node \in R \cup P
  PROVE  RegOk(M, S, l, r)'
<1>1. Mine(r) => Mine(r)'
  BY DEF Mine, Stable
<1>2. Target(R, r) => Target(S, r)'
  BY DEF Target, Stable
<1>3. Behind(R, r) => Behind(S, r)'
  BY DEF Behind, Stable
<1>4. Seeks(R, r) => Seeks(S, r)'
  BY <1>1, <1>2 DEF Seeks
<1>5. Between(R, r) => Between(S, r)'
  BY DEF Between, Stable
<1>6. l \in Searching \cup Found => Seeks(S, r)' /\ Between(S, r)'
  BY <1>4, <1>5 DEF RegOk
<1>7. l \in Marking =>
        succ'[r.next].mark = MARKED /\ succ'[r.next] = succ[r.next]
  <2> SUFFICES ASSUME l \in Marking PROVE succ'[r.next] = succ[r.next]
    BY DEF RegOk
  <2>1. Between(R, r) /\ succ[r.next].mark = MARKED
    BY DEF RegOk, Marking, Searching
  <2> QED BY <2>1 DEF Between, Stable
<1>8. l = "s_cas" => r.tmp = succ'[r.next].node
  <2> SUFFICES ASSUME l = "s_cas" PROVE r.tmp = succ'[r.next].node
    OBVIOUS
  <2>1. l \in Marking
    BY DEF Marking
  <2> QED BY <1>7, <2>1 DEF RegOk
<1>9. l \in Found => l = r.ret /\ r.key < key'[r.next]
  <2> SUFFICES ASSUME l \in Found PROVE key'[r.next] = key[r.next]
    BY DEF RegOk
  <2>1. Between(R, r)
    BY DEF RegOk
  <2> QED BY <2>1 DEF Between, Stable
<1>10. l \in {"i_load", "i_cas"} => r.next \in S /\ r.arg < key'[r.next]
  BY DEF RegOk, Stable
<1>11. l = "i_cas" => Leads(r.node, r.next, UNMARKED)'
  <2> SUFFICES ASSUME l = "i_cas" PROVE Leads(r.node, r.next, UNMARKED)'
    OBVIOUS
  <2>1. Mine(r) /\ Leads(r.node, r.next, UNMARKED)
    BY DEF RegOk, Linking
  <2>2. succ'[r.node] = succ[r.node]
    BY <2>1 DEF Mine, Stable
  <2> QED BY <2>1, <2>2 DEF Leads
<1>12. l \in {"d_copy", "d_free"} => r.node \in Node \ M
  <2> SUFFICES ASSUME l \in {"d_copy", "d_free"} PROVE r.node \in Node \ M
    OBVIOUS
  <2>1. r.node \in Node \ L /\ r.node \in R \cup P
    BY DEF RegOk
  <2> QED BY <2>1 DEF Stable
<1>13. l = "d_copy" => r.node \in S
  BY DEF RegOk, Stable
<1>14. l \in Linking => Mine(r)' /\ Behind(S, r)'
  BY <1>1, <1>3 DEF RegOk
<1>15. l \in Flagging => Target(S, r)' /\ Behind(S, r)'
  BY <1>2, <1>3 DEF RegOk
<1>16. l \in Helping => (Mine(r)' \/ Target(S, r)') /\ Behind(S, r)'
  BY <1>1, <1>2, <1>3 DEF RegOk
<1> HIDE DEF Searching, Found, Marking, Linking, Flagging, Helping
<1> QED BY <1>6, <1>7, <1>8, <1>9, <1>10, <1>11, <1>12, <1>13, <1>14, <1>15,
           <1>16 DEF RegOk

-----------------------------------------------------------------------------
\* A step that changes no link and no key, and of thread t what is given here.
LEMMA LocalStep ==
  ASSUME NEW L, NEW R, NEW sq, Inv(L, R, sq), NEW t \in Thread,
         NEW l \in Label, NEW r \in Reg, NEW s \in Seq(HelpFrame),
         UNCHANGED <<succ, back, key, free>>,
         val' \in [Node -> Value \cup {None}],
         calls' \in [Thread -> 0 .. MaxCalls],
         pc' = [pc EXCEPT ![t] = l], reg' = [reg EXCEPT ![t] = r],
         stack' = [stack EXCEPT ![t] = s],
         RegOk(L, R, l, r), StackOk(L, R, l, s, r),
         OwnedOf(l, s, r) = OwnedOf(pc[t], stack[t], reg[t]),
         r.op = "insert" => r.node \notin R,
         \A p, d : Flags(stack[t], p, d) => Flags(s, p, d)
  PROVE  Inv(L, R, sq)'
<1>0. /\ succ' = succ /\ back' = back /\ key' = key /\ free' = free
      /\ TypeInv /\ ListInv(L) /\ RefInv(L, R) /\ FlagInv(L) /\ PoolInv(sq)
      /\ OwnInv(L, R, In(sq))
      /\ \A u \in Thread : /\ RegOk(L, R, pc[u], reg[u])
                           /\ StackOk(L, R, pc[u], stack[u], reg[u])
  BY DEF Inv
<1>1. \A u \in Thread : /\ pc'[u] = IF u = t THEN l ELSE pc[u]
                        /\ reg'[u] = IF u = t THEN r ELSE reg[u]
                        /\ stack'[u] = IF u = t THEN s ELSE stack[u]
  BY <1>0 DEF TypeInv
<1>2. TypeInv'
  BY <1>0 DEF TypeInv
<1>3. ListInv(L)' /\ RefInv(L, R)' /\ PoolInv(sq)'
  BY <1>0 DEF ListInv, RefInv, PoolInv, Leads
<1>4. FlagInv(L)'
  <2>1. ASSUME NEW p \in L, succ'[p].mark = FLAGGED
        PROVE  \E u \in Thread : Flags(stack'[u], p, succ'[p].node)
    <3>1. PICK u \in Thread : Flags(stack[u], p, succ[p].node)
      BY <1>0, <2>1 DEF FlagInv
    <3>2. Flags(stack'[u], p, succ'[p].node)
      BY <1>0, <1>1, <3>1
    <3> QED BY <3>2
  <2>2. ASSUME NEW n \in L, succ'[n].mark = MARKED
        PROVE  \E p \in L : Leads(p, n, FLAGGED)'
    BY <1>0, <2>2 DEF FlagInv, Leads
  <2> QED BY <2>1, <2>2 DEF FlagInv
<1>5. OwnInv(L, R, In(sq))'
  <2>1. \A u \in Thread : OwnedOf(pc'[u], stack'[u], reg'[u])
                            = OwnedOf(pc[u], stack[u], reg[u])
    BY <1>1
  <2>2. \A u \in Thread : reg'[u].op = "insert" => reg'[u].node \notin R
    BY <1>0, <1>1 DEF OwnInv
  <2> QED BY <1>0, <2>1, <2>2 DEF OwnInv
<1>6. ASSUME NEW u \in Thread
      PROVE  /\ RegOk(L, R, pc[u], reg[u])'
             /\ StackOk(L, R, pc[u], stack[u], reg[u])'
  <2> PICK l2, r2, s2 : l2 = pc'[u] /\ r2 = reg'[u] /\ s2 = stack'[u]
    OBVIOUS
  <2>1. RegOk(L, R, l2, r2) /\ StackOk(L, R, l2, s2, r2)
    BY <1>0, <1>1
  <2>2. RegOk(L, R, l2, r2)'
    BY <1>0, <2>1 DEF RegOk, Seeks, Mine, Target, Between, Behind, Leads
  <2>3. StackOk(L, R, l2, s2, r2)'
    <3>1. FramesOk(R, s2, l2 = "h_back")'
      BY <1>0, <2>1 DEF StackOk, FramesOk, FrameOk, BackSet, Leads
    <3>2. s2 # <<>> => OuterOk(L, s2[Len(s2)], r2)'
      BY <1>0, <2>1 DEF StackOk, OuterOk, Leads
    <3> QED BY <1>0, <2>1, <3>1, <3>2 DEF StackOk
  <2>4. RegOk(L, R, pc[u], reg[u])' <=> RegOk(L, R, l2, r2)'
    BY DEF RegOk, Seeks, Mine, Target, Between, Behind, Leads
  <2>5. StackOk(L, R, pc[u], stack[u], reg[u])' <=> StackOk(L, R, l2, s2, r2)'
    BY DEF StackOk, FramesOk, FrameOk, BackSet, OuterOk, Leads
  <2> QED BY <2>2, <2>3, <2>4, <2>5
<1> QED BY <1>2, <1>3, <1>4, <1>5, <1>6 DEF Inv

\* The same outside help_flagged.
Plain == Label \ (Helping \cup {"d_copy", "d_free"})

LEMMA PlainStack ==
  ASSUME NEW L, NEW R, NEW l, NEW s, NEW r, s = <<>>, l \notin Helping
  PROVE  StackOk(L, R, l, s, r)
BY DEF StackOk, FramesOk, Helping

LEMMA PlainStep ==
  ASSUME NEW L, NEW R, NEW sq, Inv(L, R, sq), NEW t \in Thread,
         pc[t] \in Plain, NEW l \in Plain, NEW r \in Reg,
         UNCHANGED <<succ, back, key, free, stack>>,
         val' \in [Node -> Value \cup {None}],
         calls' \in [Thread -> 0 .. MaxCalls],
         pc' = [pc EXCEPT ![t] = l], reg' = [reg EXCEPT ![t] = r],
         RegOk(L, R, l, r),
         reg[t].op = "insert" /\ r.op # "insert" => reg[t].node = Null,
         r.op = "insert" => IF reg[t].op = "insert" THEN r.node = reg[t].node
                                                    ELSE r.node = Null
  PROVE  Inv(L, R, sq)'
<1>1. stack[t] = <<>> /\ stack[t] \in Seq(HelpFrame)
  BY DEF Inv, TypeInv, StackOk, Plain
<1>2. stack' = [stack EXCEPT ![t] = stack[t]]
  BY DEF Inv, TypeInv
<1>3. StackOk(L, R, l, stack[t], r)
  BY <1>1, PlainStack DEF Plain
<1>4. OwnedOf(l, stack[t], r) = OwnedOf(pc[t], stack[t], reg[t])
  BY <1>1 DEF OwnedOf, Plain
<1>5. r.op = "insert" => r.node \notin R
  BY NodeFacts DEF Inv, OwnInv, RefInv
<1>6. UNCHANGED <<succ, back, key, free>> /\ l \in Label
  BY DEF Plain
<1> QED BY <1>1, <1>2, <1>3, <1>4, <1>5, <1>6, LocalStep

\* Registers.
LEMMA RegFields ==
  ASSUME NEW r \in Reg
  PROVE  /\ r.op \in Op /\ r.arg \in Key \cup {0} /\ r.v \in Value \cup {None}
         /\ r.prev \in Maybe /\ r.next \in Maybe /\ r.node \in Maybe
         /\ r.tmp \in Maybe /\ r.key \in Int /\ r.curr \in Maybe
         /\ r.ret \in Label
BY DEF Reg

-----------------------------------------------------------------------------
\* What RegOk asks at the places of each kind.
ArgOk(r) == /\ r.arg \in Key
            /\ r.op \in {"insert", "update"} => r.v \in Value

LEMMA ArgFacts ==
  ASSUME NEW L, NEW R, NEW l, NEW r, RegOk(L, R, l, r),
         l \notin {"idle", "d_free"}
  PROVE  ArgOk(r)
BY DEF RegOk, ArgOk

LEMMA SearchingOk ==
  ASSUME NEW L, NEW R, NEW l \in Searching, NEW r, Seeks(R, r), Between(R, r),
         ArgOk(r), l \in Marking => succ[r.next].mark = MARKED,
         l = "s_cas" => r.tmp = succ[r.next].node
  PROVE  RegOk(L, R, l, r)
BY DEF RegOk, Searching, Marking, Found, Linking, Flagging, Helping, ArgOk

LEMMA FoundOk ==
  ASSUME NEW L, NEW R, NEW r, Seeks(R, r), Between(R, r),
         ArgOk(r), r.key < key[r.next]
  PROVE  RegOk(L, R, r.ret, r)
<1>1. r.ret \in Found
  BY DEF Seeks, Found
<1> QED BY <1>1 DEF RegOk, Searching, Marking, Found, Linking, Flagging,
                    Helping, ArgOk

LEMMA LinkingOk ==
  ASSUME NEW L, NEW R, NEW l \in Linking, NEW r, Mine(r), Behind(R, r),
         ArgOk(r),
         l \in {"i_load", "i_cas"} => r.next \in R /\ r.arg < key[r.next],
         l = "i_cas" => Leads(r.node, r.next, UNMARKED)
  PROVE  RegOk(L, R, l, r)
BY DEF RegOk, Searching, Marking, Found, Linking, Flagging, Helping, ArgOk

LEMMA FlaggingOk ==
  ASSUME NEW L, NEW R, NEW l \in Flagging, NEW r, Target(R, r), Behind(R, r),
         ArgOk(r)
  PROVE  RegOk(L, R, l, r)
BY DEF RegOk, Searching, Marking, Found, Linking, Flagging, Helping, ArgOk

LEMMA HelpingOk ==
  ASSUME NEW L, NEW R, NEW l \in Helping, NEW r, Mine(r) \/ Target(R, r),
         Behind(R, r), ArgOk(r)
  PROVE  RegOk(L, R, l, r)
BY DEF RegOk, Searching, Marking, Found, Linking, Flagging, Helping, ArgOk

LEMMA IdleOk ==
  ASSUME NEW L, NEW R, NEW r, r.op = "search", r.node = Null
  PROVE  RegOk(L, R, "idle", r)
BY DEF RegOk, Searching, Marking, Found, Linking, Flagging, Helping, ArgOk

LEMMA PlainFacts ==
  /\ Searching \subseteq Plain /\ Found \subseteq Plain
  /\ Linking \subseteq Plain /\ Flagging \subseteq Plain /\ "idle" \in Plain
BY DEF Plain, Searching, Found, Linking, Flagging, Helping, Label

\* curr and next of a thread in search_from.
LEMMA SearchFacts ==
  ASSUME NEW L, NEW R, NEW sq, Inv(L, R, sq), NEW t \in Thread,
         pc[t] \in Searching \cup Found
  PROVE  /\ reg[t] \in Reg /\ ArgOk(reg[t]) /\ pc[t] \in Plain
         /\ Seeks(R, reg[t]) /\ Between(R, reg[t])
         /\ reg[t].ret \in Found /\ reg[t].key < Top
         /\ reg[t].curr \in Node /\ reg[t].next \in Node
         /\ key[reg[t].curr] \in Int /\ key[reg[t].next] \in Int
         /\ reg[t].key \in Int /\ reg[t].curr # TailN
         /\ succ[reg[t].curr] \in Link /\ succ[reg[t].next] \in Link
         /\ succ[reg[t].curr].node \in R
         /\ key[reg[t].curr] < key[succ[reg[t].curr].node]
<1> DEFINE r == reg[t]
<1>1. TypeInv /\ RegOk(L, R, pc[t], r) /\ RefInv(L, R) /\ ListInv(L)
  BY DEF Inv
<1>2. r \in Reg /\ r.key \in Int
  BY <1>1, TypeFacts, RegFields
<1>3. Seeks(R, r) /\ Between(R, r) /\ ArgOk(r)
  BY <1>1, ArgFacts DEF RegOk, Searching, Found
<1>4. r.curr \in R /\ r.next \in R /\ r.curr \in Node /\ r.next \in Node
  BY <1>1, <1>3 DEF Between, RefInv
<1>5. /\ key[r.curr] \in Int /\ key[r.next] \in Int
      /\ succ[r.curr] \in Link /\ succ[r.next] \in Link
  BY <1>1, <1>4, TypeFacts
<1>6. r.ret \in Found /\ (r.key = r.arg \/ r.key = r.arg - 1)
  BY <1>3 DEF Seeks, Found
<1>7. r.key < Top
  <2>1. r.arg \in Nat /\ r.arg < Top /\ Top \in Nat
    BY <1>3, TopFacts DEF ArgOk
  <2> QED BY <1>2, <1>6, <2>1
<1>8. r.curr # TailN
  <2>1. key[TailN] = Top /\ key[r.curr] <= r.key
    BY <1>1, <1>3 DEF ListInv, Between
  <2> QED BY <1>2, <1>5, <1>7, <2>1, TopFacts
<1>9. succ[r.curr].node \in R /\ key[r.curr] < key[succ[r.curr].node]
  BY <1>1, <1>4, <1>8 DEF RefInv
<1>10. pc[t] \in Plain
  BY PlainFacts
<1> QED BY <1>2, <1>3, <1>4, <1>5, <1>6, <1>7, <1>8, <1>9, <1>10

\* search_from goes on.
LEMMA SeeksKept ==
  ASSUME NEW R, NEW r, NEW z, Seeks(R, r), z.op = r.op, z.arg = r.arg,
         z.key = r.key, z.ret = r.ret, z.node = r.node
  PROVE  Seeks(R, z)
BY DEF Seeks, Mine, Target

LEMMA SearchStep ==
  ASSUME NEW L, NEW R, NEW sq, Inv(L, R, sq), NEW t \in Thread,
         pc[t] \in Searching \cup Found, NEW l, NEW r \in Reg, Local(t, l, r),
         r.op = reg[t].op, r.node = reg[t].node,
         l \in Plain, RegOk(L, R, l, r)
  PROVE  Inv(L, R, sq)'
<1>1. pc[t] \in Plain
  BY PlainFacts
<1>2. /\ UNCHANGED <<succ, back, key, free, stack>>
      /\ val' \in [Node -> Value \cup {None}]
      /\ calls' \in [Thread -> 0 .. MaxCalls]
      /\ pc' = [pc EXCEPT ![t] = l] /\ reg' = [reg EXCEPT ![t] = r]
  BY DEF Local, Goto, Inv, TypeInv, nodes
<1> QED BY <1>1, <1>2, PlainStep

LEMMA BranchStep ==
  ASSUME NEW L, NEW R, NEW sq, Inv(L, R, sq), NEW t \in Thread,
         pc[t] \in Searching, NEW l \in Searching, Branch(t, l),
         l \in Marking => succ[reg[t].next].mark = MARKED, l # "s_cas"
  PROVE  Inv(L, R, sq)'
<1>1. /\ reg[t] \in Reg /\ Seeks(R, reg[t]) /\ Between(R, reg[t])
      /\ ArgOk(reg[t])
  BY SearchFacts
<1>2. RegOk(L, R, l, reg[t])
  BY <1>1, SearchingOk
<1>3. l \in Plain
  BY PlainFacts
<1>4. Local(t, l, reg[t])
  BY DEF Branch
<1> QED BY <1>1, <1>2, <1>3, <1>4, SearchStep

LEMMA SearchMarkInv ==
  ASSUME NEW L, NEW R, NEW sq, Inv(L, R, sq), NEW t \in Thread, SearchMark(t)
  PROVE  Inv(L, R, sq)'
<1>1. pc[t] \in Searching /\ pc[t] = "s_mark"
  BY DEF SearchMark, Searching
<1> DEFINE l == IF is_marked(succ[reg[t].next]) THEN "s_curr_mark"
                                                 ELSE "s_advance"
<1>2. Branch(t, l) /\ l \in Searching /\ l # "s_cas"
  BY DEF SearchMark, Searching
<1>3. l \in Marking => succ[reg[t].next].mark = MARKED
  <2>1. succ[reg[t].next] \in Link
    BY <1>1, SearchFacts
  <2> QED BY <2>1, MarkFacts DEF Marking
<1> HIDE DEF l
<1> QED BY <1>1, <1>2, <1>3, BranchStep

LEMMA MarkingFacts ==
  ASSUME NEW L, NEW R, NEW sq, Inv(L, R, sq), NEW t \in Thread,
         pc[t] \in Marking
  PROVE  pc[t] \in Searching /\ succ[reg[t].next].mark = MARKED
BY DEF Inv, RegOk, Marking, Searching

LEMMA SearchCurrMarkInv ==
  ASSUME NEW L, NEW R, NEW sq, Inv(L, R, sq), NEW t \in Thread,
         SearchCurrMark(t)
  PROVE  Inv(L, R, sq)'
<1>1. pc[t] \in Marking
  BY DEF SearchCurrMark, Marking
<1> DEFINE l == IF is_marked(succ[reg[t].curr]) THEN "s_curr_next" ELSE "s_body"
<1>2. Branch(t, l) /\ l \in Searching /\ l # "s_cas"
  BY DEF SearchCurrMark, Searching
<1> HIDE DEF l
<1> QED BY <1>1, <1>2, MarkingFacts, BranchStep

LEMMA SearchCurrNextInv ==
  ASSUME NEW L, NEW R, NEW sq, Inv(L, R, sq), NEW t \in Thread,
         SearchCurrNext(t)
  PROVE  Inv(L, R, sq)'
<1>1. pc[t] \in Marking
  BY DEF SearchCurrNext, Marking
<1> DEFINE l == IF succ[reg[t].curr].node # reg[t].next THEN "s_body"
                                                        ELSE "s_advance"
<1>2. Branch(t, l) /\ l \in Searching /\ l # "s_cas"
  BY DEF SearchCurrNext, Searching
<1> HIDE DEF l
<1> QED BY <1>1, <1>2, MarkingFacts, BranchStep

LEMMA SearchBodyInv ==
  ASSUME NEW L, NEW R, NEW sq, Inv(L, R, sq), NEW t \in Thread, SearchBody(t)
  PROVE  Inv(L, R, sq)'
<1>1. pc[t] \in Marking
  BY DEF SearchBody, Marking
<1> DEFINE l == IF succ[reg[t].curr].node = reg[t].next THEN "s_unlink"
                                                        ELSE "s_reload"
<1>2. Branch(t, l) /\ l \in Searching /\ l # "s_cas"
  BY DEF SearchBody, Searching
<1> HIDE DEF l
<1> QED BY <1>1, <1>2, MarkingFacts, BranchStep

LEMMA SearchUnlinkInv ==
  ASSUME NEW L, NEW R, NEW sq, Inv(L, R, sq), NEW t \in Thread, SearchUnlink(t)
  PROVE  Inv(L, R, sq)'
<1> DEFINE r == reg[t]
           z == [r EXCEPT !.tmp = succ[r.next].node]
<1>1. pc[t] \in Marking /\ Local(t, "s_cas", z)
  BY DEF SearchUnlink, Marking
<1>2. pc[t] \in Searching /\ succ[r.next].mark = MARKED
  BY <1>1, MarkingFacts
<1>3. /\ r \in Reg /\ Seeks(R, r) /\ Between(R, r) /\ ArgOk(r)
      /\ succ[r.next] \in Link
  BY <1>2, SearchFacts
<1>4. /\ z \in Reg /\ z.op = r.op /\ z.arg = r.arg /\ z.key = r.key /\ z.v = r.v
      /\ z.ret = r.ret /\ z.node = r.node /\ z.curr = r.curr /\ z.next = r.next
      /\ z.tmp = succ[r.next].node
  BY <1>3, MarkFacts DEF Reg
<1> HIDE DEF z
<1>5. Seeks(R, z)
  BY <1>3, <1>4, SeeksKept
<1>6. Between(R, z) /\ ArgOk(z)
  BY <1>3, <1>4 DEF Between, ArgOk
<1>7. "s_cas" \in Searching
  BY DEF Searching
<1>8. RegOk(L, R, "s_cas", z)
  BY <1>2, <1>4, <1>5, <1>6, <1>7, SearchingOk
<1> QED BY <1>1, <1>2, <1>4, <1>7, <1>8, SearchStep, PlainFacts

\* curr is c, where the search may be, and next its successor.
LEMMA FromFacts ==
  ASSUME NEW L, NEW R, TypeInv, RefInv(L, R), ListInv(L), NEW r \in Reg,
         Seeks(R, r), ArgOk(r), NEW c \in R, key[c] <= r.key
  PROVE  /\ From(r, c) \in Reg /\ Seeks(R, From(r, c)) /\ Between(R, From(r, c))
         /\ ArgOk(From(r, c))
         /\ From(r, c).op = r.op /\ From(r, c).node = r.node
         /\ From(r, c).key = r.key /\ From(r, c).ret = r.ret
         /\ From(r, c).curr = c /\ From(r, c).next = succ[c].node
         /\ r.ret \in Found /\ succ[c].node \in Node /\ succ[c].node \in R
<1> DEFINE z == From(r, c)
<1>1. c \in Node /\ key[c] \in Int /\ succ[c].node \in Maybe
  BY TypeFacts DEF RefInv
<1>2. c # TailN
  <2>1. r.key = r.arg \/ r.key = r.arg - 1
    BY DEF Seeks
  <2>2. r.arg \in Nat /\ r.arg < Top /\ Top \in Nat /\ key[TailN] = Top
    BY TopFacts DEF ArgOk, ListInv
  <2> QED BY <1>1, <2>1, <2>2
<1>3. succ[c].node \in R /\ succ[c].node \in Node /\ key[c] < key[succ[c].node]
  BY <1>2 DEF RefInv
<1>4. /\ z \in Reg /\ z.op = r.op /\ z.arg = r.arg /\ z.key = r.key /\ z.v = r.v
      /\ z.ret = r.ret /\ z.node = r.node /\ z.curr = c /\ z.next = succ[c].node
  BY <1>1, <1>3 DEF From, Reg, Maybe
<1> HIDE DEF z
<1>5. Seeks(R, z)
  BY <1>4, SeeksKept
<1>6. Between(R, z) /\ ArgOk(z)
  BY <1>3, <1>4 DEF Between, ArgOk
<1>7. r.ret \in Found
  BY DEF Seeks, Found
<1> QED BY <1>3, <1>4, <1>5, <1>6, <1>7 DEF z

LEMMA SearchReloadInv ==
  ASSUME NEW L, NEW R, NEW sq, Inv(L, R, sq), NEW t \in Thread, SearchReload(t)
  PROVE  Inv(L, R, sq)'
<1> DEFINE r == reg[t]
           z == From(r, r.curr)
<1>1. pc[t] \in Searching /\ Local(t, "s_mark", z)
  BY DEF SearchReload, Searching
<1>2. /\ r \in Reg /\ Seeks(R, r) /\ ArgOk(r)
      /\ r.curr \in R /\ key[r.curr] <= r.key
  BY <1>1, SearchFacts DEF Between
<1>3. /\ z \in Reg /\ Seeks(R, z) /\ Between(R, z) /\ ArgOk(z)
      /\ z.op = r.op /\ z.node = r.node
  BY <1>2, FromFacts DEF Inv
<1> HIDE DEF z
<1>4. "s_mark" \in Searching /\ "s_mark" \notin Marking
  BY DEF Searching, Marking
<1>5. RegOk(L, R, "s_mark", z)
  BY <1>3, <1>4, SearchingOk
<1> QED BY <1>1, <1>3, <1>4, <1>5, SearchStep, PlainFacts

\* The loop's test.
LEMMA LookedOk ==
  ASSUME NEW L, NEW R, NEW z, Seeks(R, z), Between(R, z), ArgOk(z),
         z.key \in Int, key[z.next] \in Int
  PROVE  RegOk(L, R, Looked(z), z) /\ Looked(z) \in Plain
<1>1. CASE key[z.next] <= z.key
  <2>1. Looked(z) = "s_mark"
    BY <1>1 DEF Looked
  <2>2. "s_mark" \in Searching /\ "s_mark" \notin Marking
    BY DEF Searching, Marking
  <2> QED BY <2>1, <2>2, SearchingOk, PlainFacts
<1>2. CASE ~ (key[z.next] <= z.key)
  <2>1. Looked(z) = z.ret /\ z.key < key[z.next]
    BY <1>2 DEF Looked
  <2>2. z.ret \in Found
    BY DEF Seeks, Found
  <2> QED BY <2>1, <2>2, FoundOk, PlainFacts
<1> QED BY <1>1, <1>2

LEMMA SearchAdvanceInv ==
  ASSUME NEW L, NEW R, NEW sq, Inv(L, R, sq), NEW t \in Thread, SearchAdvance(t)
  PROVE  Inv(L, R, sq)'
<1> DEFINE r == reg[t]
<1>1. pc[t] \in Searching
  BY DEF SearchAdvance, Searching
<1>2. /\ r \in Reg /\ Seeks(R, r) /\ Between(R, r) /\ ArgOk(r) /\ r.key \in Int
      /\ r.next \in R /\ key[r.next] \in Int
  BY <1>1, SearchFacts DEF Between
<1>3. CASE key[r.next] <= r.key
  <2> DEFINE z == From(r, r.next)
  <2>1. /\ z \in Reg /\ Seeks(R, z) /\ Between(R, z) /\ ArgOk(z)
        /\ z.op = r.op /\ z.node = r.node /\ z.key = r.key /\ z.next \in Node
    BY <1>2, <1>3, FromFacts DEF Inv
  <2>2. Look(t, z)
    BY <1>3 DEF SearchAdvance
  <2> HIDE DEF z
  <2>3. Local(t, Looked(z), z) /\ key[z.next] \in Int /\ z.key \in Int
    BY <1>2, <2>1, <2>2, TypeFacts DEF Look, Inv
  <2>4. RegOk(L, R, Looked(z), z) /\ Looked(z) \in Plain
    BY <2>1, <2>3, LookedOk
  <2> QED BY <1>1, <2>1, <2>3, <2>4, SearchStep
<1>4. CASE ~ (key[r.next] <= r.key)
  <2>1. r.key < key[r.next] /\ r.ret \in Found
    BY <1>2, <1>4 DEF Seeks, Found
  <2>2. Local(t, r.ret, r)
    BY <1>4 DEF SearchAdvance, Branch
  <2>3. RegOk(L, R, r.ret, r) /\ r.ret \in Plain
    BY <1>2, <2>1, FoundOk, PlainFacts
  <2> QED BY <1>1, <1>2, <2>2, <2>3, SearchStep
<1> QED BY <1>3, <1>4

-----------------------------------------------------------------------------
\* What a step that is told to leave shared memory alone leaves alone.
LEMMA Untouched ==
  ASSUME TypeInv, UNCHANGED <<nodes, calls>>
  PROVE  /\ UNCHANGED <<succ, back, key, free>>
         /\ val' \in [Node -> Value \cup {None}]
         /\ calls' \in [Thread -> 0 .. MaxCalls]
BY DEF nodes, TypeInv

\* The locals after a call.
LEMMA ReturnFacts ==
  ASSUME NEW o \in {"ok", "exist", "noent", "nomem"}
  PROVE  LET z == [Idle EXCEPT !.out = o]
         IN  z \in Reg /\ z.op = "search" /\ z.node = Null
<1> DEFINE z == [Idle EXCEPT !.out = o]
<1>1. Null \in Maybe /\ "idle" \in Label /\ "search" \in Op
  BY NodeFacts DEF Label, Op
<1>2. z = [op |-> "search", arg |-> 0, v |-> None, out |-> o,
           prev |-> Null, next |-> Null, node |-> Null, tmp |-> Null,
           key |-> 0, curr |-> Null, ret |-> "idle"]
  BY DEF Idle
<1> HIDE DEF z
<1> QED BY <1>1, <1>2 DEF Reg, z

LEMMA ReturnStep ==
  ASSUME NEW L, NEW R, NEW sq, Inv(L, R, sq), NEW t \in Thread,
         pc[t] \in Plain, NEW o \in {"ok", "exist", "noent", "nomem"},
         Return(t, o),
         UNCHANGED <<succ, back, key, free, stack, calls>>,
         val' \in [Node -> Value \cup {None}],
         reg[t].op = "insert" => reg[t].node = Null
  PROVE  Inv(L, R, sq)'
<1> DEFINE z == [Idle EXCEPT !.out = o]
<1>1. z \in Reg /\ z.op = "search" /\ z.node = Null
  BY ReturnFacts
<1>2. pc' = [pc EXCEPT ![t] = "idle"] /\ reg' = [reg EXCEPT ![t] = z]
  BY DEF Return, Goto
<1> HIDE DEF z
<1>3. RegOk(L, R, "idle", z)
  BY <1>1, IdleOk
<1>4. calls' \in [Thread -> 0 .. MaxCalls] /\ "idle" \in Plain
  BY PlainFacts DEF Inv, TypeInv
<1> QED BY <1>1, <1>2, <1>3, <1>4, PlainStep

LEMMA FoundFacts ==
  ASSUME NEW L, NEW R, NEW sq, Inv(L, R, sq), NEW t \in Thread, pc[t] \in Found
  PROVE  pc[t] = reg[t].ret /\ reg[t].key < key[reg[t].next]
BY DEF Inv, RegOk

LEMMA InsertExistsInv ==
  ASSUME NEW L, NEW R, NEW sq, Inv(L, R, sq), NEW t \in Thread, InsertExists(t)
  PROVE  Inv(L, R, sq)'
<1>1. pc[t] = "i_found" /\ pc[t] \in Found
  BY DEF InsertExists, Found
<1>2. Seeks(R, reg[t]) /\ reg[t].ret = "i_found"
  BY <1>1, SearchFacts, FoundFacts
<1>3. reg[t].node = Null
  BY <1>2 DEF Seeks
<1>4. /\ Return(t, "exist") /\ UNCHANGED <<succ, back, key, free, stack, calls>>
      /\ val' \in [Node -> Value \cup {None}]
  BY Untouched DEF InsertExists, Inv, nodes
<1> QED BY <1>1, <1>3, <1>4, ReturnStep, PlainFacts

LEMMA InsertNoMemInv ==
  ASSUME NEW L, NEW R, NEW sq, Inv(L, R, sq), NEW t \in Thread, InsertNoMem(t)
  PROVE  Inv(L, R, sq)'
<1>1. pc[t] = "i_found" /\ pc[t] \in Found
  BY DEF InsertNoMem, Found
<1>2. Seeks(R, reg[t]) /\ reg[t].ret = "i_found"
  BY <1>1, SearchFacts, FoundFacts
<1>3. reg[t].node = Null
  BY <1>2 DEF Seeks
<1>4. /\ Return(t, "nomem") /\ UNCHANGED <<succ, back, key, free, stack, calls>>
      /\ val' \in [Node -> Value \cup {None}]
  BY Untouched DEF InsertNoMem, Inv, nodes
<1> QED BY <1>1, <1>3, <1>4, ReturnStep, PlainFacts

LEMMA FindInv ==
  ASSUME NEW L, NEW R, NEW sq, Inv(L, R, sq), NEW t \in Thread, Find(t)
  PROVE  Inv(L, R, sq)'
<1> DEFINE r == reg[t]
<1>1. pc[t] = "q_found" /\ pc[t] \in Found
  BY DEF Find, Found
<1>2. /\ Seeks(R, r) /\ r.ret = "q_found" /\ r \in Reg /\ r.curr \in Node
      /\ ArgOk(r)
  BY <1>1, SearchFacts, FoundFacts
<1>3. r.op \in {"search", "update"}
  BY <1>2 DEF Seeks, Mine, Target
<1>4. TypeInv
  BY DEF Inv
<1>5. CASE NotFound(t)
  <2>1. /\ Return(t, "noent")
        /\ UNCHANGED <<succ, back, key, free, stack, calls>>
        /\ val' \in [Node -> Value \cup {None}]
    BY <1>4, <1>5, Untouched DEF NotFound, nodes
  <2> QED BY <1>1, <1>3, <2>1, ReturnStep, PlainFacts
<1>6. CASE UpdateFound(t)
  <2>1. r.v \in Value
    BY <1>2, <1>6 DEF UpdateFound, ArgOk
  <2>2. val' \in [Node -> Value \cup {None}]
    BY <1>2, <1>4, <1>6, <2>1 DEF UpdateFound, TypeInv
  <2>3. Return(t, "ok") /\ UNCHANGED <<succ, back, key, free, stack, calls>>
    BY <1>6 DEF UpdateFound
  <2> QED BY <1>1, <1>3, <2>2, <2>3, ReturnStep, PlainFacts
<1>7. CASE SearchFound(t)
  <2> DEFINE y == [Idle EXCEPT !.out = "ok"]
             z == [Idle EXCEPT !.out = "ok", !.v = val[r.curr]]
  <2>1. y \in Reg /\ y.op = "search" /\ y.node = Null
    BY ReturnFacts
  <2>2. z = [y EXCEPT !.v = val[r.curr]] /\ val[r.curr] \in Value \cup {None}
    BY <1>2, <1>4 DEF Idle, TypeInv
  <2>3. pc' = [pc EXCEPT ![t] = "idle"] /\ reg' = [reg EXCEPT ![t] = z]
    BY <1>7 DEF SearchFound, Goto
  <2> HIDE DEF y
  <2>4. z \in Reg /\ z.op = "search" /\ z.node = Null
    <3> HIDE DEF z
    <3> QED BY <2>1, <2>2 DEF Reg
  <2> HIDE DEF z
  <2>5. RegOk(L, R, "idle", z)
    BY <2>4, IdleOk
  <2>6. /\ UNCHANGED <<succ, back, key, free, stack>>
        /\ val' \in [Node -> Value \cup {None}]
        /\ calls' \in [Thread -> 0 .. MaxCalls]
    BY <1>4, <1>7, Untouched DEF SearchFound, nodes
  <2> QED BY <1>1, <1>3, <2>3, <2>4, <2>5, <2>6, PlainStep, PlainFacts
<1> QED BY <1>5, <1>6, <1>7 DEF Find

LEMMA CallInv ==
  ASSUME NEW L, NEW R, NEW sq, Inv(L, R, sq), NEW t \in Thread,
         NEW o \in Op, NEW k \in Key, NEW v \in Value \cup {None},
         o \in {"insert", "update"} => v \in Value, Call(t, o, k, v)
  PROVE  Inv(L, R, sq)'
<1> DEFINE r == [Idle EXCEPT !.op = o, !.arg = k, !.v = v,
                             !.key = IF o = "delete" THEN k - 1 ELSE k,
                             !.ret = CASE o = "insert" -> "i_found"
                                       [] o = "delete" -> "d_found"
                                       [] OTHER -> "q_found"]
           z == From(r, HeadN)
<1>1. /\ TypeInv /\ RefInv(L, R) /\ ListInv(L) /\ RegOk(L, R, pc[t], reg[t])
  BY DEF Inv
<1>2. pc[t] = "idle" /\ reg[t].op = "search"
  BY <1>1 DEF Call, RegOk
<1>3. /\ r.op = o /\ r.arg = k /\ r.v = v /\ r.node = Null
      /\ r.key = IF o = "delete" THEN k - 1 ELSE k
      /\ r.ret = CASE o = "insert" -> "i_found"
                   [] o = "delete" -> "d_found"
                   [] OTHER -> "q_found"
  BY DEF Idle
<1>4. /\ k \in Nat /\ r.key \in Int /\ -1 <= r.key
      /\ r.ret \in {"i_found", "d_found", "q_found"}
  BY <1>3, TopFacts
<1>5. r \in Reg
  <2>1. Null \in Maybe /\ r.ret \in Label
    BY <1>4, NodeFacts DEF Label
  <2> DEFINE kk == IF o = "delete" THEN k - 1 ELSE k
             rr == CASE o = "insert" -> "i_found"
                     [] o = "delete" -> "d_found"
                     [] OTHER -> "q_found"
  <2>2. r = [Idle EXCEPT !.op = o, !.arg = k, !.v = v, !.key = kk, !.ret = rr]
    OBVIOUS
  <2>3. kk \in Int /\ rr \in Label
    BY <1>4 DEF Label
  <2> HIDE DEF kk, rr, r
  <2>4. r = [op |-> o, arg |-> k, v |-> v, out |-> "none",
             prev |-> Null, next |-> Null, node |-> Null, tmp |-> Null,
             key |-> kk, curr |-> Null, ret |-> rr]
    BY <2>2 DEF Idle
  <2> QED BY <2>1, <2>3, <2>4 DEF Reg
<1> HIDE DEF r
<1>6. Seeks(R, r) /\ ArgOk(r)
  BY <1>3 DEF Seeks, ArgOk, Op
<1>7. HeadN \in R /\ key[HeadN] <= r.key
  BY <1>1, <1>4, NodeFacts DEF ListInv, RefInv
<1>8. /\ z \in Reg /\ Seeks(R, z) /\ Between(R, z) /\ ArgOk(z)
      /\ z.op = o /\ z.node = Null /\ z.key = r.key
      /\ z.next \in Node
  BY <1>1, <1>3, <1>5, <1>6, <1>7, FromFacts
<1>9. /\ reg' = [reg EXCEPT ![t] = z] /\ pc' = [pc EXCEPT ![t] = Looked(z)]
      /\ UNCHANGED <<nodes, stack>>
      /\ calls' = [calls EXCEPT ![t] = @ + 1] /\ calls[t] < MaxCalls
  BY DEF Call, Goto, r
<1> HIDE DEF z
<1>10. RegOk(L, R, Looked(z), z) /\ Looked(z) \in Plain
  <2>1. key[z.next] \in Int /\ z.key \in Int
    BY <1>1, <1>4, <1>8, TypeFacts
  <2> QED BY <1>8, <2>1, LookedOk
<1>11. /\ UNCHANGED <<succ, back, key, free, stack>>
       /\ val' \in [Node -> Value \cup {None}]
  BY <1>1, <1>9 DEF nodes, TypeInv
<1>12. calls' \in [Thread -> 0 .. MaxCalls]
  <2>1. MaxCalls \in Nat /\ calls \in [Thread -> 0 .. MaxCalls]
    BY <1>1, ListAssumption DEF TypeInv
  <2>2. calls[t] + 1 \in 0 .. MaxCalls
    BY <1>9, <2>1
  <2> QED BY <1>9, <2>1, <2>2
<1> QED BY <1>2, <1>8, <1>9, <1>10, <1>11, <1>12, PlainStep, PlainFacts

-----------------------------------------------------------------------------
\* A flagged link leads to a node whose key is a key.
LEMMA FlaggedFacts ==
  ASSUME NEW L, NEW R, NEW sq, Inv(L, R, sq), NEW p \in R,
         succ[p].mark = FLAGGED
  PROVE  /\ p \in L /\ p # TailN /\ succ[p].node \in R
         /\ key[p] < key[succ[p].node] /\ key[succ[p].node] \in Key
         /\ \A l : FrameOk(R, Frame(p, succ[p].node, l))
<1>1. p \in L
  BY DEF Inv, RefInv
<1>2. p # TailN
  BY DEF Inv, ListInv, Leads
<1>3. succ[p].node \in R /\ key[p] < key[succ[p].node]
  BY <1>2 DEF Inv, RefInv
<1>4. PICK u \in Thread : Flags(stack[u], p, succ[p].node)
  BY <1>1 DEF Inv, FlagInv
<1>5. /\ stack[u] # <<>> /\ stack[u] \in Seq(HelpFrame)
      /\ FramesOk(R, stack[u], pc[u] = "h_back")
      /\ stack[u][Len(stack[u])].del = succ[p].node
  BY <1>4 DEF Inv, StackOk, Flags, TypeInv
<1>6. FrameOk(R, stack[u][Len(stack[u])])
  <2>1. Len(stack[u]) \in 1 .. Len(stack[u])
    BY <1>5, EmptySeq
  <2> QED BY <1>5, <2>1 DEF FramesOk
<1>7. key[succ[p].node] \in Key
  BY <1>5, <1>6 DEF FrameOk
<1>8. ASSUME NEW l PROVE FrameOk(R, Frame(p, succ[p].node, l))
  BY <1>3, <1>7 DEF FrameOk, Frame, Leads
<1> QED BY <1>1, <1>2, <1>3, <1>7, <1>8

\* prev of a thread that links or flags.
LEMMA PrevFacts ==
  ASSUME NEW L, NEW R, NEW sq, Inv(L, R, sq), NEW t \in Thread,
         pc[t] \in Linking \cup Flagging
  PROVE  /\ reg[t] \in Reg /\ ArgOk(reg[t]) /\ Behind(R, reg[t])
         /\ pc[t] \in Plain /\ stack[t] = <<>>
         /\ pc[t] \in Linking => Mine(reg[t])
         /\ pc[t] \in Flagging => Target(R, reg[t])
         /\ reg[t].prev \in Node /\ reg[t].prev \in R /\ reg[t].prev # TailN
         /\ reg[t].arg \in Nat /\ reg[t].arg < Top
         /\ key[reg[t].prev] \in Int
         /\ succ[reg[t].prev] \in Link /\ succ[reg[t].prev].node \in R
         /\ key[reg[t].prev] < key[succ[reg[t].prev].node]
         /\ succ[reg[t].prev].mark = MARKED =>
              /\ back[reg[t].prev] \in R
              /\ key[back[reg[t].prev]] < key[reg[t].prev]
<1> DEFINE r == reg[t]
<1>1. /\ TypeInv /\ RegOk(L, R, pc[t], r) /\ RefInv(L, R) /\ ListInv(L)
      /\ StackOk(L, R, pc[t], stack[t], r)
  BY DEF Inv
<1>2. r \in Reg
  BY <1>1, TypeFacts
<1>3. /\ ArgOk(r) /\ Behind(R, r)
      /\ pc[t] \in Linking => Mine(r)
      /\ pc[t] \in Flagging => Target(R, r)
  BY <1>1, ArgFacts DEF RegOk, Linking, Flagging
<1>4. r.prev \in R /\ r.prev \in Node /\ key[r.prev] < r.arg
  BY <1>1, <1>3 DEF Behind, RefInv
<1>5. /\ key[r.prev] \in Int /\ succ[r.prev] \in Link
      /\ r.arg \in Nat /\ r.arg < Top
  BY <1>1, <1>3, <1>4, TypeFacts, TopFacts DEF ArgOk
<1>6. r.prev # TailN
  <2>1. key[TailN] = Top
    BY <1>1 DEF ListInv
  <2> QED BY <1>4, <1>5, <2>1, TopFacts
<1>7. /\ succ[r.prev].node \in R /\ key[r.prev] < key[succ[r.prev].node]
      /\ succ[r.prev].mark = MARKED =>
           back[r.prev] \in R /\ key[back[r.prev]] < key[r.prev]
  BY <1>1, <1>4, <1>6 DEF RefInv
<1>8. pc[t] \in Plain /\ stack[t] = <<>>
  BY <1>1, PlainFacts DEF StackOk, Linking, Flagging, Helping
<1> QED BY <1>2, <1>3, <1>4, <1>5, <1>6, <1>7, <1>8

LEMMA GoBackInv ==
  ASSUME NEW L, NEW R, NEW sq, Inv(L, R, sq), NEW t \in Thread,
         GoBack(t, "i_back", "i_search") \/ GoBack(t, "f_back", "f_search")
  PROVE  Inv(L, R, sq)'
<1> DEFINE r == reg[t]
           z == [r EXCEPT !.prev = back[r.prev]]
<1>1. PICK from, to : /\ GoBack(t, from, to)
                      /\ \/ from = "i_back" /\ to = "i_search"
                         \/ from = "f_back" /\ to = "f_search"
  OBVIOUS
<1>2. /\ pc[t] = from
      /\ \/ /\ from \in Linking /\ to \in Linking
            /\ from \notin {"i_load", "i_cas"}
            /\ to \notin {"i_load", "i_cas"}
         \/ from \in Flagging /\ to \in Flagging
  BY <1>1 DEF GoBack, Linking, Flagging
<1>3. pc[t] \in Linking \cup Flagging
  BY <1>2
<1>4. /\ r \in Reg /\ ArgOk(r) /\ Behind(R, r) /\ r.prev \in Node
      /\ from \in Linking => Mine(r)
      /\ from \in Flagging => Target(R, r)
      /\ r.arg \in Nat /\ key[r.prev] \in Int /\ succ[r.prev] \in Link
      /\ succ[r.prev].mark = MARKED =>
           back[r.prev] \in R /\ key[back[r.prev]] < key[r.prev]
  BY <1>2, <1>3, PrevFacts
<1>5. from \in Plain /\ to \in Plain
  BY <1>2, PlainFacts
<1>6. TypeInv /\ R \subseteq Node
  BY DEF Inv, RefInv
<1>7. CASE is_marked(succ[r.prev])
  <2>1. back[r.prev] \in R /\ key[back[r.prev]] < key[r.prev]
    BY <1>4, <1>7, MarkFacts
  <2>2. back[r.prev] \in Node /\ key[back[r.prev]] \in Int
    BY <1>6, <2>1, TypeFacts
  <2>3. /\ z \in Reg /\ z.op = r.op /\ z.arg = r.arg /\ z.v = r.v
        /\ z.node = r.node /\ z.prev = back[r.prev] /\ z.next = r.next
    BY <1>4, <2>2 DEF Reg, Maybe
  <2>4. Local(t, from, z)
    BY <1>1, <1>7 DEF GoBack
  <2> HIDE DEF z
  <2>5. Behind(R, z) /\ ArgOk(z)
    BY <1>4, <2>1, <2>2, <2>3 DEF Behind, ArgOk
  <2>6. (from \in Linking => Mine(z)) /\ (from \in Flagging => Target(R, z))
    BY <1>4, <2>3 DEF Mine, Target
  <2>7. RegOk(L, R, from, z)
    BY <1>2, <2>5, <2>6, LinkingOk, FlaggingOk
  <2>8. /\ UNCHANGED <<nodes, stack, calls>>
        /\ pc' = [pc EXCEPT ![t] = from] /\ reg' = [reg EXCEPT ![t] = z]
    BY <2>4 DEF Local, Goto
  <2>9. /\ UNCHANGED <<succ, back, key, free, stack>>
        /\ val' \in [Node -> Value \cup {None}]
        /\ calls' \in [Thread -> 0 .. MaxCalls]
    BY <1>6, <2>8, Untouched
  <2>10. /\ r.op = "insert" /\ z.op # "insert" => r.node = Null
         /\ z.op = "insert" => IF r.op = "insert" THEN z.node = r.node
                                                  ELSE z.node = Null
    BY <2>3
  <2> QED BY <1>2, <1>5, <2>3, <2>7, <2>8, <2>9, <2>10, PlainStep
<1>8. CASE ~ is_marked(succ[r.prev])
  <2>1. Local(t, to, r)
    BY <1>1, <1>8 DEF GoBack, Branch
  <2>2. RegOk(L, R, to, r)
    BY <1>2, <1>4, LinkingOk, FlaggingOk
  <2>3. /\ UNCHANGED <<nodes, stack, calls>>
        /\ pc' = [pc EXCEPT ![t] = to] /\ reg' = [reg EXCEPT ![t] = r]
    BY <2>1 DEF Local, Goto
  <2>4. /\ UNCHANGED <<succ, back, key, free, stack>>
        /\ val' \in [Node -> Value \cup {None}]
        /\ calls' \in [Thread -> 0 .. MaxCalls]
    BY <1>6, <2>3, Untouched
  <2> QED BY <1>2, <1>4, <1>5, <2>2, <2>3, <2>4, PlainStep
<1> QED BY <1>7, <1>8

\* search_from in the middle of a call.
LEMMA SearchAgainInv ==
  ASSUME NEW L, NEW R, NEW sq, Inv(L, R, sq), NEW t \in Thread,
         NEW k, NEW l, SearchAgain(t, k, l),
         \/ pc[t] \in Linking /\ k = reg[t].arg /\ l = "i_again"
         \/ pc[t] \in Flagging /\ k = reg[t].arg - 1 /\ l = "f_again"
  PROVE  Inv(L, R, sq)'
<1> DEFINE r == reg[t]
           y == [r EXCEPT !.key = k, !.ret = l]
           z == From(y, r.prev)
<1>1. /\ r \in Reg /\ ArgOk(r) /\ Behind(R, r) /\ pc[t] \in Plain
      /\ pc[t] \in Linking => Mine(r)
      /\ pc[t] \in Flagging => Target(R, r)
      /\ r.arg \in Nat /\ r.prev \in R /\ key[r.prev] \in Int
  BY PrevFacts
<1>2. k \in Int /\ key[r.prev] <= k /\ l \in Label
  BY <1>1 DEF Behind, Label
<1>3. /\ y \in Reg /\ y.op = r.op /\ y.arg = r.arg /\ y.v = r.v /\ y.key = k
      /\ y.node = r.node /\ y.ret = l /\ y.prev = r.prev
  BY <1>1, <1>2 DEF Reg
<1>4. Look(t, z)
  BY DEF SearchAgain
<1> HIDE DEF y
<1>5. Seeks(R, y) /\ ArgOk(y)
  BY <1>1, <1>3 DEF Seeks, Mine, Target, ArgOk
<1>6. /\ z \in Reg /\ Seeks(R, z) /\ Between(R, z) /\ ArgOk(z)
      /\ z.op = r.op /\ z.node = r.node /\ z.key = k /\ z.next \in Node
  BY <1>1, <1>2, <1>3, <1>5, FromFacts DEF Inv
<1> HIDE DEF z
<1>7. key[z.next] \in Int /\ z.key \in Int /\ TypeInv
  BY <1>2, <1>6, TypeFacts DEF Inv
<1>8. RegOk(L, R, Looked(z), z) /\ Looked(z) \in Plain
  BY <1>6, <1>7, LookedOk
<1>9. /\ UNCHANGED <<nodes, stack, calls>>
      /\ pc' = [pc EXCEPT ![t] = Looked(z)] /\ reg' = [reg EXCEPT ![t] = z]
  BY <1>4 DEF Look, Local, Goto
<1>10. /\ UNCHANGED <<succ, back, key, free, stack>>
       /\ val' \in [Node -> Value \cup {None}]
       /\ calls' \in [Thread -> 0 .. MaxCalls]
  BY <1>7, <1>9, Untouched
<1> QED BY <1>1, <1>6, <1>8, <1>9, <1>10, PlainStep

LEMMA InsertSearchInv ==
  ASSUME NEW L, NEW R, NEW sq, Inv(L, R, sq), NEW t \in Thread, InsertSearch(t)
  PROVE  Inv(L, R, sq)'
BY SearchAgainInv DEF InsertSearch, Linking

LEMMA FlagSearchInv ==
  ASSUME NEW L, NEW R, NEW sq, Inv(L, R, sq), NEW t \in Thread, FlagSearch(t)
  PROVE  Inv(L, R, sq)'
<1>1. pc[t] \in Flagging /\ SearchAgain(t, key[reg[t].node] - 1, "f_again")
  BY DEF FlagSearch, Flagging
<1>2. key[reg[t].node] = reg[t].arg
  BY <1>1, PrevFacts DEF Target
<1> QED BY <1>1, <1>2, SearchAgainInv

-----------------------------------------------------------------------------
\* A call begins to help with a flag it has met.
LEMMA PushOk ==
  ASSUME NEW L, NEW R, NEW s \in Seq(HelpFrame), NEW f \in HelpFrame, NEW r,
         FramesOk(R, s, FALSE), FrameOk(R, f),
         s # <<>> => f.ret = "h_test" /\ OuterOk(L, s[Len(s)], r),
         s = <<>> => OuterOk(L, f, r)
  PROVE  StackOk(L, R, "h_back", <<f>> \o s, r)
<1> DEFINE z == <<f>> \o s
<1>1. /\ z \in Seq(HelpFrame) /\ Len(z) = Len(s) + 1 /\ z # <<>> /\ z[1] = f
      /\ Len(s) \in Nat /\ \A i \in 2 .. Len(s) + 1 : z[i] = s[i - 1]
  BY Pushed
<1> HIDE DEF z
<1>e. s = <<>> <=> Len(s) = 0
  BY EmptySeq
<1>2. FramesOk(R, z, TRUE)
  <2> SUFFICES ASSUME NEW i \in 1 .. Len(z)
               PROVE  /\ FrameOk(R, z[i])
                      /\ i > 1 => BackSet(R, z[i].del)
                      /\ i < Len(z) => z[i].ret = "h_test"
    BY DEF FramesOk
  <2>1. CASE i = 1
    BY <1>1, <1>e, <2>1
  <2>2. CASE i # 1
    <3>1. /\ i \in 2 .. Len(s) + 1 /\ i - 1 \in 1 .. Len(s) /\ z[i] = s[i - 1]
          /\ i < Len(z) => i - 1 < Len(s)
      BY <1>1, <2>2
    <3> QED BY <3>1 DEF FramesOk
  <2> QED BY <2>1, <2>2
<1>3. OuterOk(L, z[Len(z)], r)
  <2>1. CASE s = <<>>
    BY <1>1, <1>e, <2>1
  <2>2. CASE s # <<>>
    <3>1. Len(z) \in 2 .. Len(s) + 1 /\ Len(z) - 1 = Len(s)
      BY <1>1, <1>e, <2>2
    <3>2. z[Len(z)] = s[Len(s)]
      BY <1>1, <3>1
    <3> QED BY <2>2, <3>2
  <2> QED BY <2>1, <2>2
<1> QED BY <1>1, <1>2, <1>3 DEF StackOk, Helping, z

LEMMA FrameType ==
  ASSUME NEW p \in Node, NEW d \in Node,
         NEW l \in {"h_test", "i_search", "i_back", "lost", "d_copy"}
  PROVE  /\ Frame(p, d, l) \in HelpFrame
         /\ Frame(p, d, l).prev = p /\ Frame(p, d, l).del = d
         /\ Frame(p, d, l).ret = l
BY NodeFacts DEF Frame, HelpFrame

LEMMA HelpStep ==
  ASSUME NEW L, NEW R, NEW sq, Inv(L, R, sq), NEW t \in Thread,
         pc[t] \in Plain, NEW p \in R, NEW d \in R,
         NEW l \in {"i_search", "i_back", "lost"}, Help(t, p, d, l),
         NEW r \in Reg, reg' = [reg EXCEPT ![t] = r],
         UNCHANGED <<nodes, calls>>, FrameOk(R, Frame(p, d, l)),
         r.op = reg[t].op, r.node = reg[t].node,
         \/ Mine(r) /\ l # "lost"
         \/ Target(R, r) /\ l = "lost",
         Behind(R, r), ArgOk(r)
  PROVE  Inv(L, R, sq)'
<1> DEFINE f == Frame(p, d, l)
           s == <<f>> \o stack[t]
<1>1. TypeInv /\ R \subseteq Node /\ StackOk(L, R, pc[t], stack[t], reg[t])
      /\ OwnInv(L, R, In(sq))
  BY DEF Inv, RefInv
<1>2. stack[t] = <<>> /\ stack[t] \in Seq(HelpFrame)
  BY <1>1 DEF StackOk, Plain, TypeInv
<1>3. f \in HelpFrame /\ f.prev = p /\ f.del = d /\ f.ret = l
  BY <1>1, FrameType
<1>4. stack' = [stack EXCEPT ![t] = s] /\ pc' = [pc EXCEPT ![t] = "h_back"]
  BY <1>1 DEF Help, Goto, TypeInv
<1> HIDE DEF f
<1>5. s \in Seq(HelpFrame) /\ Len(s) = 1 /\ s # <<>> /\ s[1] = f
  BY <1>2, <1>3, Pushed
<1> HIDE DEF s
<1>6. StackOk(L, R, "h_back", s, r)
  <2>1. FramesOk(R, stack[t], FALSE)
    BY <1>2 DEF FramesOk
  <2>2. OuterOk(L, f, r)
    BY <1>3 DEF OuterOk, Mine, Target
  <2>3. FrameOk(R, f)
    BY DEF f
  <2> QED BY <1>2, <1>3, <2>1, <2>2, <2>3, PushOk DEF s
<1>7. RegOk(L, R, "h_back", r)
  <2>1. "h_back" \in Helping
    BY DEF Helping
  <2> QED BY <2>1, HelpingOk
<1>8. OwnedOf("h_back", s, r) = OwnedOf(pc[t], stack[t], reg[t])
  BY <1>2, <1>3, <1>5 DEF OwnedOf, Plain, Mine, Target
<1>9. r.op = "insert" => r.node \notin R
  BY <1>1 DEF OwnInv
<1>10. \A q, e : Flags(stack[t], q, e) => Flags(s, q, e)
  BY <1>2 DEF Flags
<1>11. "h_back" \in Label
  BY DEF Label
<1>12. /\ UNCHANGED <<succ, back, key, free>>
       /\ val' \in [Node -> Value \cup {None}]
       /\ calls' \in [Thread -> 0 .. MaxCalls]
  BY <1>1, Untouched
<1> QED BY <1>4, <1>5, <1>6, <1>7, <1>8, <1>9, <1>10, <1>11, <1>12, LocalStep

\* A thread that links or flags goes on with what it has.
LEMMA SameReg ==
  ASSUME NEW L, NEW R, NEW sq, Inv(L, R, sq), NEW t \in Thread,
         pc[t] \in Plain, NEW l \in Plain, Goto(t, l),
         UNCHANGED <<nodes, reg, stack, calls>>, RegOk(L, R, l, reg[t])
  PROVE  Inv(L, R, sq)'
<1>1. TypeInv
  BY DEF Inv
<1>2. reg[t] \in Reg /\ reg' = [reg EXCEPT ![t] = reg[t]]
  BY <1>1 DEF TypeInv
<1>3. /\ UNCHANGED <<succ, back, key, free, stack>>
      /\ val' \in [Node -> Value \cup {None}]
      /\ calls' \in [Thread -> 0 .. MaxCalls]
  BY <1>1, Untouched
<1>4. pc' = [pc EXCEPT ![t] = l]
  BY DEF Goto
<1> QED BY <1>2, <1>3, <1>4, PlainStep

LEMMA InsertResultInv ==
  ASSUME NEW L, NEW R, NEW sq, Inv(L, R, sq), NEW t \in Thread, InsertResult(t)
  PROVE  Inv(L, R, sq)'
<1> DEFINE r == reg[t]
<1>1. pc[t] \in Linking
  BY DEF InsertResult, Linking
<1>2. /\ r \in Reg /\ ArgOk(r) /\ Behind(R, r) /\ Mine(r) /\ pc[t] \in Plain
      /\ r.prev \in R /\ succ[r.prev] \in Link
  BY <1>1, PrevFacts
<1>3. CASE is_flagged(succ[r.prev]) /\ ~ is_marked(succ[r.prev])
  <2>1. succ[r.prev].mark = FLAGGED
    BY <1>2, <1>3, MarkFacts
  <2>2. /\ succ[r.prev].node \in R
        /\ FrameOk(R, Frame(r.prev, succ[r.prev].node, "i_back"))
    BY <1>2, <2>1, FlaggedFacts
  <2>3. /\ Help(t, r.prev, succ[r.prev].node, "i_back")
        /\ UNCHANGED <<nodes, reg, calls>>
    BY <1>3 DEF InsertResult
  <2>4. reg' = [reg EXCEPT ![t] = r]
    BY <2>3 DEF Inv, TypeInv
  <2> QED BY <1>2, <2>2, <2>3, <2>4, HelpStep
<1>4. CASE ~ (is_flagged(succ[r.prev]) /\ ~ is_marked(succ[r.prev]))
  <2>1. Goto(t, "i_back") /\ UNCHANGED <<nodes, reg, stack, calls>>
    BY <1>4 DEF InsertResult
  <2>2. "i_back" \in Linking /\ "i_back" \in Plain
    BY PlainFacts DEF Linking
  <2>3. RegOk(L, R, "i_back", r)
    BY <1>2, <2>2, LinkingOk
  <2> QED BY <1>2, <2>1, <2>2, <2>3, SameReg
<1> QED BY <1>3, <1>4

LEMMA FlagMarkInv ==
  ASSUME NEW L, NEW R, NEW sq, Inv(L, R, sq), NEW t \in Thread, FlagMark(t)
  PROVE  Inv(L, R, sq)'
<1>1. pc[t] \in Flagging
  BY DEF FlagMark, Flagging
<1>2. PICK l \in Flagging : Branch(t, l)
  BY DEF FlagMark, Flagging
<1>3. Goto(t, l) /\ UNCHANGED <<nodes, reg, stack, calls>>
  BY <1>2 DEF Branch, Local, Goto, Inv, TypeInv
<1>4. RegOk(L, R, l, reg[t]) /\ l \in Plain /\ pc[t] \in Plain
  BY <1>1, <1>2, PrevFacts, PlainFacts, FlaggingOk
<1> QED BY <1>3, <1>4, SameReg

\* Another list_delete has flagged the node.
LEMMA LostInv ==
  ASSUME NEW L, NEW R, NEW sq, Inv(L, R, sq), NEW t \in Thread,
         pc[t] \in Flagging, Help(t, reg[t].prev, reg[t].node, "lost"),
         UNCHANGED <<nodes, reg, calls>>,
         \/ succ[reg[t].node].mark = MARKED
         \/ Leads(reg[t].prev, reg[t].node, FLAGGED)
  PROVE  Inv(L, R, sq)'
<1> DEFINE r == reg[t]
<1>1. /\ r \in Reg /\ ArgOk(r) /\ Behind(R, r) /\ Target(R, r)
      /\ pc[t] \in Plain
      /\ r.prev \in R
  BY PrevFacts
<1>2. r.node \in R /\ key[r.prev] < key[r.node] /\ key[r.node] \in Key
  BY <1>1 DEF Target, Behind, ArgOk
<1>3. FrameOk(R, Frame(r.prev, r.node, "lost"))
  BY <1>1, <1>2 DEF FrameOk, Frame
<1>4. reg' = [reg EXCEPT ![t] = r]
  BY DEF Inv, TypeInv
<1> QED BY <1>1, <1>2, <1>3, <1>4, HelpStep

LEMMA FlagFlagInv ==
  ASSUME NEW L, NEW R, NEW sq, Inv(L, R, sq), NEW t \in Thread,
         FlagFlag(t), ~ Misled(t)
  PROVE  Inv(L, R, sq)'
<1> DEFINE r == reg[t]
<1>1. pc[t] = "f_flag" /\ pc[t] \in Flagging
  BY DEF FlagFlag, Flagging
<1>2. /\ Target(R, r) /\ pc[t] \in Plain /\ succ[r.prev] \in Link
      /\ ArgOk(r) /\ Behind(R, r)
  BY <1>1, PrevFacts
<1>3. CASE is_flagged(succ[r.prev])
  <2>1. Help(t, r.prev, r.node, "lost") /\ UNCHANGED <<nodes, reg, calls>>
    BY <1>3 DEF FlagFlag
  <2>2. succ[r.prev].node = r.node \/ is_marked(succ[r.node])
    BY <1>1, <1>3 DEF Misled
  <2>3. succ[r.node] \in Link
    BY <1>2, TypeFacts DEF Target, Inv, RefInv
  <2>4. succ[r.node].mark = MARKED \/ Leads(r.prev, r.node, FLAGGED)
    BY <1>2, <1>3, <2>2, <2>3, MarkFacts DEF Leads
  <2> QED BY <1>1, <2>1, <2>4, LostInv
<1>4. CASE ~ is_flagged(succ[r.prev])
  <2>1. Goto(t, "f_cas") /\ UNCHANGED <<nodes, reg, stack, calls>>
    BY <1>4 DEF FlagFlag
  <2>2. "f_cas" \in Flagging /\ "f_cas" \in Plain
    BY PlainFacts DEF Flagging
  <2>3. RegOk(L, R, "f_cas", r)
    BY <1>2, <2>2, FlaggingOk
  <2> QED BY <1>2, <2>1, <2>2, <2>3, SameReg
<1> QED BY <1>3, <1>4

LEMMA FlagResultInv ==
  ASSUME NEW L, NEW R, NEW sq, Inv(L, R, sq), NEW t \in Thread, FlagResult(t)
  PROVE  Inv(L, R, sq)'
<1> DEFINE r == reg[t]
<1>1. pc[t] \in Flagging
  BY DEF FlagResult, Flagging
<1>2. /\ Target(R, r) /\ pc[t] \in Plain /\ succ[r.prev] \in Link /\ r \in Reg
      /\ ArgOk(r) /\ Behind(R, r)
  BY <1>1, PrevFacts
<1>3. CASE succ[r.prev] = Ref(r.node, FLAGGED)
  <2>1. Help(t, r.prev, r.node, "lost") /\ UNCHANGED <<nodes, reg, calls>>
    BY <1>3 DEF FlagResult
  <2>2. r.node \in Maybe
    BY <1>2, RegFields
  <2>3. Leads(r.prev, r.node, FLAGGED)
    BY <1>3, <2>2, RefFacts DEF Leads
  <2> QED BY <1>1, <2>1, <2>3, LostInv
<1>4. CASE succ[r.prev] # Ref(r.node, FLAGGED)
  <2>1. Goto(t, "f_back") /\ UNCHANGED <<nodes, reg, stack, calls>>
    BY <1>4 DEF FlagResult
  <2>2. "f_back" \in Flagging /\ "f_back" \in Plain
    BY PlainFacts DEF Flagging
  <2>3. RegOk(L, R, "f_back", r)
    BY <1>2, <2>2, FlaggingOk
  <2> QED BY <1>2, <2>1, <2>2, <2>3, SameReg
<1> QED BY <1>3, <1>4

\* try_flag(prev, node)
LEMMA FlagNodeInv ==
  ASSUME NEW L, NEW R, NEW sq, Inv(L, R, sq), NEW t \in Thread,
         pc[t] \in Found, NEW r \in Reg, FlagNode(t, r),
         r.op = "delete", reg[t].op = "delete", Target(R, r), Behind(R, r),
         ArgOk(r)
  PROVE  Inv(L, R, sq)'
<1>1. PICK l : l \in {"f_mark", "f_cas"} /\ Local(t, l, r)
  BY DEF FlagNode
<1>2. l \in Flagging /\ l \in Plain /\ pc[t] \in Plain
  BY <1>1, PlainFacts DEF Flagging
<1>3. RegOk(L, R, l, r)
  BY <1>2, FlaggingOk
<1>4. /\ UNCHANGED <<nodes, stack, calls>>
      /\ pc' = [pc EXCEPT ![t] = l] /\ reg' = [reg EXCEPT ![t] = r]
  BY <1>1 DEF Local, Goto
<1>5. /\ UNCHANGED <<succ, back, key, free, stack>>
      /\ val' \in [Node -> Value \cup {None}]
      /\ calls' \in [Thread -> 0 .. MaxCalls]
  BY <1>4, Untouched DEF Inv
<1> QED BY <1>2, <1>3, <1>4, <1>5, PlainStep

LEMMA DeleteFoundInv ==
  ASSUME NEW L, NEW R, NEW sq, Inv(L, R, sq), NEW t \in Thread, DeleteFound(t)
  PROVE  Inv(L, R, sq)'
<1> DEFINE r == reg[t]
           z == [r EXCEPT !.prev = r.curr, !.curr = Null,
                          !.node = r.next, !.next = Null]
<1>1. pc[t] = "d_found" /\ pc[t] \in Found
  BY DEF DeleteFound, Found
<1>2. /\ Seeks(R, r) /\ r.ret = "d_found" /\ r \in Reg /\ ArgOk(r)
      /\ Between(R, r) /\ pc[t] \in Plain /\ key[r.curr] \in Int
  BY <1>1, SearchFacts, FoundFacts
<1>3. r.op = "delete" /\ r.key = r.arg - 1 /\ r.arg \in Nat
  BY <1>2, TopFacts DEF Seeks, ArgOk
<1>4. CASE key[r.next] # r.arg
  <2>1. /\ Return(t, "noent")
        /\ UNCHANGED <<succ, back, key, free, stack, calls>>
        /\ val' \in [Node -> Value \cup {None}]
    BY <1>4, Untouched DEF DeleteFound, nodes, Inv
  <2> QED BY <1>2, <1>3, <2>1, ReturnStep
<1>5. CASE key[r.next] = r.arg
  <2>1. FlagNode(t, z)
    BY <1>5 DEF DeleteFound
  <2>2. /\ z \in Reg /\ z.op = r.op /\ z.arg = r.arg /\ z.v = r.v
        /\ z.prev = r.curr /\ z.node = r.next
    BY <1>2, NodeFacts DEF Reg
  <2> HIDE DEF z
  <2>3. Target(R, z) /\ Behind(R, z) /\ ArgOk(z)
    BY <1>2, <1>3, <1>5, <2>2 DEF Target, Behind, ArgOk, Between
  <2> QED BY <1>1, <1>3, <2>1, <2>2, <2>3, FlagNodeInv
<1> QED BY <1>4, <1>5

LEMMA FlagAgainInv ==
  ASSUME NEW L, NEW R, NEW sq, Inv(L, R, sq), NEW t \in Thread, FlagAgain(t)
  PROVE  Inv(L, R, sq)'
<1> DEFINE r == reg[t]
           z == [r EXCEPT !.prev = r.curr, !.curr = Null, !.next = Null]
<1>1. pc[t] = "f_again" /\ pc[t] \in Found
  BY DEF FlagAgain, Found
<1>2. /\ Seeks(R, r) /\ r.ret = "f_again" /\ r \in Reg /\ ArgOk(r)
      /\ Between(R, r) /\ pc[t] \in Plain /\ key[r.curr] \in Int
  BY <1>1, SearchFacts, FoundFacts
<1>3. r.op = "delete" /\ r.key = r.arg - 1 /\ r.arg \in Nat /\ Target(R, r)
  BY <1>2, TopFacts DEF Seeks, ArgOk, Target
<1>4. CASE r.next # r.node
  <2>1. /\ Return(t, "noent")
        /\ UNCHANGED <<succ, back, key, free, stack, calls>>
        /\ val' \in [Node -> Value \cup {None}]
    BY <1>4, Untouched DEF FlagAgain, nodes, Inv
  <2> QED BY <1>2, <1>3, <2>1, ReturnStep
<1>5. CASE r.next = r.node
  <2>1. FlagNode(t, z)
    BY <1>5 DEF FlagAgain
  <2>2. /\ z \in Reg /\ z.op = r.op /\ z.arg = r.arg /\ z.v = r.v
        /\ z.prev = r.curr /\ z.node = r.node
    BY <1>2, NodeFacts DEF Reg
  <2> HIDE DEF z
  <2>3. Target(R, z) /\ Behind(R, z) /\ ArgOk(z)
    BY <1>2, <1>3, <2>2 DEF Target, Behind, ArgOk, Between
  <2> QED BY <1>1, <1>3, <2>1, <2>2, <2>3, FlagNodeInv
<1> QED BY <1>4, <1>5

LEMMA DeleteCopyInv ==
  ASSUME NEW L, NEW R, NEW sq, Inv(L, R, sq), NEW t \in Thread, DeleteCopy(t)
  PROVE  Inv(L, R, sq)'
<1> DEFINE r == reg[t]
           z == [r EXCEPT !.v = val[r.node]]
<1>1. /\ pc[t] = "d_copy" /\ Local(t, "d_free", z) /\ TypeInv
      /\ RegOk(L, R, pc[t], r) /\ StackOk(L, R, pc[t], stack[t], r)
  BY DEF DeleteCopy, Inv
<1>2. r \in Reg /\ r.op = "delete" /\ r.node \in Node \ L
  BY <1>1, TypeFacts DEF RegOk
<1>3. /\ z \in Reg /\ z.op = r.op /\ z.node = r.node
  BY <1>1, <1>2 DEF Reg, TypeInv
<1>4. /\ UNCHANGED <<nodes, stack, calls>>
      /\ pc' = [pc EXCEPT ![t] = "d_free"] /\ reg' = [reg EXCEPT ![t] = z]
  BY <1>1 DEF Local, Goto
<1> HIDE DEF z
<1>5. stack[t] = <<>> /\ stack[t] \in Seq(HelpFrame)
  BY <1>1 DEF StackOk, Helping, TypeInv
<1>6. stack' = [stack EXCEPT ![t] = stack[t]]
  BY <1>1, <1>4 DEF TypeInv
<1>7. RegOk(L, R, "d_free", z)
  BY <1>2, <1>3 DEF RegOk, Searching, Marking, Found, Linking, Flagging, Helping
<1>8. StackOk(L, R, "d_free", stack[t], z)
  BY <1>5, PlainStack DEF Helping
<1>9. OwnedOf("d_free", stack[t], z) = OwnedOf(pc[t], stack[t], r)
  BY <1>1, <1>3 DEF OwnedOf
<1>10. /\ UNCHANGED <<succ, back, key, free>>
       /\ val' \in [Node -> Value \cup {None}]
       /\ calls' \in [Thread -> 0 .. MaxCalls]
  BY <1>1, <1>4, Untouched
<1>11. "d_free" \in Label
  BY DEF Label
<1> QED BY <1>2, <1>3, <1>4, <1>5, <1>6, <1>7, <1>8, <1>9, <1>10, <1>11,
           LocalStep

-----------------------------------------------------------------------------
\* The frame of a thread that helps.
LEMMA HelpFacts ==
  ASSUME NEW L, NEW R, NEW sq, Inv(L, R, sq), NEW t \in Thread,
         pc[t] \in Helping
  PROVE  /\ reg[t] \in Reg /\ ArgOk(reg[t]) /\ Behind(R, reg[t])
         /\ Mine(reg[t]) \/ Target(R, reg[t])
         /\ stack[t] \in Seq(HelpFrame) /\ stack[t] # <<>>
         /\ Len(stack[t]) \in Nat /\ Len(stack[t]) >= 1
         /\ FramesOk(R, stack[t], pc[t] = "h_back")
         /\ OuterOk(L, stack[t][Len(stack[t])], reg[t])
         /\ FrameOk(R, stack[t][1]) /\ stack[t][1] \in HelpFrame
         /\ stack[t][1].del \in Node /\ stack[t][1].prev \in Node
         /\ stack[t][1].del \in R /\ stack[t][1].prev \in R
         /\ succ[stack[t][1].del] \in Link /\ succ[stack[t][1].prev] \in Link
         /\ succ[stack[t][1].del].node \in R
         /\ succ[stack[t][1].del].node \in Node
         /\ key[stack[t][1].del] < key[succ[stack[t][1].del].node]
         /\ pc[t] # "h_back" => BackSet(R, stack[t][1].del)
<1> DEFINE r == reg[t]
           s == stack[t]
           f == s[1]
<1>1. /\ TypeInv /\ RegOk(L, R, pc[t], r) /\ RefInv(L, R) /\ ListInv(L)
      /\ StackOk(L, R, pc[t], s, r)
  BY DEF Inv
<1>2. r \in Reg /\ s \in Seq(HelpFrame)
  BY <1>1, TypeFacts
<1>3. ArgOk(r) /\ Behind(R, r) /\ (Mine(r) \/ Target(R, r))
  BY <1>1, ArgFacts DEF RegOk, Helping
<1>4. /\ s # <<>> /\ FramesOk(R, s, pc[t] = "h_back")
      /\ OuterOk(L, s[Len(s)], r)
  BY <1>1 DEF StackOk
<1>5. Len(s) \in Nat /\ Len(s) >= 1 /\ f \in HelpFrame
  BY <1>2, <1>4, Popped
<1>6. FrameOk(R, f) /\ (pc[t] # "h_back" => BackSet(R, f.del))
  BY <1>4, <1>5 DEF FramesOk
<1>7. f.del \in R /\ f.prev \in R /\ f.del \in Node /\ f.prev \in Node
  BY <1>1, <1>6 DEF FrameOk, RefInv
<1>8. succ[f.del] \in Link /\ succ[f.prev] \in Link
  BY <1>1, <1>7, TypeFacts
<1>9. f.del # TailN
  <2>1. /\ key[f.del] \in Nat /\ key[f.del] < Top
        /\ key[TailN] = Top /\ Top \in Nat
    BY <1>1, <1>6, TopFacts DEF FrameOk, ListInv
  <2> QED BY <2>1
<1>10. succ[f.del].node \in R /\ key[f.del] < key[succ[f.del].node]
  BY <1>1, <1>7, <1>9 DEF RefInv
<1>11. succ[f.del].node \in Node
  BY <1>1, <1>10 DEF RefInv
<1> QED BY <1>2, <1>3, <1>4, <1>5, <1>6, <1>7, <1>8, <1>10, <1>11

\* Frames of the same calls.
Alike(s, z) == /\ Len(z) = Len(s)
               /\ \A i \in 1 .. Len(s) : /\ z[i].prev = s[i].prev
                                         /\ z[i].del = s[i].del
                                         /\ z[i].ret = s[i].ret

LEMMA AlikeFrames ==
  ASSUME NEW L, NEW R, NEW s \in Seq(HelpFrame), NEW z \in Seq(HelpFrame),
         s # <<>>, Alike(s, z), NEW r,
         FramesOk(R, s, FALSE), OuterOk(L, s[Len(s)], r)
  PROVE  /\ FramesOk(R, z, FALSE) /\ OuterOk(L, z[Len(z)], r) /\ z # <<>>
         /\ \A p, d : Flags(s, p, d) <=> Flags(z, p, d)
         /\ \A l : OwnedOf(l, s, r) = OwnedOf(l, z, r)
<1>1. Len(s) \in Nat /\ Len(s) >= 1 /\ Len(z) = Len(s) /\ z # <<>>
  BY Popped, EmptySeq DEF Alike
<1>2. /\ z[Len(z)].prev = s[Len(s)].prev /\ z[Len(z)].del = s[Len(s)].del
      /\ z[Len(z)].ret = s[Len(s)].ret
  BY <1>1 DEF Alike
<1>3. FramesOk(R, z, FALSE)
  <2> SUFFICES ASSUME NEW i \in 1 .. Len(s)
               PROVE  /\ FrameOk(R, z[i])
                      /\ BackSet(R, z[i].del)
                      /\ i < Len(s) => z[i].ret = "h_test"
    BY <1>1 DEF FramesOk
  <2>1. /\ z[i].prev = s[i].prev /\ z[i].del = s[i].del /\ z[i].ret = s[i].ret
    BY DEF Alike
  <2>2. /\ FrameOk(R, s[i])
        /\ BackSet(R, s[i].del)
        /\ i < Len(s) => s[i].ret = "h_test"
    BY DEF FramesOk
  <2> QED BY <2>1, <2>2 DEF FrameOk
<1>4. OuterOk(L, z[Len(z)], r)
  BY <1>2 DEF OuterOk
<1>5. \A p, d : Flags(s, p, d) <=> Flags(z, p, d)
  BY <1>1, <1>2 DEF Flags
<1>6. \A l : OwnedOf(l, s, r) = OwnedOf(l, z, r)
  BY <1>1, <1>2 DEF OwnedOf
<1> QED BY <1>1, <1>3, <1>4, <1>5, <1>6

LEMMA HelpLocal ==
  ASSUME NEW L, NEW R, NEW sq, Inv(L, R, sq), NEW t \in Thread,
         pc[t] \in Helping, pc[t] # "h_back",
         NEW l \in Helping, l # "h_back", Goto(t, l),
         NEW s \in Seq(HelpFrame), Alike(stack[t], s),
         stack' = [stack EXCEPT ![t] = s],
         UNCHANGED <<nodes, reg, calls>>,
         l \in {"h_unlink", "h_cas"} => succ[s[1].del].mark = MARKED,
         l = "h_cas" => s[1].next = succ[s[1].del].node
  PROVE  Inv(L, R, sq)'
<1> DEFINE r == reg[t]
<1>1. /\ r \in Reg /\ ArgOk(r) /\ Behind(R, r) /\ (Mine(r) \/ Target(R, r))
      /\ stack[t] \in Seq(HelpFrame) /\ stack[t] # <<>>
      /\ FramesOk(R, stack[t], FALSE)
      /\ OuterOk(L, stack[t][Len(stack[t])], r)
  BY HelpFacts
<1>2. /\ FramesOk(R, s, FALSE) /\ OuterOk(L, s[Len(s)], r) /\ s # <<>>
      /\ \A p, d : Flags(stack[t], p, d) => Flags(s, p, d)
      /\ \A m : OwnedOf(m, stack[t], r) = OwnedOf(m, s, r)
  <2> PICK x, q : x = stack[t] /\ q = r /\ x \in Seq(HelpFrame)
    BY <1>1
  <2>1. /\ x # <<>> /\ Alike(x, s) /\ FramesOk(R, x, FALSE)
        /\ OuterOk(L, x[Len(x)], q)
    BY <1>1
  <2>2. /\ FramesOk(R, s, FALSE) /\ OuterOk(L, s[Len(s)], q) /\ s # <<>>
        /\ \A p, d : Flags(x, p, d) <=> Flags(s, p, d)
        /\ \A m : OwnedOf(m, x, q) = OwnedOf(m, s, q)
    BY ONLY <2>1, AlikeFrames, x \in Seq(HelpFrame), s \in Seq(HelpFrame)
  <2> QED BY <2>2
<1>3. RegOk(L, R, l, r)
  BY <1>1, HelpingOk
<1>4. StackOk(L, R, l, s, r)
  BY <1>2 DEF StackOk
<1>5. OwnedOf(l, s, r) = OwnedOf(pc[t], stack[t], r)
  BY <1>2 DEF OwnedOf, Helping
<1>6. TypeInv /\ OwnInv(L, R, In(sq))
  BY DEF Inv
<1>7. /\ UNCHANGED <<succ, back, key, free>>
      /\ val' \in [Node -> Value \cup {None}]
      /\ calls' \in [Thread -> 0 .. MaxCalls]
  BY <1>6, Untouched
<1>8. /\ pc' = [pc EXCEPT ![t] = l] /\ reg' = [reg EXCEPT ![t] = r]
      /\ l \in Label
  BY <1>6 DEF Goto, TypeInv, Helping, Label
<1>9. r.op = "insert" => r.node \notin R
  BY <1>6 DEF OwnInv
<1> QED BY <1>1, <1>2, <1>3, <1>4, <1>5, <1>7, <1>8, <1>9, LocalStep

LEMMA HelpTestInv ==
  ASSUME NEW L, NEW R, NEW sq, Inv(L, R, sq), NEW t \in Thread, HelpTest(t)
  PROVE  Inv(L, R, sq)'
<1> DEFINE l == IF is_marked(succ[stack[t][1].del]) THEN "h_unlink"
                                                     ELSE "h_next"
<1>1. pc[t] = "h_test" /\ pc[t] \in Helping /\ Branch(t, l)
  BY DEF HelpTest, Helping, Top1
<1>2. l \in Helping /\ l # "h_back" /\ l # "h_cas"
  BY DEF Helping
<1>3. stack[t] \in Seq(HelpFrame) /\ succ[stack[t][1].del] \in Link
  BY <1>1, HelpFacts
<1>4. l = "h_unlink" => succ[stack[t][1].del].mark = MARKED
  BY <1>3, MarkFacts
<1> HIDE DEF l
<1>5. /\ Goto(t, l) /\ UNCHANGED <<nodes, reg, stack, calls>>
      /\ stack' = [stack EXCEPT ![t] = stack[t]]
  BY <1>1 DEF Branch, Local, Goto, Inv, TypeInv
<1>6. Alike(stack[t], stack[t])
  BY DEF Alike
<1> QED BY <1>1, <1>2, <1>3, <1>4, <1>5, <1>6, HelpLocal

LEMMA NextAlike ==
  ASSUME NEW s \in Seq(HelpFrame), s # <<>>, NEW n \in Maybe
  PROVE  /\ [s EXCEPT ![1].next = n] \in Seq(HelpFrame)
         /\ Alike(s, [s EXCEPT ![1].next = n])
         /\ [s EXCEPT ![1].next = n][1].next = n
         /\ [s EXCEPT ![1].next = n][1].del = s[1].del
<1>1. Len(s) \in Nat /\ Len(s) >= 1
  BY Popped
<1> DEFINE z == [s EXCEPT ![1].next = n]
<1>2. /\ z \in Seq(HelpFrame) /\ Len(z) = Len(s) /\ z # <<>> /\ z[1].next = n
      /\ \A i \in 1 .. Len(s) : /\ z[i].prev = s[i].prev
                                /\ z[i].del = s[i].del
                                /\ z[i].ret = s[i].ret
  BY NextSet
<1> HIDE DEF z
<1>3. Alike(s, z) /\ z[1].del = s[1].del
  BY <1>1, <1>2 DEF Alike
<1> QED BY <1>2, <1>3 DEF z

LEMMA TryMarkNextInv ==
  ASSUME NEW L, NEW R, NEW sq, Inv(L, R, sq), NEW t \in Thread, TryMarkNext(t)
  PROVE  Inv(L, R, sq)'
<1>1. pc[t] = "h_next" /\ pc[t] \in Helping
  BY DEF TryMarkNext, Helping
<1> DEFINE n == succ[stack[t][1].del].node
           z == [stack[t] EXCEPT ![1].next = n]
<1>2. stack[t] \in Seq(HelpFrame) /\ stack[t] # <<>> /\ n \in Maybe
  BY <1>1, HelpFacts, NodeFacts
<1>3. z \in Seq(HelpFrame) /\ Alike(stack[t], z)
  BY <1>2, NextAlike
<1>4. stack' = [stack EXCEPT ![t] = z]
  BY DEF TryMarkNext, Top1
<1>5. Goto(t, "h_mark") /\ UNCHANGED <<nodes, reg, calls>>
  BY DEF TryMarkNext
<1> HIDE DEF z, n
<1>6. "h_mark" \in Helping
  BY DEF Helping
<1> QED BY <1>1, <1>3, <1>4, <1>5, <1>6, HelpLocal

LEMMA HelpUnlinkInv ==
  ASSUME NEW L, NEW R, NEW sq, Inv(L, R, sq), NEW t \in Thread, HelpUnlink(t)
  PROVE  Inv(L, R, sq)'
<1>1. pc[t] = "h_unlink" /\ pc[t] \in Helping
  BY DEF HelpUnlink, Helping
<1> DEFINE n == succ[stack[t][1].del].node
           z == [stack[t] EXCEPT ![1].next = n]
<1>2. stack[t] \in Seq(HelpFrame) /\ stack[t] # <<>> /\ n \in Maybe
  BY <1>1, HelpFacts, NodeFacts
<1>3. succ[stack[t][1].del].mark = MARKED
  BY <1>1 DEF Inv, StackOk
<1>4. /\ z \in Seq(HelpFrame) /\ Alike(stack[t], z)
      /\ z[1].next = n /\ z[1].del = stack[t][1].del
  BY <1>2, NextAlike
<1>5. stack' = [stack EXCEPT ![t] = z]
  BY DEF HelpUnlink, Top1
<1>6. Goto(t, "h_cas") /\ UNCHANGED <<nodes, reg, calls>>
  BY DEF HelpUnlink
<1>7. n = succ[stack[t][1].del].node
  OBVIOUS
<1> HIDE DEF z, n
<1>8. "h_cas" \in Helping
  BY DEF Helping
<1> QED BY <1>1, <1>3, <1>4, <1>5, <1>6, <1>7, <1>8, HelpLocal

LEMMA TryMarkResultInv ==
  ASSUME NEW L, NEW R, NEW sq, Inv(L, R, sq), NEW t \in Thread, TryMarkResult(t)
  PROVE  Inv(L, R, sq)'
<1> DEFINE d == stack[t][1].del
           r == reg[t]
<1>1. pc[t] = "h_result" /\ pc[t] \in Helping
  BY DEF TryMarkResult, Helping
<1>2. /\ r \in Reg /\ ArgOk(r) /\ Behind(R, r) /\ (Mine(r) \/ Target(R, r))
      /\ stack[t] \in Seq(HelpFrame) /\ stack[t] # <<>>
      /\ FramesOk(R, stack[t], FALSE)
      /\ OuterOk(L, stack[t][Len(stack[t])], r)
      /\ d \in R /\ d \in Node /\ succ[d] \in Link /\ succ[d].node \in Node
  BY <1>1, HelpFacts
<1>3. TypeInv /\ OwnInv(L, R, In(sq)) /\ UNCHANGED <<nodes, reg, calls>>
  BY DEF Inv, TryMarkResult
<1>4. CASE is_flagged(succ[d]) /\ ~ is_marked(succ[d])
  <2> DEFINE f == Frame(d, succ[d].node, "h_test")
             s == <<f>> \o stack[t]
  <2>1. succ[d].mark = FLAGGED
    BY <1>2, <1>4, MarkFacts
  <2>2. FrameOk(R, f)
    BY <1>2, <2>1, FlaggedFacts
  <2>3. f \in HelpFrame /\ f.ret = "h_test"
    BY <1>2, FrameType
  <2>4. stack' = [stack EXCEPT ![t] = s] /\ pc' = [pc EXCEPT ![t] = "h_back"]
    BY <1>3, <1>4 DEF TryMarkResult, Help, Goto, TypeInv, Top1
  <2> HIDE DEF f
  <2>5. /\ s \in Seq(HelpFrame) /\ Len(s) = Len(stack[t]) + 1 /\ s # <<>>
        /\ Len(stack[t]) \in Nat /\ Len(stack[t]) >= 1
        /\ \A i \in 2 .. Len(stack[t]) + 1 : s[i] = stack[t][i - 1]
    BY <1>1, <1>2, <2>3, Pushed, HelpFacts
  <2>6. StackOk(L, R, "h_back", s, r)
    BY <1>2, <2>2, <2>3, PushOk
  <2> HIDE DEF s
  <2>7. s[Len(s)] = stack[t][Len(stack[t])]
    BY <2>5
  <2>8. "h_back" \in Helping /\ "h_back" \in Label
    BY DEF Helping, Label
  <2>9. RegOk(L, R, "h_back", r)
    BY <1>2, <2>8, HelpingOk
  <2>10. OwnedOf("h_back", s, r) = OwnedOf(pc[t], stack[t], r)
    BY <1>1, <1>2, <2>5, <2>7 DEF OwnedOf
  <2>11. r.op = "insert" => r.node \notin R
    BY <1>3 DEF OwnInv
  <2>12. \A p, e : Flags(stack[t], p, e) => Flags(s, p, e)
    BY <2>5, <2>7 DEF Flags
  <2>13. reg' = [reg EXCEPT ![t] = r]
    BY <1>3 DEF TypeInv
  <2>14. /\ UNCHANGED <<succ, back, key, free>>
         /\ val' \in [Node -> Value \cup {None}]
         /\ calls' \in [Thread -> 0 .. MaxCalls]
    BY <1>3, Untouched
  <2> QED BY <1>2, <2>4, <2>5, <2>6, <2>8, <2>9, <2>10, <2>11, <2>12, <2>13,
             <2>14, LocalStep
<1>5. CASE ~ (is_flagged(succ[d]) /\ ~ is_marked(succ[d]))
  <2>1. Goto(t, "h_test") /\ stack' = stack
    BY <1>5 DEF TryMarkResult, Top1
  <2>2. stack' = [stack EXCEPT ![t] = stack[t]] /\ Alike(stack[t], stack[t])
    BY <1>3, <2>1 DEF TypeInv, Alike
  <2>3. "h_test" \in Helping
    BY DEF Helping
  <2> QED BY <1>1, <1>2, <1>3, <2>1, <2>2, <2>3, HelpLocal
<1> QED BY <1>4, <1>5

-----------------------------------------------------------------------------
\* The nodes that belong to other threads than t.
Others(R, sq, t) ==
  Node \ (R \cup In(sq) \cup OwnedOf(pc[t], stack[t], reg[t]))

LEMMA OthersFacts ==
  ASSUME NEW L, NEW R, NEW sq, Inv(L, R, sq), NEW t \in Thread,
         NEW u \in Thread, u # t
  PROVE  /\ reg[u].op = "insert" /\ reg[u].node \in Node =>
              reg[u].node \in Others(R, sq, t)
         /\ pc[u] = "d_free" => reg[u].node \in R \cup Others(R, sq, t)
<1>1. OwnInv(L, R, In(sq)) /\ RegOk(L, R, pc[u], reg[u])
  BY DEF Inv
<1>2. ASSUME NEW n \in Node, n \in OwnedOf(pc[u], stack[u], reg[u])
      PROVE  n \notin In(sq) /\ n \notin OwnedOf(pc[t], stack[t], reg[t])
  BY <1>1, <1>2 DEF OwnInv
<1>3. ASSUME reg[u].op = "insert", reg[u].node \in Node
      PROVE  reg[u].node \in Others(R, sq, t)
  <2>1. reg[u].node \in OwnedOf(pc[u], stack[u], reg[u])
    BY <1>3, NodeFacts DEF OwnedOf
  <2>2. reg[u].node \notin R
    BY <1>1, <1>3 DEF OwnInv
  <2> QED BY <1>2, <1>3, <2>1, <2>2 DEF Others
<1>4. ASSUME pc[u] = "d_free"
      PROVE  reg[u].node \in R \cup Others(R, sq, t)
  <2>1. reg[u].node \in Node
    BY <1>1, <1>4 DEF RegOk
  <2>2. reg[u].node \in OwnedOf(pc[u], stack[u], reg[u])
    BY <1>4, <2>1, NodeFacts DEF OwnedOf
  <2> QED BY <1>2, <2>1, <2>2 DEF Others
<1> QED BY <1>3, <1>4

\* A step that changes nodes, and of thread t what is given here.
LEMMA SharedStep ==
  ASSUME NEW L, NEW R, NEW sq, Inv(L, R, sq), NEW t \in Thread,
         NEW M, NEW S, NEW tq, Stable(L, R, Others(R, sq, t), M, S),
         NEW l \in Label, NEW r \in Reg, NEW s \in Seq(HelpFrame),
         pc' = [pc EXCEPT ![t] = l], reg' = [reg EXCEPT ![t] = r],
         stack' = [stack EXCEPT ![t] = s],
         RegOk(M, S, l, r)', StackOk(M, S, l, s, r)',
         TypeInv', ListInv(M)', RefInv(M, S)', FlagInv(M)', PoolInv(tq)',
         OwnInv(M, S, In(tq))'
  PROVE  Inv(M, S, tq)'
<1>1. /\ TypeInv
      /\ \A u \in Thread : /\ RegOk(L, R, pc[u], reg[u])
                           /\ StackOk(L, R, pc[u], stack[u], reg[u])
  BY DEF Inv
<1>2. \A u \in Thread : /\ pc'[u] = IF u = t THEN l ELSE pc[u]
                        /\ reg'[u] = IF u = t THEN r ELSE reg[u]
                        /\ stack'[u] = IF u = t THEN s ELSE stack[u]
  BY <1>1 DEF TypeInv
<1>3. ASSUME NEW u \in Thread
      PROVE  /\ RegOk(M, S, pc[u], reg[u])'
             /\ StackOk(M, S, pc[u], stack[u], reg[u])'
  <2> PICK l2, r2, s2 : l2 = pc'[u] /\ r2 = reg'[u] /\ s2 = stack'[u]
    OBVIOUS
  <2>1. RegOk(M, S, pc[u], reg[u])' <=> RegOk(M, S, l2, r2)'
    BY DEF RegOk, Seeks, Mine, Target, Between, Behind, Leads
  <2>2. StackOk(M, S, pc[u], stack[u], reg[u])'
          <=> StackOk(M, S, l2, s2, r2)'
    BY DEF StackOk, FramesOk, FrameOk, BackSet, OuterOk, Leads
  <2>3. CASE u = t
    <3>1. l2 = l /\ r2 = r /\ s2 = s
      BY <1>2, <2>3
    <3>2. RegOk(M, S, l2, r2)' /\ StackOk(M, S, l2, s2, r2)'
      BY <3>1
    <3> QED BY <2>1, <2>2, <3>2
  <2>4. CASE u # t
    <3>1. l2 = pc[u] /\ r2 = reg[u] /\ s2 = stack[u]
      BY <1>2, <2>4
    <3>2. /\ RegOk(L, R, l2, r2) /\ StackOk(L, R, l2, s2, r2)
          /\ s2 \in Seq(HelpFrame)
          /\ r2.op = "insert" /\ r2.node \in Node =>
               r2.node \in Others(R, sq, t)
          /\ l2 = "d_free" => r2.node \in R \cup Others(R, sq, t)
      BY <1>1, <2>4, <3>1, OthersFacts, TypeFacts
    <3> DEFINE P == Others(R, sq, t)
    <3> HIDE DEF P
    <3>3. RegOk(M, S, l2, r2)'
      BY <3>2, RegStable DEF P
    <3>4. StackOk(M, S, l2, s2, r2)'
      BY <3>2, StackStable DEF P
    <3> QED BY <2>1, <2>2, <3>3, <3>4
  <2> QED BY <2>3, <2>4
<1> QED BY <1>3 DEF Inv

\* The free list is left alone.
LEMMA PoolKept ==
  ASSUME NEW sq, PoolInv(sq), free' = free,
         \A n \in In(sq) : succ'[n] = succ[n]
  PROVE  PoolInv(sq)'
<1>1. /\ Len(sq) \in Nat /\ Len(sq) >= 1
      /\ \A i \in 1 .. Len(sq) : sq[i] \in In(sq)
  BY DEF PoolInv, In
<1>2. sq[Len(sq)] \in In(sq)
  BY <1>1
<1> QED BY <1>1, <1>2 DEF PoolInv, Leads

\* What is new in the nodes that threads own.
LEMMA OwnStep ==
  ASSUME NEW L, NEW R, NEW sq, Inv(L, R, sq), NEW t \in Thread,
         NEW M, NEW S, NEW F, S \cap F = {},
         NEW l, NEW r, NEW s,
         pc' = [pc EXCEPT ![t] = l], reg' = [reg EXCEPT ![t] = r],
         stack' = [stack EXCEPT ![t] = s],
         OwnedOf(l, s, r) \cap F = {},
         \A u \in Thread \ {t} :
           LET O == OwnedOf(pc[u], stack[u], reg[u])
           IN  O \cap F = {} /\ O \cap OwnedOf(l, s, r) = {},
         \A n \in Node \ (M \cup F) :
           \/ n \in OwnedOf(l, s, r)
           \/ \E u \in Thread \ {t} : n \in OwnedOf(pc[u], stack[u], reg[u]),
         r.op = "insert" => r.node \notin S,
         \A u \in Thread \ {t} : reg[u].op = "insert" => reg[u].node \notin S
  PROVE  OwnInv(M, S, F)'
<1>1. TypeInv /\ OwnInv(L, R, In(sq))
  BY DEF Inv
<1>2. \A u \in Thread : /\ pc'[u] = IF u = t THEN l ELSE pc[u]
                        /\ reg'[u] = IF u = t THEN r ELSE reg[u]
                        /\ stack'[u] = IF u = t THEN s ELSE stack[u]
  BY <1>1 DEF TypeInv
<1> DEFINE old(u) == OwnedOf(pc[u], stack[u], reg[u])
           new(u) == OwnedOf(pc'[u], stack'[u], reg'[u])
<1>3. \A u \in Thread : new(u) = IF u = t THEN OwnedOf(l, s, r) ELSE old(u)
  BY <1>2
<1>4. \A u, v \in Thread : u # v => old(u) \cap old(v) = {}
  BY <1>1 DEF OwnInv
<1>5. \A u \in Thread : new(u) \cap F = {}
  <2> HIDE DEF new
  <2> QED BY <1>3
<1>6. \A u, v \in Thread : u # v => new(u) \cap new(v) = {}
  <2> HIDE DEF new
  <2> QED BY <1>3, <1>4
<1>7. \A n \in Node \ (M \cup F) : \E u \in Thread : n \in new(u)
  <2> HIDE DEF new
  <2> QED BY <1>3
<1>8. \A u \in Thread : reg'[u].op = "insert" => reg'[u].node \notin S
  BY <1>2
<1> QED BY <1>5, <1>6, <1>7, <1>8 DEF OwnInv

-----------------------------------------------------------------------------
\* A thread keeps what it owns.
LEMMA OwnKept ==
  ASSUME NEW L, NEW R, NEW sq, Inv(L, R, sq), NEW t \in Thread,
         NEW l, NEW r, NEW s,
         pc' = [pc EXCEPT ![t] = l], reg' = [reg EXCEPT ![t] = r],
         stack' = [stack EXCEPT ![t] = s],
         OwnedOf(l, s, r) = OwnedOf(pc[t], stack[t], reg[t]),
         r.op = "insert" => r.node \notin R
  PROVE  OwnInv(L, R, In(sq))'
<1>1. OwnInv(L, R, In(sq))
  BY DEF Inv
<1> PICK F, O : F = In(sq) /\ O = OwnedOf(l, s, r)
  OBVIOUS
<1>2. ASSUME NEW u \in Thread \ {t}
      PROVE  /\ OwnedOf(pc[u], stack[u], reg[u]) \cap F = {}
             /\ OwnedOf(pc[u], stack[u], reg[u]) \cap O = {}
             /\ reg[u].op = "insert" => reg[u].node \notin R
  BY <1>1 DEF OwnInv
<1>3. O \cap F = {} /\ R \cap F = {}
  BY <1>1 DEF OwnInv
<1>4. \A n \in Node \ (L \cup F) :
        \/ n \in O
        \/ \E u \in Thread \ {t} : n \in OwnedOf(pc[u], stack[u], reg[u])
  BY <1>1 DEF OwnInv
<1>5. OwnInv(L, R, F)'
  BY <1>2, <1>3, <1>4, OwnStep
<1> QED BY <1>5 DEF OwnInv, In

LEMMA HelpBackInv ==
  ASSUME NEW L, NEW R, NEW sq, Inv(L, R, sq), NEW t \in Thread, HelpBack(t)
  PROVE  Inv(L, R, sq)'
<1> PICK r, s, f : r = reg[t] /\ s = stack[t] /\ f = s[1]
  OBVIOUS
<1> DEFINE P == Others(R, sq, t)
<1>1. pc[t] = "h_back" /\ pc[t] \in Helping
  BY DEF HelpBack, Helping
<1>2. /\ r \in Reg /\ ArgOk(r) /\ Behind(R, r) /\ (Mine(r) \/ Target(R, r))
      /\ s \in Seq(HelpFrame) /\ s # <<>> /\ FramesOk(R, s, TRUE)
      /\ OuterOk(L, s[Len(s)], r) /\ FrameOk(R, f)
      /\ f.del \in R /\ f.prev \in R /\ f.del \in Node /\ f.prev \in Node
  BY <1>1, HelpFacts
<1>3. /\ back' = [back EXCEPT ![f.del] = f.prev]
      /\ succ' = succ /\ key' = key /\ val' = val /\ free' = free
      /\ reg' = reg /\ stack' = stack /\ calls' = calls
      /\ pc' = [pc EXCEPT ![t] = "h_test"]
  BY DEF HelpBack, Top1, Goto
<1>4. /\ TypeInv /\ ListInv(L) /\ RefInv(L, R) /\ FlagInv(L) /\ PoolInv(sq)
      /\ OwnInv(L, R, In(sq))
  BY DEF Inv
<1>5. reg' = [reg EXCEPT ![t] = r] /\ stack' = [stack EXCEPT ![t] = s]
  BY <1>3, <1>4 DEF TypeInv
<1>p. pc' = [pc EXCEPT ![t] = "h_test"]
  BY <1>3
<1>6. BackSet(R, f.del)'
  <2>1. back'[f.del] = f.prev
    BY <1>2, <1>3, <1>4 DEF TypeInv
  <2> QED BY <1>2, <1>3, <2>1 DEF BackSet, FrameOk
<1>7. \A d \in R : BackSet(R, d) => BackSet(R, d)'
  <2> SUFFICES ASSUME NEW d \in R, BackSet(R, d), d # f.del
               PROVE  BackSet(R, d)'
    BY <1>6
  <2>1. back'[d] = back[d]
    BY <1>3, <1>4 DEF RefInv, TypeInv
  <2> QED BY <1>3, <2>1 DEF BackSet
<1> HIDE DEF P
<1>8. Stable(L, R, P, L, R)
  BY <1>3, <1>7 DEF Stable, Leads
<1>9. RegOk(L, R, "h_test", r)'
  <2>1. "h_test" \in Helping
    BY DEF Helping
  <2>2. RegOk(L, R, "h_test", r)
    BY <1>2, <2>1, HelpingOk
  <2> QED BY <1>3, <2>2 DEF RegOk, Seeks, Mine, Target, Between, Behind, Leads
<1>10. StackOk(L, R, "h_test", s, r)'
  <2>1. FramesOk(R, s, TRUE)'
    BY <1>2, <1>8, FramesStable
  <2>2. FramesOk(R, s, FALSE)'
    <3> SUFFICES ASSUME NEW i \in 1 .. Len(s)
                 PROVE  /\ FrameOk(R, s[i])'
                        /\ BackSet(R, s[i].del)'
                        /\ i < Len(s) => s[i].ret = "h_test"
      BY DEF FramesOk
    <3>1. /\ FrameOk(R, s[i])'
          /\ (i > 1) => BackSet(R, s[i].del)'
          /\ i < Len(s) => s[i].ret = "h_test"
      BY <2>1 DEF FramesOk
    <3>2. i > 1 \/ i = 1
      OBVIOUS
    <3>3. i = 1 => BackSet(R, s[i].del)'
      BY <1>6
    <3> QED BY <3>1, <3>2, <3>3
  <2>3. OuterOk(L, s[Len(s)], r)'
    BY <1>2, <1>3 DEF OuterOk, Leads
  <2> QED BY <1>2, <2>2, <2>3 DEF StackOk, Helping
<1>11. TypeInv'
  BY <1>2, <1>3, <1>4 DEF TypeInv, Maybe, Label
<1>12. ListInv(L)'
  BY <1>3, <1>4 DEF ListInv, Leads
<1>13. RefInv(L, R)'
  <2>1. \A n \in R : succ[n].mark = MARKED => BackSet(R, n)'
    BY <1>4, <1>7 DEF RefInv, BackSet
  <2> QED BY <1>3, <1>4, <2>1 DEF RefInv, BackSet
<1>14. FlagInv(L)'
  BY <1>3, <1>4 DEF FlagInv, Leads
<1>15. PoolInv(sq)'
  BY <1>3, <1>4, PoolKept
<1>16. OwnInv(L, R, In(sq))'
  <2>1. OwnedOf("h_test", s, r) = OwnedOf(pc[t], stack[t], reg[t])
    BY <1>1 DEF OwnedOf
  <2>2. r.op = "insert" => r.node \notin R
    BY <1>4 DEF OwnInv
  <2> QED BY <1>p, <1>5, <2>1, <2>2, OwnKept
<1>17. "h_test" \in Label
  BY DEF Label
<1> QED BY <1>2, <1>p, <1>5, <1>8, <1>9, <1>10, <1>11, <1>12, <1>13, <1>14,
           <1>15, <1>16, <1>17, SharedStep DEF P
-----------------------------------------------------------------------------
\* Two nodes of the list do not have the same successor.
LEMMA PredUnique ==
  ASSUME NEW L, TypeInv, ListInv(L), NEW p \in L \ {TailN},
         NEW q \in L \ {TailN}, succ[p].node = succ[q].node
  PROVE  p = q
<1>1. /\ key[p] \in Int /\ key[q] \in Int /\ succ[p].node \in L
      /\ key[p] < key[succ[p].node] /\ key[q] < key[succ[p].node]
  BY TypeFacts DEF ListInv
<1>2. key[succ[p].node] \in Int
  BY <1>1, TypeFacts DEF ListInv
<1>3. key[p] < key[q] => key[succ[p].node] <= key[q]
  BY DEF ListInv
<1>4. key[q] < key[p] => key[succ[p].node] <= key[p]
  BY DEF ListInv
<1>5. key[p] = key[q]
  BY <1>1, <1>2, <1>3, <1>4
<1> QED BY <1>5 DEF ListInv

\* The compare-and-swap of help_marked, and what it leaves in the list.
Unlinks(p, n, m) ==
  /\ succ' = IF succ[p] = Ref(n, FLAGGED)
             THEN [succ EXCEPT ![p] = Ref(m, UNMARKED)] ELSE succ
  /\ UNCHANGED <<back, key, val, free, calls>>

Left(L, p, n) == IF Leads(p, n, FLAGGED) THEN L \ {n} ELSE L

\* help_marked: the marked node n is unlinked if p leads to it with a flag.
LEMMA UnlinkFacts ==
  ASSUME NEW L, NEW R, NEW sq, Inv(L, R, sq), NEW p \in R,
         NEW n \in R, succ[n].mark = MARKED, NEW m, m = succ[n].node,
         Unlinks(p, n, m), NEW M, M = Left(L, p, n),
         NEW P \in SUBSET (Node \ R)
  PROVE  /\ succ' \in [Node -> Link] /\ M \subseteq L
         /\ ListInv(M)' /\ RefInv(M, R)' /\ PoolInv(sq)'
         /\ Stable(L, R, P, M, R)
         /\ \A q \in M : succ'[q].mark = FLAGGED =>
              succ'[q] = succ[q] /\ ~ (q = p /\ succ[q].node = n)
         /\ \A d \in M : succ'[d].mark = MARKED =>
              \E q \in M : Leads(q, d, FLAGGED)'
         /\ Leads(p, n, FLAGGED) => n \in L /\ p \in L
<1>1. /\ TypeInv /\ ListInv(L) /\ RefInv(L, R) /\ FlagInv(L) /\ PoolInv(sq)
      /\ OwnInv(L, R, In(sq))
  BY DEF Inv
<1>2. /\ p \in Node /\ n \in Node /\ succ[p] \in Link /\ succ[n] \in Link
      /\ n \in Maybe /\ m \in Maybe
  BY <1>1, TypeFacts, NodeFacts DEF RefInv
<1>3. succ[p] = Ref(n, FLAGGED) <=> Leads(p, n, FLAGGED)
  BY <1>2, RefFacts DEF Leads
<1>4. /\ back' = back /\ key' = key /\ free' = free
      /\ succ' = IF succ[p] = Ref(n, FLAGGED)
                 THEN [succ EXCEPT ![p] = Ref(m, UNMARKED)] ELSE succ
  BY DEF Unlinks
<1>5. CASE ~ Leads(p, n, FLAGGED)
  <2>1. succ' = succ /\ M = L
    BY <1>3, <1>4, <1>5 DEF Left
  <2>2. ListInv(M)' /\ RefInv(M, R)'
    BY <1>1, <1>4, <2>1 DEF ListInv, RefInv, Leads
  <2>3. PoolInv(sq)'
    BY <1>1, <1>4, <2>1, PoolKept
  <2>4. Stable(L, R, P, M, R)
    BY <1>4, <2>1 DEF Stable, Leads, BackSet
  <2>5. \A d \in M : succ'[d].mark = MARKED =>
          \E q \in M : Leads(q, d, FLAGGED)'
    BY <1>1, <2>1 DEF FlagInv, Leads
  <2>6. succ' \in [Node -> Link]
    BY <1>1, <2>1 DEF TypeInv
  <2>7. \A q \in M : succ'[q].mark = FLAGGED =>
          succ'[q] = succ[q] /\ ~ (q = p /\ succ[q].node = n)
    BY <1>5, <2>1 DEF Leads
  <2> QED BY <1>5, <2>1, <2>2, <2>3, <2>4, <2>5, <2>6, <2>7
<1>6. CASE Leads(p, n, FLAGGED)
  <2>1. /\ succ' = [succ EXCEPT ![p] = Ref(m, UNMARKED)] /\ M = L \ {n}
        /\ succ[p].mark = FLAGGED /\ succ[p].node = n
    BY <1>3, <1>4, <1>6 DEF Leads, Left
  <2>2. p \in L /\ p # TailN /\ key[p] < key[n]
    BY <2>1, FlaggedFacts
  <2>3. n \in L /\ n # TailN /\ n # HeadN /\ n # p
    <3>1. n \in L
      BY <1>1, <2>1, <2>2 DEF ListInv
    <3>2. key[n] \in Nat /\ key[HeadN] = -1 /\ succ[TailN].mark = UNMARKED
      BY <1>1, TopFacts, NodeFacts DEF RefInv, ListInv, Leads
    <3> QED BY <2>1, <3>1, <3>2
  <2>4. m \in L /\ key[n] < key[m] /\ m \in R
    BY <1>1, <2>3 DEF ListInv, RefInv
  <2>5. \A q \in Node : succ'[q] = IF q = p THEN Ref(m, UNMARKED) ELSE succ[q]
    BY <1>1, <2>1 DEF TypeInv
  <2>6. Ref(m, UNMARKED).node = m /\ Ref(m, UNMARKED).mark = UNMARKED
        /\ Ref(m, UNMARKED) \in Link
    BY <1>2, RefFacts
  <2>7. \A q \in R : /\ q # p => succ'[q] = succ[q]
                     /\ q = p => Leads(q, m, UNMARKED)'
    BY <1>1, <2>5, <2>6 DEF RefInv, Leads
  <2>8. \A q \in R : key[q] \in Int
    BY <1>1, TypeFacts DEF RefInv
  <2>9. M \subseteq L /\ L \subseteq R /\ n \in R \ M
    BY <1>1, <2>1 DEF RefInv
  <2>10. ListInv(M)'
    <3>1. HeadN \in M /\ TailN \in M /\ M \subseteq Node
      BY <1>1, <2>1, <2>3 DEF ListInv
    <3>2. /\ key'[HeadN] = Bottom /\ key'[TailN] = Top
          /\ Leads(TailN, Null, UNMARKED)'
          /\ \A i, j \in M : key'[i] = key'[j] => i = j
      BY <1>1, <1>4, <2>2, <2>7, <2>9 DEF ListInv, Leads
    <3>3. ASSUME NEW q \in M \ {TailN}
          PROVE  succ'[q].node \in M /\ key[q] < key[succ'[q].node]
      <4>1. CASE q = p
        <5>1. succ'[q].node = m /\ m # n /\ key[p] < key[m]
          BY <2>2, <2>4, <2>7, <2>8, <2>9, <4>1 DEF Leads
        <5> QED BY <2>1, <2>4, <4>1, <5>1
      <4>2. CASE q # p
        <5>1. succ'[q] = succ[q] /\ q \in L \ {TailN} /\ p \in L \ {TailN}
          BY <2>2, <2>7, <2>9, <4>2
        <5>2. succ[q].node \in L /\ key[q] < key[succ[q].node]
          BY <1>1, <5>1 DEF ListInv
        <5>3. succ[q].node # n
          BY <1>1, <2>1, <4>2, <5>1, PredUnique
        <5> QED BY <2>1, <5>1, <5>2, <5>3
      <4> QED BY <4>1, <4>2
    <3>4. ASSUME NEW q \in M \ {TailN}, NEW j \in M, key[q] < key[j]
          PROVE  key[succ'[q].node] <= key[j]
      <4>1. q \in L \ {TailN} /\ j \in L /\ key[succ[q].node] <= key[j]
        BY <1>1, <2>9, <3>4 DEF ListInv
      <4>2. CASE q = p
        <5>1. succ'[q].node = m /\ key[n] <= key[j]
          BY <2>1, <2>7, <2>9, <4>1, <4>2 DEF Leads
        <5>2. key[n] # key[j] /\ n \in L \ {TailN}
          BY <1>1, <2>1, <2>3, <4>1 DEF ListInv
        <5>3. key[n] < key[j]
          BY <2>8, <2>9, <4>1, <5>1, <5>2
        <5>4. key[succ[n].node] <= key[j]
          BY <1>1, <4>1, <5>2, <5>3 DEF ListInv
        <5> QED BY <5>1, <5>4
      <4>3. CASE q # p
        BY <2>7, <2>9, <4>1, <4>3
      <4> QED BY <4>2, <4>3
    <3> QED BY <1>4, <3>1, <3>2, <3>3, <3>4 DEF ListInv
  <2>11. RefInv(M, R)'
    <3>1. M \subseteq R /\ R \subseteq Node
      BY <1>1, <2>9 DEF RefInv
    <3>2. \A q \in R \ {HeadN, TailN} : key'[q] \in Key
      BY <1>1, <1>4 DEF RefInv
    <3>3. ASSUME NEW q \in R \ {TailN}
          PROVE  succ'[q].node \in R /\ key[q] < key[succ'[q].node]
      <4>1. CASE q = p
        <5>1. succ'[q].node = m /\ key[p] < key[m]
          BY <2>2, <2>4, <2>7, <2>8, <4>1 DEF Leads
        <5> QED BY <2>4, <4>1, <5>1
      <4>2. CASE q # p
        BY <1>1, <2>7, <4>2 DEF RefInv
      <4> QED BY <4>1, <4>2
    <3>4. ASSUME NEW q \in R, succ'[q].mark = MARKED
          PROVE  key[q] \in Key /\ back[q] \in R /\ key[back[q]] < key[q]
      <4>1. q # p
        BY <2>7, <3>4 DEF Leads
      <4>2. succ[q].mark = MARKED
        BY <2>7, <3>4, <4>1
      <4> QED BY <1>1, <4>2 DEF RefInv
    <3>5. ASSUME NEW q \in R \ M PROVE succ'[q].mark = MARKED
      <4>1. q # p
        BY <2>1, <2>2, <2>3
      <4>2. succ[q].mark = MARKED
        BY <1>1, <2>1 DEF RefInv
      <4> QED BY <2>7, <4>1, <4>2
    <3> QED BY <1>4, <3>1, <3>2, <3>3, <3>4, <3>5 DEF RefInv
  <2>12. PoolInv(sq)'
    <3>1. \A q \in In(sq) : succ'[q] = succ[q]
      <4>1. In(sq) \subseteq Node /\ p \notin In(sq)
        BY <1>1 DEF OwnInv, PoolInv, In
      <4> QED BY <2>5, <4>1
    <3> QED BY <1>1, <1>4, <3>1, PoolKept
  <2>13. Stable(L, R, P, M, R)
    <3>1. \A q \in R : succ[q].mark = MARKED => succ'[q] = succ[q]
      BY <2>1, <2>7
    <3>2. ASSUME NEW q \in R, NEW d \in R, Leads(q, d, FLAGGED)
          PROVE  succ'[d].mark = MARKED \/ Leads(q, d, FLAGGED)'
      <4>1. CASE q = p
        BY <2>1, <3>1, <3>2, <4>1 DEF Leads
      <4>2. CASE q # p
        BY <2>7, <3>2, <4>2 DEF Leads
      <4> QED BY <4>1, <4>2
    <3>3. ASSUME NEW q \in R, NEW d \in R \cap M, Leads(q, d, FLAGGED)
          PROVE  Leads(q, d, FLAGGED)'
      <4>1. q # p
        BY <2>1, <3>3 DEF Leads
      <4> QED BY <2>7, <3>3, <4>1 DEF Leads
    <3>4. \A d \in R : BackSet(R, d) => BackSet(R, d)'
      BY <1>4 DEF BackSet
    <3>5. \A q \in P : succ'[q] = succ[q] /\ key'[q] = key[q]
      BY <1>4, <2>5
    <3> QED BY <1>4, <2>9, <3>1, <3>2, <3>3, <3>4, <3>5 DEF Stable
  <2>14. \A q \in M : succ'[q].mark = FLAGGED =>
           succ'[q] = succ[q] /\ ~ (q = p /\ succ[q].node = n)
    BY <2>7, <2>9 DEF Leads
  <2>15. ASSUME NEW d \in M, succ'[d].mark = MARKED
         PROVE  \E q \in M : Leads(q, d, FLAGGED)'
    <3>1. d # p /\ d \in L /\ d \in R
      BY <2>7, <2>9, <2>15 DEF Leads
    <3>2. succ[d].mark = MARKED
      BY <2>7, <2>15, <3>1
    <3>3. PICK q \in L : Leads(q, d, FLAGGED)
      BY <1>1, <3>1, <3>2 DEF FlagInv
    <3>4. q # n /\ q # p
      BY <2>1, <3>3 DEF Leads
    <3>5. Leads(q, d, FLAGGED)' /\ q \in M
      BY <2>1, <2>7, <2>9, <3>3, <3>4 DEF Leads
    <3> QED BY <3>5
  <2>16. succ' \in [Node -> Link]
    <3>1. succ \in [Node -> Link]
      BY <1>1 DEF TypeInv
    <3> QED BY <1>2, <2>1, <2>6, <3>1
  <2> QED BY <2>2, <2>3, <2>9, <2>10, <2>11, <2>12, <2>13, <2>14, <2>15, <2>16
<1> QED BY <1>5, <1>6

\* The deletion that has flagged the predecessor of n owns n.
LEMMA FlagOwner ==
  ASSUME NEW L, NEW R, NEW sq, Inv(L, R, sq), NEW p \in L, NEW n \in Node,
         Leads(p, n, FLAGGED)
  PROVE  \E u \in Thread : n \in OwnedOf(pc[u], stack[u], reg[u])
<1>1. PICK u \in Thread : Flags(stack[u], p, n)
  BY DEF Inv, FlagInv, Leads
<1>2. /\ stack[u] # <<>> /\ stack[u][Len(stack[u])].ret = "d_copy"
      /\ stack[u][Len(stack[u])].del = n
  BY <1>1 DEF Flags
<1>3. reg[u].node = n
  BY <1>2 DEF Inv, StackOk, OuterOk
<1> QED BY <1>2, <1>3, NodeFacts DEF OwnedOf

\* Frames s follow z, and may leave out the flag of p for n.
Unflags(z, s, p, n) ==
  \A q, d : Flags(z, q, d) /\ ~ (q = p /\ d = n) => Flags(s, q, d)

\* A step of t that unlinks n, if p still leads to it.
LEMMA UnlinkStep ==
  ASSUME NEW L, NEW R, NEW sq, Inv(L, R, sq), NEW t \in Thread,
         NEW p \in R, NEW n \in R, succ[n].mark = MARKED,
         NEW m, m = succ[n].node,
         Unlinks(p, n, m), NEW M, M = Left(L, p, n),
         NEW l \in Label, NEW r \in Reg, NEW s \in Seq(HelpFrame),
         pc' = [pc EXCEPT ![t] = l], reg' = [reg EXCEPT ![t] = r],
         stack' = [stack EXCEPT ![t] = s],
         RegOk(M, R, l, r)', StackOk(M, R, l, s, r)',
         OwnedOf(l, s, r) = OwnedOf(pc[t], stack[t], reg[t]),
         r.op = "insert" => r.node \notin R,
         Unflags(stack[t], s, p, n)
  PROVE  Inv(M, R, sq)'
<1>1. /\ TypeInv /\ FlagInv(L) /\ OwnInv(L, R, In(sq)) /\ R \subseteq Node
  BY DEF Inv, RefInv
<1> PICK P : P = Others(R, sq, t)
  OBVIOUS
<1>2. P \in SUBSET (Node \ R)
  BY DEF Others
<1>u. UNCHANGED <<back, key, val, free, calls>>
  BY DEF Unlinks
<1>3. /\ succ' \in [Node -> Link] /\ M \subseteq L
      /\ ListInv(M)' /\ RefInv(M, R)' /\ PoolInv(sq)'
      /\ Stable(L, R, P, M, R)
      /\ \A q \in M : succ'[q].mark = FLAGGED =>
           succ'[q] = succ[q] /\ ~ (q = p /\ succ[q].node = n)
      /\ \A d \in M : succ'[d].mark = MARKED =>
           \E q \in M : Leads(q, d, FLAGGED)'
      /\ Leads(p, n, FLAGGED) => n \in L /\ p \in L
  BY <1>2, UnlinkFacts
<1>4. TypeInv'
  BY <1>1, <1>3, <1>u DEF TypeInv
<1>5. FlagInv(M)'
  <2>1. ASSUME NEW q \in M, succ'[q].mark = FLAGGED
        PROVE  \E u \in Thread : Flags(stack'[u], q, succ'[q].node)
    <3>1. q \in L /\ succ'[q] = succ[q] /\ ~ (q = p /\ succ[q].node = n)
      BY <1>3, <2>1
    <3>2. PICK u \in Thread : Flags(stack[u], q, succ[q].node)
      BY <1>1, <2>1, <3>1 DEF FlagInv
    <3>3. CASE u = t
      <4>1. stack'[t] = s
        BY <1>1 DEF TypeInv
      <4>2. Flags(s, q, succ[q].node)
        BY <3>1, <3>2, <3>3 DEF Unflags
      <4> QED BY <3>1, <4>1, <4>2
    <3>4. CASE u # t
      <4>1. stack'[u] = stack[u]
        BY <1>1, <3>4 DEF TypeInv
      <4> QED BY <3>1, <3>2, <4>1
    <3> QED BY <3>3, <3>4
  <2> QED BY <1>3, <2>1 DEF FlagInv
<1>6. OwnInv(M, R, In(sq))'
  <2> PICK F, O : F = In(sq) /\ O = OwnedOf(l, s, r)
    OBVIOUS
  <2>2. ASSUME NEW u \in Thread \ {t}
        PROVE  /\ OwnedOf(pc[u], stack[u], reg[u]) \cap F = {}
               /\ OwnedOf(pc[u], stack[u], reg[u]) \cap O = {}
               /\ reg[u].op = "insert" => reg[u].node \notin R
    BY <1>1 DEF OwnInv
  <2>3. O \cap F = {} /\ R \cap F = {}
    BY <1>1 DEF OwnInv
  <2>4. ASSUME NEW d \in Node \ (M \cup F)
        PROVE  \/ d \in O
               \/ \E u \in Thread \ {t} : d \in OwnedOf(pc[u], stack[u], reg[u])
    <3>1. \E u \in Thread : d \in OwnedOf(pc[u], stack[u], reg[u])
      <4>1. CASE d \in L
        <5>1. d = n /\ Leads(p, n, FLAGGED)
          BY <2>4, <4>1 DEF Left
        <5>2. p \in L /\ n \in Node
          BY <1>1, <1>3, <5>1
        <5> QED BY <5>1, <5>2, FlagOwner
      <4>2. CASE d \notin L
        BY <1>1, <2>4, <4>2 DEF OwnInv
      <4> QED BY <4>1, <4>2
    <3> QED BY <3>1
  <2>p. /\ pc' = [pc EXCEPT ![t] = l] /\ reg' = [reg EXCEPT ![t] = r]
        /\ stack' = [stack EXCEPT ![t] = s] /\ O = OwnedOf(l, s, r)
        /\ t \in Thread /\ Inv(L, R, sq)
        /\ r.op = "insert" => r.node \notin R
    OBVIOUS
  <2>5. OwnInv(M, R, F)'
    BY ONLY <2>p, <2>2, <2>3, <2>4, OwnStep
  <2> QED BY <2>5 DEF OwnInv, In
<1> QED BY <1>3, <1>4, <1>5, <1>6, SharedStep

LEMMA SearchCasInv ==
  ASSUME NEW L, NEW R, NEW sq, Inv(L, R, sq), NEW t \in Thread, SearchCas(t)
  PROVE  \E M : M = Left(L, reg[t].curr, reg[t].next) /\ Inv(M, R, sq)'
<1> PICK r, c, n, m : /\ r = reg[t] /\ c = r.curr /\ n = r.next /\ m = r.tmp
  OBVIOUS
<1> PICK z : z = [r EXCEPT !.tmp = Null]
  OBVIOUS
<1> PICK M : M = Left(L, c, n)
  OBVIOUS
<1>1. pc[t] = "s_cas" /\ pc[t] \in Marking /\ pc[t] \in Searching
  BY DEF SearchCas, Marking, Searching
<1>2. /\ r \in Reg /\ ArgOk(r) /\ Seeks(R, r) /\ Between(R, r)
      /\ succ[n].mark = MARKED
  BY <1>1, SearchFacts, MarkingFacts
<1>3. c \in R /\ n \in R /\ m = succ[n].node
  BY <1>1, <1>2 DEF Between, Inv, RegOk
<1>4. /\ z \in Reg /\ z.op = r.op /\ z.arg = r.arg /\ z.key = r.key /\ z.v = r.v
      /\ z.ret = r.ret /\ z.node = r.node /\ z.curr = r.curr /\ z.next = r.next
  BY <1>2, NodeFacts DEF Reg
<1>5. Unlinks(c, n, m)
  BY DEF SearchCas, Unlinks
<1>p. pc' = [pc EXCEPT ![t] = "s_reload"] /\ stack' = stack
  BY DEF SearchCas, Goto
<1>6. reg' = [reg EXCEPT ![t] = z]
  BY DEF SearchCas
<1>7. /\ TypeInv /\ OwnInv(L, R, In(sq)) /\ stack[t] = <<>>
  BY <1>1 DEF Inv, StackOk, Helping
<1>8. stack' = [stack EXCEPT ![t] = <<>>] /\ <<>> \in Seq(HelpFrame)
  BY <1>p, <1>7 DEF TypeInv
<1>9. r.op = "insert" => r.node \notin R
  BY <1>7 DEF OwnInv
<1>10. RegOk(M, R, "s_reload", z)'
  <2>1. Seeks(R, z) /\ Between(R, z) /\ ArgOk(z)
    BY <1>2, <1>4, SeeksKept DEF Between, ArgOk
  <2>2. "s_reload" \in Searching /\ "s_reload" \notin Marking
    BY DEF Searching, Marking
  <2>3. RegOk(L, R, "s_reload", z)
    BY <2>1, <2>2, SearchingOk
  <2> PICK P : P = Node \ R
    OBVIOUS
  <2>4. P \in SUBSET (Node \ R)
    OBVIOUS
  <2>5. Stable(L, R, P, M, R)
    BY <1>2, <1>3, <1>5, <2>4, UnlinkFacts
  <2>6. z.op = "insert" /\ z.node \in Node => z.node \in P
    BY <1>4, <1>9
  <2> QED BY <2>3, <2>5, <2>6, RegStable
<1>11. StackOk(M, R, "s_reload", <<>>, z)'
  BY DEF StackOk, FramesOk, Helping
<1>12. OwnedOf("s_reload", <<>>, z) = OwnedOf(pc[t], stack[t], reg[t])
  BY <1>1, <1>4, <1>7 DEF OwnedOf
<1>13. "s_reload" \in Label /\ (z.op = "insert" => z.node \notin R)
  BY <1>4, <1>9 DEF Label
<1>14. Unflags(stack[t], <<>>, c, n)
  BY <1>7 DEF Flags, Unflags
<1>15. Inv(M, R, sq)'
  <2>1. /\ Inv(L, R, sq) /\ M = Left(L, c, n) /\ t \in Thread
        /\ pc' = [pc EXCEPT ![t] = "s_reload"] /\ succ[n].mark = MARKED
    BY <1>2, <1>p
  <2> QED BY ONLY <1>3, <1>4, <1>5, <2>1, <1>6, <1>8, <1>10, <1>11, <1>12,
                  <1>13, <1>14, UnlinkStep
<1> QED BY <1>15

\* help_flagged returns: the locals of the call, its place, and its frames.
Resumed(L, R, t, l, r, s) ==
  /\ pc' = [pc EXCEPT ![t] = l] /\ reg' = [reg EXCEPT ![t] = r]
  /\ stack' = [stack EXCEPT ![t] = s]
  /\ OwnedOf(l, s, r) = OwnedOf(pc[t], stack[t], reg[t])
  /\ r.op = "insert" => r.node \notin R
  /\ \/ l = "d_copy"
     \/ RegOk(L, R, l, r) /\ StackOk(L, R, l, s, r) /\ l # "d_free"
  /\ l = "d_copy" =>
       /\ s = <<>> /\ r.op = "delete" /\ ArgOk(r)
       /\ r.node \in R /\ r.node = stack[t][1].del
       /\ r.node \in L => Leads(stack[t][1].prev, r.node, FLAGGED)
  /\ Unflags(stack[t], s, stack[t][1].prev, stack[t][1].del)

LEMMA ResumeFacts ==
  ASSUME NEW L, NEW R, NEW sq, Inv(L, R, sq), NEW t \in Thread, Resume(t),
         pc[t] = "h_cas"
  PROVE  \E l \in Label, r \in Reg, s \in Seq(HelpFrame) :
           Resumed(L, R, t, l, r, s)
<1> PICK r, s : r = reg[t] /\ s = stack[t]
  OBVIOUS
<1>1. pc[t] \in Helping /\ pc[t] # "h_back" /\ TypeInv /\ OwnInv(L, R, In(sq))
  BY DEF Helping, Inv
<1>2. /\ r \in Reg /\ ArgOk(r) /\ Behind(R, r) /\ (Mine(r) \/ Target(R, r))
      /\ s \in Seq(HelpFrame) /\ s # <<>> /\ FramesOk(R, s, FALSE)
      /\ Len(s) \in Nat /\ Len(s) >= 1
      /\ OuterOk(L, s[Len(s)], r) /\ s[1] \in HelpFrame
  BY <1>1, HelpFacts
<1> PICK z, f : z = Tail(s) /\ f = s[1]
  OBVIOUS
<1>3. /\ z \in Seq(HelpFrame) /\ Len(z) = Len(s) - 1
      /\ z = <<>> <=> Len(s) = 1
      /\ \A i \in 1 .. Len(s) - 1 : z[i] = s[i + 1]
  BY <1>2, Popped
<1>4. stack' = [stack EXCEPT ![t] = z] /\ Top1(t) = f
  BY DEF Resume, Top1
<1>5. r.op = "insert" => r.node \notin R
  BY <1>1 DEF OwnInv
<1>6. CASE Len(s) > 1
  <2>1. f.ret = "h_test" /\ z # <<>>
    BY <1>2, <1>3, <1>6 DEF FramesOk
  <2>2. pc' = [pc EXCEPT ![t] = "h_test"] /\ reg' = [reg EXCEPT ![t] = r]
    BY <1>1, <1>4, <2>1 DEF Resume, Goto, TypeInv
  <2>3. z[Len(z)] = s[Len(s)]
    BY <1>2, <1>3, <1>6
  <2>4. FramesOk(R, z, FALSE)
    <3> SUFFICES ASSUME NEW i \in 1 .. Len(z)
                 PROVE  /\ FrameOk(R, z[i])
                        /\ BackSet(R, z[i].del)
                        /\ i < Len(z) => z[i].ret = "h_test"
      BY DEF FramesOk
    <3>1. /\ i + 1 \in 1 .. Len(s) /\ z[i] = s[i + 1]
          /\ i < Len(z) => i + 1 < Len(s)
      BY <1>2, <1>3
    <3> QED BY <1>2, <3>1 DEF FramesOk
  <2>5. "h_test" \in Helping /\ "h_test" \in Label
    BY DEF Helping, Label
  <2>6. StackOk(L, R, "h_test", z, r)
    BY <1>2, <2>1, <2>3, <2>4, <2>5 DEF StackOk
  <2>7. RegOk(L, R, "h_test", r)
    BY <1>2, <2>5, HelpingOk
  <2>8. OwnedOf("h_test", z, r) = OwnedOf(pc[t], s, r)
    BY <1>2, <2>1, <2>3 DEF OwnedOf
  <2>9. Unflags(s, z, f.prev, f.del)
    BY <2>1, <2>3 DEF Flags, Unflags
  <2>10. Resumed(L, R, t, "h_test", r, z)
    BY <1>4, <1>5, <2>2, <2>6, <2>7, <2>8, <2>9 DEF Resumed
  <2> QED BY <1>2, <1>3, <2>5, <2>10
<1>7. CASE Len(s) = 1
  <2>1. z = <<>> /\ OuterOk(L, f, r) /\ s[Len(s)] = f
    BY <1>2, <1>3, <1>7
  <2>2. Unflags(s, z, f.prev, f.del)
    BY <2>1 DEF Flags, Unflags
  <2>3. CASE f.ret \in {"i_search", "i_back"}
    <3> PICK l : l = f.ret
      OBVIOUS
    <3>1. pc' = [pc EXCEPT ![t] = l] /\ reg' = [reg EXCEPT ![t] = r]
      BY <1>1, <1>4, <2>3 DEF Resume, Goto, TypeInv
    <3>2. l \in Linking /\ l \notin {"i_load", "i_cas"} /\ l \in Label
          /\ r.op = "insert" /\ l \notin Helping
          /\ l \notin {"d_copy", "d_free"}
      BY <2>1, <2>3 DEF OuterOk, Linking, Label, Helping
    <3>3. RegOk(L, R, l, r)
      BY <1>2, <3>2, LinkingOk DEF Target
    <3>4. StackOk(L, R, l, z, r)
      BY <2>1, <3>2, PlainStack
    <3>5. OwnedOf(l, z, r) = OwnedOf(pc[t], s, r)
      BY <3>2 DEF OwnedOf
    <3>6. Resumed(L, R, t, l, r, z)
      BY <1>4, <1>5, <2>2, <3>1, <3>2, <3>3, <3>4, <3>5 DEF Resumed
    <3> QED BY <1>2, <1>3, <3>2, <3>6
  <2>4. CASE f.ret = "lost"
    <3> PICK y : y = [Idle EXCEPT !.out = "noent"]
      OBVIOUS
    <3>1. y \in Reg /\ y.op = "search" /\ y.node = Null
      BY ReturnFacts
    <3>2. pc' = [pc EXCEPT ![t] = "idle"] /\ reg' = [reg EXCEPT ![t] = y]
      BY <1>4, <2>4 DEF Resume, Return, Goto
    <3>3. RegOk(L, R, "idle", y)
      BY <3>1, IdleOk
    <3>4. StackOk(L, R, "idle", z, y)
      BY <2>1, PlainStack DEF Helping
    <3>5. r.op = "delete"
      BY <2>1, <2>4 DEF OuterOk
    <3>6. OwnedOf("idle", z, y) = OwnedOf(pc[t], s, r)
      BY <2>1, <2>4, <3>1, <3>5 DEF OwnedOf
    <3>7. "idle" \in Label
      BY DEF Label
    <3>8. Resumed(L, R, t, "idle", y, z)
      BY <1>4, <2>2, <3>1, <3>2, <3>3, <3>4, <3>6 DEF Resumed
    <3> QED BY <1>3, <3>1, <3>7, <3>8
  <2>5. CASE f.ret = "d_copy"
    <3>1. pc' = [pc EXCEPT ![t] = "d_copy"] /\ reg' = [reg EXCEPT ![t] = r]
      BY <1>1, <1>4, <2>5 DEF Resume, Goto, TypeInv
    <3>2. /\ r.op = "delete" /\ r.node = f.del
          /\ r.node \in L => Leads(f.prev, r.node, FLAGGED)
      BY <2>1, <2>5 DEF OuterOk
    <3>3. r.node \in R
      BY <1>2, <3>2 DEF Mine, Target
    <3>4. OwnedOf("d_copy", z, r) = OwnedOf(pc[t], s, r)
      BY <1>2, <2>1, <2>5 DEF OwnedOf
    <3>5. "d_copy" \in Label
      BY DEF Label
    <3>6. Resumed(L, R, t, "d_copy", r, z)
      BY <1>2, <1>4, <1>5, <2>1, <2>2, <3>1, <3>2, <3>3, <3>4 DEF Resumed
    <3> QED BY <1>2, <1>3, <3>5, <3>6
  <2>6. f.ret \in {"i_search", "i_back", "lost", "d_copy"}
    BY <2>1 DEF OuterOk
  <2> QED BY <2>3, <2>4, <2>5, <2>6
<1>8. Len(s) > 1 \/ Len(s) = 1
  <2>1. PICK k \in Nat : k = Len(s)
    BY <1>2
  <2>2. k >= 1
    BY <1>2, <2>1
  <2>3. k > 1 \/ k = 1
    BY ONLY <2>2, k \in Nat
  <2> QED BY <2>1, <2>3
<1> QED BY <1>6, <1>7, <1>8

LEMMA HelpCasInv ==
  ASSUME NEW L, NEW R, NEW sq, Inv(L, R, sq), NEW t \in Thread, HelpCas(t)
  PROVE  \E M : /\ M = Left(L, stack[t][1].prev, stack[t][1].del)
                /\ Inv(M, R, sq)'
<1>1. pc[t] = "h_cas" /\ pc[t] \in Helping /\ Resume(t)
  BY DEF HelpCas, Helping
<1> PICK f, p, n, m : f = stack[t][1] /\ p = f.prev /\ n = f.del /\ m = f.next
  OBVIOUS
<1> PICK M : M = Left(L, p, n)
  OBVIOUS
<1>2. p \in R /\ n \in R
  BY <1>1, HelpFacts
<1>3. succ[n].mark = MARKED /\ m = succ[n].node
  BY <1>1 DEF Inv, StackOk
<1>4. Unlinks(p, n, m)
  BY DEF HelpCas, Top1, Unlinks
<1>r. PICK l \in Label, r \in Reg, s \in Seq(HelpFrame) :
             Resumed(L, R, t, l, r, s)
  BY <1>1, ResumeFacts
<1>5. /\ pc' = [pc EXCEPT ![t] = l] /\ reg' = [reg EXCEPT ![t] = r]
      /\ stack' = [stack EXCEPT ![t] = s]
      /\ OwnedOf(l, s, r) = OwnedOf(pc[t], stack[t], reg[t])
      /\ r.op = "insert" => r.node \notin R
      /\ \/ l = "d_copy"
         \/ RegOk(L, R, l, r) /\ StackOk(L, R, l, s, r) /\ l # "d_free"
      /\ l = "d_copy" =>
           /\ s = <<>> /\ r.op = "delete" /\ ArgOk(r)
           /\ r.node \in R /\ r.node = n
           /\ r.node \in L => Leads(p, r.node, FLAGGED)
      /\ Unflags(stack[t], s, p, n)
  BY <1>r DEF Resumed
<1> PICK P : P = Node \ R
  OBVIOUS
<1>6. P \in SUBSET (Node \ R)
  OBVIOUS
<1>i. Inv(L, R, sq) /\ M = Left(L, p, n) /\ t \in Thread
  OBVIOUS
<1>7. Stable(L, R, P, M, R) /\ M \subseteq L
  BY ONLY <1>i, <1>2, <1>3, <1>4, <1>6, UnlinkFacts
<1>8. RegOk(M, R, l, r)' /\ StackOk(M, R, l, s, r)'
  <2>1. CASE l # "d_copy"
    <3>1. r.op = "insert" /\ r.node \in Node => r.node \in P
      BY <1>5
    <3>2. RegOk(L, R, l, r) /\ StackOk(L, R, l, s, r) /\ l # "d_free"
      BY <1>5, <2>1
    <3>3. RegOk(M, R, l, r)'
      BY <1>7, <3>1, <3>2, RegStable
    <3>4. StackOk(M, R, l, s, r)'
      BY <1>7, <3>2, StackStable
    <3> QED BY <3>3, <3>4
  <2>2. CASE l = "d_copy"
    <3>1. /\ s = <<>> /\ r.op = "delete" /\ ArgOk(r)
          /\ r.node \in R /\ r.node = n
          /\ r.node \in L => Leads(p, r.node, FLAGGED)
      BY <1>5, <2>2
    <3>2. r.node \in Node \ M
      BY <1>7, <1>i, <3>1 DEF Inv, RefInv, Left
    <3>3. RegOk(M, R, l, r)'
      BY <2>2, <3>1, <3>2 DEF RegOk, Searching, Marking, Found, Linking,
                              Flagging, Helping, ArgOk
    <3>4. StackOk(M, R, l, s, r)'
      BY <2>2, <3>1 DEF StackOk, FramesOk, Helping
    <3> QED BY <3>3, <3>4
  <2> QED BY <2>1, <2>2
<1>9. Inv(M, R, sq)'
  <2>1. l \in Label /\ r \in Reg /\ s \in Seq(HelpFrame)
    OBVIOUS
  <2>2. Unflags(stack[t], s, p, n)
    BY <1>5
  <2>3. /\ pc' = [pc EXCEPT ![t] = l] /\ reg' = [reg EXCEPT ![t] = r]
        /\ stack' = [stack EXCEPT ![t] = s]
        /\ OwnedOf(l, s, r) = OwnedOf(pc[t], stack[t], reg[t])
        /\ r.op = "insert" => r.node \notin R
    BY <1>5
  <2> QED BY ONLY <1>i, <1>2, <1>3, <1>4, <1>8, <2>1, <2>2, <2>3, UnlinkStep
<1> QED BY <1>9
-----------------------------------------------------------------------------
\* A step gives p, which is in the list and not marked, the mark k.
Remarks(L, R, p, k) ==
  /\ p \in L /\ p # TailN /\ succ[p].mark = UNMARKED
  /\ k \in {MARKED, FLAGGED}
  /\ k = MARKED => key[p] \in Key /\ BackSet(R, p)
  /\ succ' = [succ EXCEPT ![p] = Ref(succ[p].node, k)]
  /\ UNCHANGED <<back, key, free>>

LEMMA MarkFlagFacts ==
  ASSUME NEW L, NEW R, NEW sq, Inv(L, R, sq), NEW p, NEW k,
         Remarks(L, R, p, k), NEW P \in SUBSET (Node \ R)
  PROVE  /\ succ' \in [Node -> Link]
         /\ succ'[p].node = succ[p].node /\ succ'[p].mark = k
         /\ ListInv(L)' /\ RefInv(L, R)' /\ PoolInv(sq)'
         /\ Stable(L, R, P, L, R)
<1>1. /\ TypeInv /\ ListInv(L) /\ RefInv(L, R) /\ PoolInv(sq)
      /\ OwnInv(L, R, In(sq))
  BY DEF Inv
<1>3. /\ back' = back /\ key' = key /\ free' = free
      /\ p \in L /\ p # TailN /\ succ[p].mark = UNMARKED
      /\ k \in {MARKED, FLAGGED}
      /\ k = MARKED => key[p] \in Key /\ BackSet(R, p)
      /\ succ' = [succ EXCEPT ![p] = Ref(succ[p].node, k)]
  BY DEF Remarks
<1>2. /\ p \in Node /\ p \in R /\ succ[p].node \in Maybe /\ k \in 0 .. 2
  BY <1>1, <1>3, TypeFacts, NodeFacts DEF RefInv
<1>4. /\ \A q \in Node : q # p => succ'[q] = succ[q]
      /\ succ'[p] = Ref(succ[p].node, k) /\ succ \in [Node -> Link]
  BY <1>1, <1>2, <1>3 DEF TypeInv
<1>5. succ'[p].node = succ[p].node /\ succ'[p].mark = k
  BY <1>2, <1>4, RefFacts
<1>6. succ' \in [Node -> Link]
  <2>1. Ref(succ[p].node, k) \in Link
    BY <1>2, RefFacts
  <2> QED BY <1>3, <1>4, <2>1
<1>7. /\ \A q \in R : /\ q # p => succ'[q] = succ[q]
                      /\ succ'[q].node = succ[q].node
      /\ R \subseteq Node /\ L \subseteq R
  BY <1>1, <1>4, <1>5 DEF RefInv
<1>8. ListInv(L)'
  <2>1. succ'[TailN] = succ[TailN]
    BY <1>3, <1>4, NodeFacts
  <2>2. /\ Leads(TailN, Null, UNMARKED)'
        /\ HeadN \in L /\ TailN \in L /\ L \subseteq Node
        /\ key'[HeadN] = Bottom /\ key'[TailN] = Top
        /\ \A m, n \in L : key'[m] = key'[n] => m = n
    BY <1>1, <1>3, <2>1 DEF ListInv, Leads
  <2>3. \A m \in L \ {TailN} :
          succ'[m].node \in L /\ key'[m] < key'[succ'[m].node]
    BY <1>1, <1>3, <1>7 DEF ListInv
  <2>4. \A m \in L \ {TailN}, n \in L :
          key'[m] < key'[n] => key'[succ'[m].node] <= key'[n]
    BY <1>1, <1>3, <1>7 DEF ListInv
  <2> QED BY <2>2, <2>3, <2>4 DEF ListInv
<1>9. RefInv(L, R)'
  <2>1. /\ L \subseteq R /\ R \subseteq Node
        /\ \A n \in R \ {HeadN, TailN} : key'[n] \in Key
    BY <1>1, <1>3 DEF RefInv
  <2>2. \A n \in R \ {TailN} :
          succ'[n].node \in R /\ key'[n] < key'[succ'[n].node]
    BY <1>1, <1>3, <1>7 DEF RefInv
  <2>3. ASSUME NEW n \in R, succ'[n].mark = MARKED
        PROVE  key[n] \in Key /\ back[n] \in R /\ key[back[n]] < key[n]
    <3>1. CASE n = p
      BY <1>3, <1>5, <2>3, <3>1 DEF BackSet
    <3>2. CASE n # p
      BY <1>1, <1>7, <2>3, <3>2 DEF RefInv
    <3> QED BY <3>1, <3>2
  <2>4. \A n \in R \ L : succ'[n].mark = MARKED
    BY <1>1, <1>3, <1>7 DEF RefInv
  <2> QED BY <1>3, <2>1, <2>2, <2>3, <2>4 DEF RefInv
<1>10. PoolInv(sq)'
  <2>1. In(sq) \subseteq Node /\ p \notin In(sq)
    BY <1>1, <1>2 DEF OwnInv, PoolInv, In
  <2>2. \A q \in In(sq) : succ'[q] = succ[q]
    BY <1>4, <2>1
  <2> QED BY <1>1, <1>3, <2>2, PoolKept
<1>11. Stable(L, R, P, L, R)
  <2>1. \A n \in R : succ[n].mark = MARKED => succ'[n] = succ[n]
    BY <1>3, <1>7
  <2>2. \A q, d \in R : Leads(q, d, FLAGGED) => Leads(q, d, FLAGGED)'
    BY <1>3, <1>7 DEF Leads
  <2>3. \A d \in R : BackSet(R, d) => BackSet(R, d)'
    BY <1>3 DEF BackSet
  <2>4. \A n \in P : succ'[n] = succ[n] /\ key'[n] = key[n]
    BY <1>2, <1>3, <1>4
  <2>5. \A n \in R \cup P : n \in L => n \in L
    OBVIOUS
  <2>6. \A n \in R : key'[n] = key[n]
    BY <1>3
  <2> QED BY <2>1, <2>2, <2>3, <2>4, <2>6 DEF Stable
<1> QED BY <1>4, <1>5, <1>6, <1>8, <1>9, <1>10, <1>11

LEMMA TryMarkCasInv ==
  ASSUME NEW L, NEW R, NEW sq, Inv(L, R, sq), NEW t \in Thread, TryMarkCas(t)
  PROVE  Inv(L, R, sq)'
<1> PICK r, s, d, m : /\ r = reg[t] /\ s = stack[t] /\ d = s[1].del
                      /\ m = s[1].next
  OBVIOUS
<1>1. pc[t] = "h_mark" /\ pc[t] \in Helping /\ pc[t] # "h_back"
  BY DEF TryMarkCas, Helping
<1>2. /\ r \in Reg /\ ArgOk(r) /\ Behind(R, r) /\ (Mine(r) \/ Target(R, r))
      /\ s \in Seq(HelpFrame) /\ s # <<>> /\ FramesOk(R, s, FALSE)
      /\ OuterOk(L, s[Len(s)], r) /\ FrameOk(R, s[1])
      /\ d \in R /\ d \in Node /\ s[1].prev \in R /\ s[1] \in HelpFrame
      /\ BackSet(R, d) /\ succ[d] \in Link
  BY <1>1, HelpFacts
<1>3. /\ succ' = IF succ[d] = Ref(m, UNMARKED)
                 THEN [succ EXCEPT ![d] = Ref(m, MARKED)] ELSE succ
      /\ pc' = [pc EXCEPT ![t] = "h_result"]
      /\ UNCHANGED <<back, key, val, free, reg, stack, calls>>
  BY DEF TryMarkCas, Top1, Goto
<1>4. /\ TypeInv /\ ListInv(L) /\ RefInv(L, R) /\ FlagInv(L)
      /\ OwnInv(L, R, In(sq))
  BY DEF Inv
<1>5. m \in Maybe
  BY <1>2 DEF HelpFrame
<1>6. "h_result" \in Helping /\ "h_result" \in Label
  BY DEF Helping, Label
<1>7. CASE succ[d] # Ref(m, UNMARKED)
  <2>1. UNCHANGED <<nodes, reg, calls>> /\ Goto(t, "h_result")
    BY <1>3, <1>7 DEF nodes, Goto
  <2>2. stack' = [stack EXCEPT ![t] = s] /\ Alike(stack[t], s)
    BY <1>3, <1>4 DEF TypeInv, Alike
  <2> QED BY <1>1, <1>2, <1>6, <2>1, <2>2, HelpLocal
<1>8. CASE succ[d] = Ref(m, UNMARKED)
  <2>1. succ[d].node = m /\ succ[d].mark = UNMARKED
    BY <1>2, <1>5, <1>8, RefFacts
  <2>2. /\ d \in L /\ key[d] \in Key /\ d # TailN
        /\ Leads(s[1].prev, d, FLAGGED)
    <3>1. d \in L
      BY <1>2, <1>4, <2>1 DEF RefInv
    <3>2. /\ key[d] \in Key
          /\ succ[d].mark = MARKED \/ Leads(s[1].prev, d, FLAGGED)
      BY <1>2 DEF FrameOk
    <3>3. d # TailN
      BY <1>4, <3>2, TopFacts DEF ListInv
    <3> QED BY <2>1, <3>1, <3>2, <3>3
  <2>3. s[1].prev \in L
    BY <1>2, <1>4, <2>2 DEF RefInv, Leads
  <2> PICK P : P = Node \ R
    OBVIOUS
  <2> PICK k : k = MARKED
    OBVIOUS
  <2>4. Remarks(L, R, d, k) /\ P \in SUBSET (Node \ R) /\ Inv(L, R, sq)
    BY <1>2, <1>3, <1>8, <2>1, <2>2 DEF Remarks
  <2>5. /\ succ' \in [Node -> Link]
        /\ succ'[d].node = succ[d].node /\ succ'[d].mark = k
        /\ ListInv(L)' /\ RefInv(L, R)' /\ PoolInv(sq)'
        /\ Stable(L, R, P, L, R)
    BY ONLY <2>4, MarkFlagFacts
  <2>a. \A q \in Node : q # d => succ'[q] = succ[q]
    BY <1>4, <2>4 DEF TypeInv, Remarks
  <2>6. FlagInv(L)'
    <3>1. ASSUME NEW q \in L, succ'[q].mark = FLAGGED
          PROVE  \E u \in Thread : Flags(stack'[u], q, succ'[q].node)
      <4>1. q # d /\ q \in Node
        BY <1>4, <2>5, <3>1 DEF ListInv
      <4>2. succ'[q] = succ[q]
        BY <2>a, <4>1
      <4> QED BY <1>3, <1>4, <3>1, <4>2 DEF FlagInv
    <3>2. ASSUME NEW n \in L, succ'[n].mark = MARKED
          PROVE  \E q \in L : Leads(q, n, FLAGGED)'
      <4>1. \E q \in L : Leads(q, n, FLAGGED)
        <5>1. CASE n = d
          BY <2>2, <2>3, <5>1
        <5>2. CASE n # d
          <6>1. succ'[n] = succ[n]
            BY <1>4, <2>a, <5>2 DEF ListInv
          <6> QED BY <1>4, <3>2, <6>1 DEF FlagInv
        <5> QED BY <5>1, <5>2
      <4>2. PICK q \in L : Leads(q, n, FLAGGED)
        BY <4>1
      <4>3. q # d /\ q \in Node
        BY <1>4, <2>1, <4>2 DEF ListInv, Leads
      <4>4. Leads(q, n, FLAGGED)'
        BY <2>a, <4>2, <4>3 DEF Leads
      <4> QED BY <4>4
    <3> QED BY <3>1, <3>2 DEF FlagInv
  <2>7. TypeInv'
    BY <1>3, <1>4, <1>6, <2>5 DEF TypeInv
  <2>8. r.op = "insert" => r.node \notin R
    BY <1>4 DEF OwnInv
  <2>9. RegOk(L, R, "h_result", r)'
    <3>1. RegOk(L, R, "h_result", r)
      BY <1>2, <1>6, HelpingOk
    <3>2. r.op = "insert" /\ r.node \in Node => r.node \in P
      BY <2>8
    <3> QED BY <2>5, <3>1, <3>2, RegStable
  <2>10. StackOk(L, R, "h_result", s, r)'
    <3>1. StackOk(L, R, "h_result", s, r)
      BY <1>2, <1>6 DEF StackOk
    <3> QED BY <1>2, <2>5, <3>1, StackStable
  <2>11. /\ pc' = [pc EXCEPT ![t] = "h_result"] /\ reg' = [reg EXCEPT ![t] = r]
         /\ stack' = [stack EXCEPT ![t] = s] /\ t \in Thread
    BY <1>3, <1>4 DEF TypeInv
  <2>12. OwnedOf("h_result", s, r) = OwnedOf(pc[t], stack[t], reg[t])
    BY <1>1 DEF OwnedOf
  <2>13. OwnInv(L, R, In(sq))'
    BY ONLY <2>4, <2>8, <2>11, <2>12, OwnKept
  <2> PICK Q : Q = Others(R, sq, t)
    OBVIOUS
  <2>14. Stable(L, R, Q, L, R)
    <3>1. Q \in SUBSET (Node \ R)
      BY DEF Others
    <3> QED BY ONLY <2>4, <3>1, MarkFlagFacts
  <2> QED BY <1>2, <1>6, <2>5, <2>6, <2>7, <2>9, <2>10, <2>11, <2>13, <2>14,
             SharedStep
<1> QED BY <1>7, <1>8

\* try_flag: the call has flagged prev, and owns the node from now on.
LEMMA FlagCasInv ==
  ASSUME NEW L, NEW R, NEW sq, Inv(L, R, sq), NEW t \in Thread, FlagCas(t)
  PROVE  Inv(L, R, sq)'
<1> PICK r, p, n : r = reg[t] /\ p = r.prev /\ n = r.node
  OBVIOUS
<1>1. pc[t] \in Flagging /\ pc[t] = "f_cas"
  BY DEF FlagCas, Flagging
<1>2. /\ Target(R, r) /\ pc[t] \in Plain /\ succ[p] \in Link /\ r \in Reg
      /\ ArgOk(r) /\ Behind(R, r) /\ stack[t] = <<>> /\ p \in R /\ p # TailN
      /\ p \in Node
  BY <1>1, PrevFacts
<1>3. /\ TypeInv /\ ListInv(L) /\ RefInv(L, R) /\ FlagInv(L)
      /\ OwnInv(L, R, In(sq))
  BY DEF Inv
<1>4. /\ n \in R /\ n \in Node /\ n \in Maybe /\ key[n] = r.arg
      /\ r.op = "delete" /\ key[p] < key[n] /\ key[n] \in Key
  BY <1>2, <1>3, NodeFacts DEF Target, Behind, ArgOk, RefInv
<1>5. CASE succ[p] # Ref(n, UNMARKED)
  <2>1. /\ Goto(t, "f_result") /\ UNCHANGED <<nodes, reg, stack, calls>>
    BY <1>5 DEF FlagCas, nodes
  <2>2. "f_result" \in Flagging /\ "f_result" \in Plain
    BY PlainFacts DEF Flagging
  <2>3. RegOk(L, R, "f_result", r)
    BY <1>2, <2>2, FlaggingOk
  <2> QED BY <1>2, <2>1, <2>2, <2>3, SameReg
<1>6. CASE succ[p] = Ref(n, UNMARKED)
  <2>1. succ[p].node = n /\ succ[p].mark = UNMARKED
    BY <1>4, <1>6, RefFacts
  <2>2. p \in L /\ n \in L
    BY <1>2, <1>3, <2>1 DEF RefInv, ListInv
  <2> PICK k, P : k = FLAGGED /\ P = Others(R, sq, t)
    OBVIOUS
  <2>3. UNCHANGED <<back, key, val, free, reg, calls>>
    BY <1>6 DEF FlagCas
  <2>4. Remarks(L, R, p, k) /\ P \in SUBSET (Node \ R) /\ Inv(L, R, sq)
    BY <1>2, <1>6, <2>1, <2>2 DEF FlagCas, Others, Remarks
  <2>5. /\ succ' \in [Node -> Link]
        /\ succ'[p].node = succ[p].node /\ succ'[p].mark = k
        /\ ListInv(L)' /\ RefInv(L, R)' /\ PoolInv(sq)'
        /\ Stable(L, R, P, L, R)
    BY ONLY <2>4, MarkFlagFacts
  <2>6. \A q \in Node : q # p => succ'[q] = succ[q]
    BY <1>3, <2>4 DEF TypeInv, Remarks
  <2> PICK f, s : f = Frame(p, n, "d_copy") /\ s = <<f>> \o <<>>
    OBVIOUS
  <2>7. f \in HelpFrame /\ f.prev = p /\ f.del = n /\ f.ret = "d_copy"
    BY <1>2, <1>4, FrameType
  <2>8. <<>> \in Seq(HelpFrame) /\ Len(<<>>) = 0
    OBVIOUS
  <2>9. s \in Seq(HelpFrame) /\ Len(s) = 1 /\ s # <<>> /\ s[1] = f
    BY <2>7, <2>8, Pushed
  <2>10. /\ stack' = [stack EXCEPT ![t] = s]
         /\ pc' = [pc EXCEPT ![t] = "h_back"]
    BY <1>2, <1>3, <1>6 DEF FlagCas, Help, Goto, TypeInv
  <2>11. reg' = [reg EXCEPT ![t] = r]
    BY <1>3, <2>3 DEF TypeInv
  <2>12. Flags(s, p, n)
    BY <2>7, <2>9 DEF Flags
  <2>13. FlagInv(L)'
    <3>1. ASSUME NEW q \in L, succ'[q].mark = FLAGGED
          PROVE  \E u \in Thread : Flags(stack'[u], q, succ'[q].node)
      <4>1. CASE q = p
        <5>1. stack'[t] = s
          BY <1>3, <2>10 DEF TypeInv
        <5> QED BY <2>1, <2>5, <2>12, <4>1, <5>1
      <4>2. CASE q # p
        <5>1. succ'[q] = succ[q]
          BY <1>3, <2>6, <4>2 DEF ListInv
        <5>2. PICK u \in Thread : Flags(stack[u], q, succ[q].node)
          BY <1>3, <3>1, <5>1 DEF FlagInv
        <5>3. u # t
          BY <1>2, <5>2 DEF Flags
        <5>4. stack'[u] = stack[u]
          BY <1>3, <2>10, <5>3 DEF TypeInv
        <5> QED BY <5>1, <5>2, <5>4
      <4> QED BY <4>1, <4>2
    <3>2. ASSUME NEW d \in L, succ'[d].mark = MARKED
          PROVE  \E q \in L : Leads(q, d, FLAGGED)'
      <4>1. d # p /\ d \in Node
        BY <1>3, <2>5, <3>2 DEF ListInv
      <4>2. PICK q \in L : Leads(q, d, FLAGGED)
        BY <1>3, <2>6, <3>2, <4>1 DEF FlagInv
      <4>3. q # p /\ q \in Node
        BY <1>3, <2>1, <4>2 DEF ListInv, Leads
      <4>4. Leads(q, d, FLAGGED)'
        BY <2>6, <4>2, <4>3 DEF Leads
      <4> QED BY <4>4
    <3> QED BY <3>1, <3>2 DEF FlagInv
  <2>14. TypeInv'
    BY <1>3, <2>3, <2>5, <2>9, <2>10 DEF TypeInv, Label
  <2>15. RegOk(L, R, "h_back", r)'
    <3>1. RegOk(L, R, "h_back", r)
      BY <1>2, HelpingOk DEF Helping
    <3> QED BY <1>4, <2>5, <3>1, RegStable
  <2>16. StackOk(L, R, "h_back", s, r)'
    <3>1. Leads(p, n, FLAGGED)'
      BY <2>1, <2>5 DEF Leads
    <3>2. FrameOk(R, f)'
      BY <1>2, <1>4, <2>3, <2>7, <3>1 DEF FrameOk
    <3>3. FramesOk(R, s, TRUE)'
      BY <2>9, <3>2 DEF FramesOk
    <3>4. OuterOk(L, s[Len(s)], r)'
      <4>1. s[Len(s)] = f /\ r.op = "delete" /\ n = r.node
        BY <1>4, <2>9
      <4> QED BY <2>7, <3>1, <4>1 DEF OuterOk
    <3> QED BY <2>9, <3>3, <3>4 DEF StackOk, Helping
  <2>17. OwnInv(L, R, In(sq))'
    <3> PICK F, O, l : /\ F = In(sq) /\ O = OwnedOf("h_back", s, r)
                       /\ l = "h_back"
      OBVIOUS
    <3>1. O = {n}
      BY <1>4, <2>7, <2>9, NodeFacts DEF OwnedOf
    <3>2. ASSUME NEW u \in Thread \ {t}
          PROVE  n \notin OwnedOf(pc[u], stack[u], reg[u])
      <4> PICK x, y : x = stack[u] /\ y = reg[u]
        OBVIOUS
      <4>1. RegOk(L, R, pc[u], y) /\ StackOk(L, R, pc[u], x, y)
        BY DEF Inv
      <4>2. ~ (pc[u] \in {"d_copy", "d_free"} /\ y.node = n)
        BY <2>2, <4>1 DEF RegOk
      <4>3. ~ (x # <<>> /\ x[Len(x)].ret = "d_copy" /\ y.node = n)
        <5>1. SUFFICES ASSUME x # <<>>, x[Len(x)].ret = "d_copy", y.node = n
                       PROVE  FALSE
          OBVIOUS
        <5> PICK g : g = x[Len(x)]
          OBVIOUS
        <5>2. FramesOk(R, x, pc[u] = "h_back") /\ Leads(g.prev, n, FLAGGED)
          BY <2>2, <4>1, <5>1 DEF StackOk, OuterOk
        <5>3. g.prev \in R
          <6>1. Len(x) \in 1 .. Len(x)
            BY <1>3, <5>1, EmptySeq DEF TypeInv
          <6> QED BY <5>2, <6>1 DEF FramesOk, FrameOk
        <5>4. g.prev \in L
          BY <1>3, <5>2, <5>3 DEF RefInv, Leads
        <5>5. g.prev # TailN /\ succ[g.prev].node = n
          BY <1>3, <5>2 DEF ListInv, Leads
        <5>6. g.prev = p
          BY <1>2, <1>3, <2>1, <2>2, <5>4, <5>5, PredUnique
        <5> QED BY <2>1, <5>2, <5>6 DEF Leads
      <4>4. ~ (y.op = "insert" /\ y.node = n)
        BY <1>3, <1>4 DEF OwnInv
      <4> QED BY <4>2, <4>3, <4>4 DEF OwnedOf
    <3>3. n \notin F /\ R \cap F = {}
      BY <1>3, <1>4 DEF OwnInv
    <3>4. ASSUME NEW u \in Thread \ {t}
          PROVE  /\ OwnedOf(pc[u], stack[u], reg[u]) \cap F = {}
                 /\ OwnedOf(pc[u], stack[u], reg[u]) \cap O = {}
                 /\ reg[u].op = "insert" => reg[u].node \notin R
      BY <1>3, <3>1, <3>2 DEF OwnInv
    <3>5. O \cap F = {}
      BY <3>1, <3>3
    <3>6. ASSUME NEW d \in Node \ (L \cup F)
          PROVE  \/ d \in O
                 \/ \E u \in Thread \ {t} :
                      d \in OwnedOf(pc[u], stack[u], reg[u])
      <4>1. PICK u \in Thread : d \in OwnedOf(pc[u], stack[u], reg[u])
        BY <1>3 DEF OwnInv
      <4>2. u # t
        BY <1>1, <1>2, <1>4, <4>1 DEF OwnedOf
      <4> QED BY <4>1, <4>2
    <3>7. /\ t \in Thread /\ Inv(L, R, sq) /\ O = OwnedOf(l, s, r)
          /\ pc' = [pc EXCEPT ![t] = l] /\ stack' = [stack EXCEPT ![t] = s]
          /\ (r.op = "insert" => r.node \notin R)
      BY <1>4, <2>10
    <3>8. OwnInv(L, R, F)'
      BY ONLY <2>11, <3>3, <3>4, <3>5, <3>6, <3>7, OwnStep
    <3> QED BY <3>8 DEF OwnInv, In
  <2>18. "h_back" \in Label
    BY DEF Label
  <2> QED BY <1>2, <2>5, <2>9, <2>10, <2>11, <2>13, <2>14, <2>15, <2>16, <2>17,
             <2>18, SharedStep
<1> QED BY <1>5, <1>6
-----------------------------------------------------------------------------
\* The function of Path.
Steps == 0 .. Capacity + 3

Walks(w) ==
  w = [s \in Maybe \X Steps |->
         IF s[1] = Null \/ s[2] = 0
         THEN <<>> ELSE <<s[1]>> \o w[<<succ[s[1]].node, s[2] - 1>>]]

WalksTo(w, k) ==
  \A x \in Maybe, n \in 0 .. k :
    w[<<x, n>>] = IF x = Null \/ n = 0 THEN <<>>
                                   ELSE <<x>> \o w[<<succ[x].node, n - 1>>]

LEMMA WalkNext ==
  ASSUME TypeInv, NEW w, NEW k \in Nat, k < Capacity + 3, WalksTo(w, k)
  PROVE  \E g : WalksTo(g, k + 1)
<1> DEFINE g == [s \in Maybe \X Steps |->
                   IF s[1] = Null \/ s[2] = 0
                   THEN <<>> ELSE <<s[1]>> \o w[<<succ[s[1]].node, s[2] - 1>>]]
<1>1. Capacity \in Nat /\ k + 1 \in Steps /\ 0 .. k + 1 \subseteq Steps
  BY NodeFacts DEF Steps
<1>2. \A x \in Maybe, n \in Steps :
        g[<<x, n>>] = IF x = Null \/ n = 0 THEN <<>>
                                       ELSE <<x>> \o w[<<succ[x].node, n - 1>>]
  OBVIOUS
<1> HIDE DEF g
<1>3. \A x \in Maybe, n \in 0 .. k : g[<<x, n>>] = w[<<x, n>>]
  <2> SUFFICES ASSUME NEW x \in Maybe, NEW n \in 0 .. k
               PROVE  g[<<x, n>>] = w[<<x, n>>]
    OBVIOUS
  <2>1. n \in Steps
    BY <1>1
  <2> PICK e : e = IF x = Null \/ n = 0 THEN <<>>
                                      ELSE <<x>> \o w[<<succ[x].node, n - 1>>]
    OBVIOUS
  <2>2. w[<<x, n>>] = e
    BY DEF WalksTo
  <2>3. g[<<x, n>>] = e
    BY <1>2, <2>1
  <2> QED BY <2>2, <2>3
<1>4. ASSUME NEW x \in Maybe, NEW n \in 0 .. k + 1, x # Null, n # 0
      PROVE  g[<<x, n>>] = <<x>> \o g[<<succ[x].node, n - 1>>]
  <2>1. succ[x].node \in Maybe
    BY <1>4, TypeFacts DEF Maybe
  <2>2. n - 1 \in 0 .. k /\ n \in Steps
    BY <1>1, <1>4
  <2>3. g[<<x, n>>] = <<x>> \o w[<<succ[x].node, n - 1>>]
    BY <1>2, <1>4, <2>2
  <2>4. g[<<succ[x].node, n - 1>>] = w[<<succ[x].node, n - 1>>]
    BY <1>3, <2>1, <2>2
  <2> QED BY <2>3, <2>4
<1>5. ASSUME NEW x \in Maybe, NEW n \in 0 .. k + 1, x = Null \/ n = 0
      PROVE  g[<<x, n>>] = <<>>
  BY <1>1, <1>2, <1>5
<1>6. WalksTo(g, k + 1)
  BY <1>4, <1>5 DEF WalksTo
<1> QED BY <1>6

LEMMA WalksExist ==
  ASSUME TypeInv
  PROVE  \E w : Walks(w)
<1> DEFINE Bad == {k \in Steps : ~ \E w : WalksTo(w, k)}
<1>1. Capacity \in Nat /\ Steps \subseteq Nat /\ Capacity + 3 \in Steps
  BY NodeFacts DEF Steps
<1>2. Bad = {}
  <2>1. SUFFICES ASSUME Bad # {} PROVE FALSE
    OBVIOUS
  <2>2. Bad \in SUBSET Nat
    BY <1>1
  <2>3. PICK k \in Bad : \A j \in Bad : k <= j
    <3> HIDE DEF Bad
    <3> QED BY <2>1, <2>2, NatMin
  <2>4. k \in Nat /\ k <= Capacity + 3 /\ k \in Steps
    BY <1>1 DEF Steps
  <2>5. CASE k = 0
    <3>1. WalksTo([z \in Maybe \X Steps |-> <<>>], 0)
      <4> DEFINE g == [z \in Maybe \X Steps |-> <<>>]
      <4>1. \A x \in Maybe, n \in 0 .. 0 : n = 0 /\ <<x, n>> \in Maybe \X Steps
        BY <1>1 DEF Steps
      <4>2. \A x \in Maybe, n \in 0 .. 0 : n = 0 /\ g[<<x, n>>] = <<>>
        BY <4>1
      <4> HIDE DEF g
      <4>3. WalksTo(g, 0)
        BY <4>2 DEF WalksTo
      <4> QED BY <4>3 DEF g
    <3> QED BY <2>5, <3>1
  <2>6. CASE k # 0
    <3>1. k - 1 \in Steps /\ k - 1 \in Nat /\ ~ (k <= k - 1)
          /\ k - 1 < Capacity + 3 /\ (k - 1) + 1 = k
      BY <1>1, <2>4, <2>6 DEF Steps
    <3>2. k - 1 \notin Bad
      <4> HIDE DEF Bad
      <4> QED BY <2>3, <3>1
    <3>3. PICK w : WalksTo(w, k - 1)
      BY <3>1, <3>2
    <3> PICK j : j = k - 1
      OBVIOUS
    <3>4. \E g : WalksTo(g, j + 1)
      BY <3>1, <3>3, WalkNext
    <3>5. j + 1 = k
      BY <3>1
    <3> QED BY <3>4, <3>5
  <2> QED BY <2>5, <2>6
<1>3. PICK w : WalksTo(w, Capacity + 3)
  BY <1>1, <1>2
<1> DEFINE g == [s \in Maybe \X Steps |-> w[s]]
<1>4. \A x \in Maybe, n \in Steps : g[<<x, n>>] = w[<<x, n>>]
  OBVIOUS
<1> DEFINE h == [s \in Maybe \X Steps |->
                   IF s[1] = Null \/ s[2] = 0
                   THEN <<>> ELSE <<s[1]>> \o g[<<succ[s[1]].node, s[2] - 1>>]]
<1>5. g = h
  <2>1. ASSUME NEW x \in Maybe, NEW n \in Steps
        PROVE  w[<<x, n>>] = IF x = Null \/ n = 0 THEN <<>>
                         ELSE <<x>> \o g[<<succ[x].node, n - 1>>]
    <3>1. w[<<x, n>>] = IF x = Null \/ n = 0 THEN <<>>
                    ELSE <<x>> \o w[<<succ[x].node, n - 1>>]
      BY <1>3 DEF WalksTo, Steps
    <3>2. x # Null /\ n # 0 =>
            succ[x].node \in Maybe /\ n - 1 \in Steps
      BY <1>1, TypeFacts DEF Maybe, Steps
    <3> HIDE DEF g
    <3> QED BY <1>4, <3>1, <3>2
  <2>2. ASSUME NEW z \in Maybe \X Steps
        PROVE  w[z] = IF z[1] = Null \/ z[2] = 0 THEN <<>>
                      ELSE <<z[1]>> \o g[<<succ[z[1]].node, z[2] - 1>>]
    <3> PICK x \in Maybe, n \in Steps : z = <<x, n>>
      OBVIOUS
    <3>1. z[1] = x /\ z[2] = n
      OBVIOUS
    <3> HIDE DEF g
    <3> QED BY <2>1, <3>1
  <2> QED BY <2>2, Zenon
<1>6. Walks(g)
  <2> HIDE DEF g
  <2> QED BY <1>5 DEF Walks
<1> QED BY <1>6

LEMMA PathWalk ==
  ASSUME TypeInv, NEW f
  PROVE  \E w : Walks(w) /\ Path(f) = w[<<f, Capacity + 3>>]
<1> DEFINE w == CHOOSE w : Walks(w)
<1>1. Walks(w)
  BY WalksExist
<1>2. Path(f) = w[<<f, Capacity + 3>>]
  BY DEF Path, Walks, Maybe, Steps
<1> QED BY <1>1, <1>2

\* Path of the first node of a sequence of nodes, each linked to the next.
LEMMA PathOf ==
  ASSUME TypeInv, NEW s \in Seq(Node), Len(s) >= 1, Len(s) <= Capacity + 3,
         \A i \in 1 .. Len(s) - 1 : succ[s[i]].node = s[i + 1],
         succ[s[Len(s)]].node = Null
  PROVE  Path(s[1]) = s
<1> PICK w : Walks(w) /\ Path(s[1]) = w[<<s[1], Capacity + 3>>]
  BY PathWalk
<1> DEFINE N == Len(s)
           C == Capacity + 3
           suffix(j) == [i \in 1 .. j |-> s[N - j + i]]
           Good(j) == w[<<s[N - j + 1], C - N + j>>] = suffix(j)
           Bad == {j \in 1 .. N : ~ Good(j)}
<1>0. N \in Nat /\ C \in Nat /\ Capacity \in Nat /\ N >= 1 /\ N <= C
  BY NodeFacts
<1>1. ASSUME NEW x \in Maybe, NEW n \in 0 .. C
      PROVE  w[<<x, n>>] = IF x = Null \/ n = 0 THEN <<>>
                       ELSE <<x>> \o w[<<succ[x].node, n - 1>>]
  BY DEF Walks, Steps
<1>2. Bad = {}
  <2>1. SUFFICES ASSUME Bad # {} PROVE FALSE
    OBVIOUS
  <2>2. Bad \in SUBSET Nat
    OBVIOUS
  <2>3. PICK j \in Bad : \A k \in Bad : j <= k
    <3> HIDE DEF Bad
    <3> QED BY <2>1, <2>2, NatMin
  <2>4. j \in 1 .. N /\ ~ Good(j) /\ (j - 1 \in 1 .. N => Good(j - 1))
    <3>1. j \in 1 .. N /\ ~ Good(j) /\ ~ (j <= j - 1)
      BY <1>0
    <3>2. j - 1 \notin Bad
      <4> HIDE DEF Bad
      <4> QED BY <2>3, <3>1
    <3> QED BY <3>1, <3>2
  <2> PICK x, n : x = s[N - j + 1] /\ n = C - N + j
    OBVIOUS
  <2>5. x \in Node /\ n \in 0 .. C /\ n # 0 /\ x # Null /\ x \in Maybe
    <3>1. N - j + 1 \in 1 .. N
      BY <1>0, <2>4
    <3>2. x \in Node
      BY <3>1
    <3>3. n \in 0 .. C /\ n # 0
      BY <1>0, <2>4
    <3> QED BY <3>2, <3>3, NodeFacts
  <2>6. w[<<x, n>>] = <<x>> \o w[<<succ[x].node, n - 1>>]
    BY <1>1, <2>5
  <2>7. w[<<succ[x].node, n - 1>>] = suffix(j - 1)
    <3>1. CASE j = 1
      <4>1. succ[x].node = Null
        BY <1>0, <3>1
      <4>2. w[<<Null, n - 1>>] = <<>>
        <5>1. n - 1 \in 0 .. C /\ Null \in Maybe
          BY <1>0, <2>5, NodeFacts
        <5> QED BY <1>1, <5>1
      <4>3. suffix(0) = <<>>
        OBVIOUS
      <4>4. suffix(j - 1) = suffix(0)
        BY <3>1
      <4> QED BY <4>1, <4>2, <4>3, <4>4
    <3>2. CASE j # 1
      <4>1. /\ j - 1 \in 1 .. N /\ N - j + 1 \in 1 .. N - 1
            /\ (N - j + 1) + 1 = N - (j - 1) + 1 /\ n - 1 = C - N + (j - 1)
        BY <1>0, <2>4, <2>5, <3>2
      <4>2. succ[x].node = s[N - (j - 1) + 1]
        BY <4>1
      <4>3. Good(j - 1)
        BY <2>4, <4>1
      <4> QED BY <4>1, <4>2, <4>3
    <3> QED BY <3>1, <3>2
  <2>8. <<x>> \o suffix(j - 1) = suffix(j)
    <3> DEFINE y == suffix(j - 1)
               z == suffix(j)
    <3>1. j - 1 \in Nat /\ j \in Nat
      BY <1>0, <2>4
    <3>2. \A i \in 1 .. j : N - j + i \in 1 .. N
      BY <1>0, <2>4
    <3> PICK k : k = j - 1
      OBVIOUS
    <3>a. k \in Nat /\ k < N
      BY <1>0, <2>4
    <3>b. \A i \in 1 .. k : N - k + i \in 1 .. N
      BY <1>0, <3>a
    <3>3. suffix(k) \in Seq(Node) /\ Len(suffix(k)) = k
      BY <3>a, <3>b
    <3>4. y \in Seq(Node) /\ Len(y) = j - 1
      BY <3>3
    <3>5. z \in Seq(Node) /\ Len(z) = j
      BY <3>1, <3>2
    <3>6. \A i \in 1 .. j - 1 : y[i] = s[N - (j - 1) + i]
      OBVIOUS
    <3>7. \A i \in 1 .. j : z[i] = s[N - j + i]
      OBVIOUS
    <3> HIDE DEF y, z
    <3> DEFINE v == <<x>> \o y
    <3>8. /\ v \in Seq(Node) /\ Len(v) = Len(y) + 1
          /\ v[1] = x /\ \A i \in 2 .. Len(y) + 1 : v[i] = y[i - 1]
      BY <2>5, <3>4, Pushed
    <3> HIDE DEF v
    <3>9. \A i \in 1 .. j : v[i] = z[i]
      <4> SUFFICES ASSUME NEW i \in 1 .. j PROVE v[i] = z[i]
        OBVIOUS
      <4>1. CASE i = 1
        BY <3>7, <3>8, <4>1
      <4>2. CASE i # 1
        <5>1. i \in 2 .. Len(y) + 1 /\ i - 1 \in 1 .. j - 1
              /\ N - (j - 1) + (i - 1) = N - j + i
          BY <1>0, <3>1, <3>4, <4>2
        <5> QED BY <3>6, <3>7, <3>8, <5>1
      <4> QED BY <4>1, <4>2
    <3>10. v = z
      <4>1. v \in Seq(Node) /\ Len(v) = j
        BY <3>1, <3>4, <3>8
      <4>2. \A i \in 1 .. Len(v) : v[i] = z[i]
        BY <3>9, <4>1
      <4>3. Len(v) = Len(z)
        BY <3>5, <4>1
      <4> QED BY <3>5, <4>1, <4>2, <4>3, SeqEqual
    <3> QED BY <3>10 DEF v, y, z
  <2>9. w[<<x, n>>] = suffix(j)
    BY <2>6, <2>7, <2>8
  <2> QED BY <2>4, <2>9
<1>3. Good(N)
  <2>1. N \in 1 .. N
    BY <1>0
  <2>2. N \notin Bad
    <3> HIDE DEF Bad
    <3> QED BY <1>2
  <2> QED BY <2>1, <2>2
<1>4. N - N + 1 = 1 /\ C - N + N = C /\ suffix(N) = s
  <2>1. N - N + 1 = 1 /\ C - N + N = C
    BY <1>0
  <2>2. \A i \in 1 .. N : N - N + i = i
    BY <1>0
  <2>3. suffix(N) = [i \in 1 .. N |-> s[i]]
    BY <2>2
  <2>4. s = [i \in 1 .. N |-> s[i]]
    OBVIOUS
  <2> QED BY <2>1, <2>3, <2>4
<1> QED BY <1>3, <1>4

\* Different nodes in a row.
LEMMA ShortSeq ==
  ASSUME NEW s \in Seq(Node), \A i, j \in 1 .. Len(s) : s[i] = s[j] => i = j
  PROVE  Len(s) <= Capacity + 3
<1> PICK N, C : N = Len(s) /\ C = Capacity + 3
  OBVIOUS
<1>1. N \in Nat /\ C \in Nat /\ Node = 0 .. C - 1
  BY NodeFacts
<1>2. IsFiniteSet(Node) /\ Cardinality(Node) = C
  <2> PICK b : b = C - 1
    OBVIOUS
  <2>1. b \in Int /\ 0 \in Int /\ ~ 0 > b /\ b - 0 + 1 = C
    <3>1. C >= 1
      BY NodeFacts
    <3> QED BY <1>1, <3>1
  <2>2. /\ IsFiniteSet(0 .. b)
        /\ Cardinality(0 .. b) = IF 0 > b THEN 0 ELSE b - 0 + 1
    BY <2>1, FS_Interval
  <2> QED BY <1>1, <2>1, <2>2
<1>3. IsFiniteSet(1 .. N) /\ Cardinality(1 .. N) = N
  <2>1. 1 \in Int /\ N \in Int /\ (N - 1 + 1 = N) /\ (1 > N => N = 0)
    BY <1>1
  <2>2. /\ IsFiniteSet(1 .. N)
        /\ Cardinality(1 .. N) = IF 1 > N THEN 0 ELSE N - 1 + 1
    BY <2>1, FS_Interval
  <2> QED BY <2>1, <2>2
<1>4. s \in Injection(1 .. N, Node)
  <2>1. s \in [1 .. N -> Node]
    BY <1>1
  <2>2. \A i, j \in 1 .. N : s[i] = s[j] => i = j
    BY <1>1
  <2> QED BY <2>1, <2>2 DEF Injection, IsInjective
<1>5. Cardinality(1 .. N) <= Cardinality(Node)
  BY <1>2, <1>4, FS_Injection
<1> QED BY <1>1, <1>2, <1>3, <1>5

LEMMA PoolPath ==
  ASSUME TypeInv, NEW sq, PoolInv(sq)
  PROVE  Path(free) = sq /\ On(free) = In(sq)
<1>1. /\ sq \in Seq(Node) /\ Len(sq) >= 1 /\ sq[1] = free
      /\ \A i, j \in 1 .. Len(sq) : sq[i] = sq[j] => i = j
      /\ \A i \in 1 .. Len(sq) - 1 : succ[sq[i]].node = sq[i + 1]
      /\ succ[sq[Len(sq)]].node = Null
  BY DEF PoolInv, Leads
<1>2. Len(sq) <= Capacity + 3
  BY <1>1, ShortSeq
<1>3. Path(free) = sq
  BY <1>1, <1>2, PathOf
<1>4. DOMAIN sq = 1 .. Len(sq)
  BY <1>1
<1> QED BY <1>3, <1>4 DEF On, In

Below(L, n) == {m \in L : key[m] < key[n]}
Rank(L, n)  == Cardinality(Below(L, n))

\* Ranks count the nodes from the head on.
LEMMA RankFacts ==
  ASSUME TypeInv, NEW L, ListInv(L)
  PROVE  /\ \A n \in L : Rank(L, n) \in Nat
         /\ Rank(L, HeadN) = 0
         /\ \A n \in L \ {TailN} : Rank(L, succ[n].node) = Rank(L, n) + 1
         /\ \A m, n \in L : key[m] < key[n] => Rank(L, m) < Rank(L, n)
<1>1. /\ L \subseteq Node /\ HeadN \in L
      /\ \A m, n \in L : key[m] = key[n] => m = n
      /\ \A n \in L : key[n] \in Int /\ -1 <= key[n]
      /\ key[HeadN] = -1
  BY TypeFacts, NodeFacts DEF ListInv
<1>2. IsFiniteSet(L)
  <2>1. IsFiniteSet(0 .. Capacity + 2)
    BY NodeFacts, FS_Interval
  <2>2. Node = 0 .. Capacity + 2
    BY NodeFacts
  <2> QED BY <1>1, <2>1, <2>2, FS_Subset
<1>3. ASSUME NEW n \in L PROVE IsFiniteSet(Below(L, n))
  <2>1. Below(L, n) \in SUBSET L
    BY DEF Below
  <2> QED BY <1>2, <2>1, FS_Subset
<1>4. ASSUME NEW n \in L PROVE Rank(L, n) \in Nat
  BY <1>3, FS_CardinalityType DEF Rank
<1>5. Rank(L, HeadN) = 0
  <2>1. Below(L, HeadN) = {}
    BY <1>1 DEF Below
  <2> QED BY <2>1, FS_EmptySet DEF Rank
<1>6. ASSUME NEW n \in L \ {TailN}
      PROVE  Rank(L, succ[n].node) = Rank(L, n) + 1
  <2> PICK s, B : s = succ[n].node /\ B = Below(L, n)
    OBVIOUS
  <2>1. s \in L /\ key[n] < key[s] /\ n \in L
        /\ \A m \in L : key[n] < key[m] => key[s] <= key[m]
    BY DEF ListInv
  <2>2. n \notin B
    BY <1>1, <2>1 DEF Below
  <2>3. Below(L, s) = B \cup {n}
    <3>1. ASSUME NEW m \in L
          PROVE  key[m] < key[s] <=> key[m] < key[n] \/ m = n
      BY <1>1, <2>1
    <3> QED BY <2>1, <3>1 DEF Below
  <2>4. IsFiniteSet(B)
    BY <1>3
  <2>5. Cardinality(B \cup {n}) =
          IF n \in B THEN Cardinality(B) ELSE Cardinality(B) + 1
    BY <2>4, FS_AddElement
  <2> QED BY <2>2, <2>3, <2>5 DEF Rank
<1>7. ASSUME NEW m \in L, NEW n \in L, key[m] < key[n]
      PROVE  Rank(L, m) < Rank(L, n)
  <2>1. Below(L, m) \in SUBSET Below(L, n) /\ m \in Below(L, n)
        /\ m \notin Below(L, m)
    BY <1>1, <1>7 DEF Below
  <2>2. IsFiniteSet(Below(L, n)) /\ Below(L, m) # Below(L, n)
    BY <1>3, <2>1
  <2>3. /\ Cardinality(Below(L, m)) <= Cardinality(Below(L, n))
        /\ Cardinality(Below(L, m)) = Cardinality(Below(L, n)) =>
             Below(L, m) = Below(L, n)
    BY <2>1, <2>2, FS_Subset
  <2> QED BY <1>4, <2>2, <2>3 DEF Rank
<1> QED BY <1>4, <1>5, <1>6, <1>7

\* The path from the head is the list, in the order of the keys.
LEMMA ListPath ==
  ASSUME TypeInv, NEW L, ListInv(L)
  PROVE  \E s \in Seq(Node) :
           /\ Path(HeadN) = s /\ In(s) = L /\ On(HeadN) = L
           /\ Len(s) >= 1 /\ s[Len(s)] = TailN
           /\ \A i \in 1 .. Len(s) - 1 : key[s[i]] < key[s[i + 1]]
<1> PICK T : T = Rank(L, TailN)
  OBVIOUS
<1>0. /\ HeadN \in L /\ TailN \in L /\ L \subseteq Node
      /\ succ[TailN].node = Null
      /\ \A n \in L \ {TailN} : succ[n].node \in L /\ key[n] < key[succ[n].node]
      /\ \A n \in L : key[n] \in Int /\ (n = TailN \/ key[n] < key[TailN])
      /\ \A m, n \in L : key[m] = key[n] => m = n
  <2>1. \A n \in L : key[n] \in Int /\ key[n] <= Top
    BY TypeFacts DEF ListInv
  <2>2. key[TailN] = Top /\ \A m, n \in L : key[m] = key[n] => m = n
    BY DEF ListInv
  <2>3. \A n \in L : n = TailN \/ key[n] < key[TailN]
    BY <2>1, <2>2 DEF ListInv
  <2> QED BY <2>1, <2>2, <2>3 DEF ListInv, Leads
<1>1. /\ \A n \in L : Rank(L, n) \in Nat
      /\ Rank(L, HeadN) = 0
      /\ \A n \in L \ {TailN} : Rank(L, succ[n].node) = Rank(L, n) + 1
      /\ \A m, n \in L : key[m] < key[n] => Rank(L, m) < Rank(L, n)
  BY RankFacts
<1>2. \A m, n \in L : Rank(L, m) = Rank(L, n) => m = n
  BY <1>0, <1>1
<1>3. \A n \in L : Rank(L, n) \in 0 .. T
  BY <1>0, <1>1
<1> DEFINE Bad == {i \in 0 .. T : ~ \E n \in L : Rank(L, n) = i}
<1>4. Bad = {}
  <2>1. SUFFICES ASSUME Bad # {} PROVE FALSE
    OBVIOUS
  <2>2. Bad \in SUBSET Nat
    OBVIOUS
  <2>3. PICK j \in Bad : \A k \in Bad : j <= k
    <3> HIDE DEF Bad
    <3> QED BY <2>1, <2>2, NatMin
  <2>4. j \in 0 .. T /\ ~ \E n \in L : Rank(L, n) = j
    OBVIOUS
  <2>5. T \in Nat
    BY <1>0, <1>1
  <2>6. j # 0
    BY <1>0, <1>1, <2>4
  <2>7. j - 1 \in 0 .. T /\ ~ (j <= j - 1) /\ (j - 1) + 1 = j /\ j - 1 # T
    BY <2>4, <2>5, <2>6
  <2>8. j - 1 \notin Bad
    <3> HIDE DEF Bad
    <3> QED BY <2>3, <2>7
  <2>9. PICK n \in L : Rank(L, n) = j - 1
    BY <2>7, <2>8
  <2>10. n # TailN
    BY <2>7, <2>9
  <2>11. succ[n].node \in L /\ Rank(L, succ[n].node) = j
    BY <1>0, <1>1, <2>7, <2>9, <2>10
  <2> QED BY <2>4, <2>11
<1>5. T \in Nat
  BY <1>0, <1>1
<1> DEFINE s == [i \in 1 .. T + 1 |-> CHOOSE n \in L : Rank(L, n) = i - 1]
<1>6. ASSUME NEW i \in 1 .. T + 1
      PROVE  s[i] \in L /\ Rank(L, s[i]) = i - 1
  <2>1. i - 1 \in 0 .. T
    BY <1>5
  <2>2. i - 1 \notin Bad
    <3> HIDE DEF Bad
    <3> QED BY <1>4
  <2>3. \E n \in L : Rank(L, n) = i - 1
    BY <2>1, <2>2
  <2>4. s[i] = CHOOSE n \in L : Rank(L, n) = i - 1
    OBVIOUS
  <2> HIDE DEF s
  <2> QED BY <2>3, <2>4
<1>7. s \in Seq(Node) /\ Len(s) = T + 1
  <2>1. \A i \in 1 .. T + 1 : s[i] \in Node
    <3> HIDE DEF s
    <3> QED BY <1>0, <1>6
  <2> QED BY <1>5, <2>1
<1> HIDE DEF s
<1>8. \A i, j \in 1 .. Len(s) : s[i] = s[j] => i = j
  <2> SUFFICES ASSUME NEW i \in 1 .. Len(s), NEW j \in 1 .. Len(s), s[i] = s[j]
               PROVE  i = j
    OBVIOUS
  <2>1. i - 1 = Rank(L, s[i]) /\ j - 1 = Rank(L, s[j])
    BY <1>6, <1>7
  <2> QED BY <2>1
<1>9. s[1] = HeadN /\ s[Len(s)] = TailN
  <2>1. 1 \in 1 .. T + 1 /\ T + 1 \in 1 .. T + 1 /\ (T + 1) - 1 = T
    BY <1>5
  <2>2. s[1] \in L /\ s[T + 1] \in L /\ Rank(L, s[1]) = 0
        /\ Rank(L, s[T + 1]) = T
    BY <1>6, <2>1
  <2> QED BY <1>0, <1>1, <1>2, <1>7, <2>2
<1>10. ASSUME NEW i \in 1 .. Len(s) - 1
       PROVE  succ[s[i]].node = s[i + 1] /\ key[s[i]] < key[s[i + 1]]
  <2>1. i \in 1 .. T + 1 /\ i + 1 \in 1 .. T + 1 /\ (i + 1) - 1 = i
        /\ i - 1 # T /\ (i - 1) + 1 = i
    BY <1>5, <1>7
  <2>2. s[i] \in L /\ Rank(L, s[i]) = i - 1
        /\ s[i + 1] \in L /\ Rank(L, s[i + 1]) = i
    BY <1>6, <2>1
  <2>3. s[i] # TailN
    BY <2>1, <2>2
  <2>4. succ[s[i]].node \in L /\ Rank(L, succ[s[i]].node) = i
        /\ key[s[i]] < key[succ[s[i]].node]
    BY <1>0, <1>1, <2>1, <2>2, <2>3
  <2> QED BY <1>2, <2>2, <2>4
<1>11. In(s) = L
  <2>1. \A n \in L : n \in In(s)
    <3> SUFFICES ASSUME NEW n \in L PROVE n \in In(s)
      OBVIOUS
    <3> PICK i : i = Rank(L, n) + 1
      OBVIOUS
    <3>1. i \in 1 .. T + 1 /\ i - 1 = Rank(L, n)
      BY <1>1, <1>3, <1>5
    <3>2. s[i] = n
      BY <1>2, <1>6, <3>1
    <3> QED BY <1>7, <3>1, <3>2 DEF In
  <2>2. \A n \in In(s) : n \in L
    BY <1>6, <1>7 DEF In
  <2> QED BY <2>1, <2>2
<1>12. Path(HeadN) = s
  <2>1. Len(s) <= Capacity + 3
    BY <1>7, <1>8, ShortSeq
  <2>2. Len(s) >= 1
    BY <1>5, <1>7
  <2>3. succ[s[Len(s)]].node = Null
    BY <1>0, <1>9
  <2> QED BY <1>7, <1>9, <1>10, <2>1, <2>2, <2>3, PathOf
<1>13. DOMAIN s = 1 .. Len(s)
  BY <1>7
<1>14. On(HeadN) = L
  BY <1>11, <1>12, <1>13 DEF On, In
<1>15. Len(s) >= 1
  BY <1>5, <1>7
<1> QED BY <1>7, <1>9, <1>10, <1>11, <1>12, <1>14, <1>15

\* The compare-and-swap of list_insert: n comes between p and x.
Links(L, R, p, n, x) ==
  /\ p \in L /\ p # TailN /\ n \in Node \ R /\ x \in Node
  /\ Leads(p, x, UNMARKED) /\ Leads(n, x, UNMARKED)
  /\ key[p] < key[n] /\ key[n] < key[x] /\ key[n] \in Key
  /\ succ' = [succ EXCEPT ![p] = Ref(n, UNMARKED)]
  /\ UNCHANGED <<back, key, val, free, calls>>

With(L, n) == L \cup {n}

LEMMA LinkFacts ==
  ASSUME NEW L, NEW R, NEW sq, Inv(L, R, sq), NEW p, NEW n, NEW x,
         Links(L, R, p, n, x), n \notin In(sq),
         NEW M, M = With(L, n), NEW S, S = With(R, n),
         NEW P \in SUBSET (Node \ S)
  PROVE  /\ succ' \in [Node -> Link]
         /\ ListInv(M)' /\ RefInv(M, S)' /\ PoolInv(sq)'
         /\ Stable(L, R, P, M, S)
         /\ \A q \in M : succ'[q].mark = FLAGGED =>
              q \in L /\ succ'[q] = succ[q]
         /\ \A d \in M : succ'[d].mark = MARKED =>
              \E q \in M : Leads(q, d, FLAGGED)'
<1>1. /\ TypeInv /\ ListInv(L) /\ RefInv(L, R) /\ FlagInv(L) /\ PoolInv(sq)
      /\ OwnInv(L, R, In(sq))
  BY DEF Inv
<1>0. M = L \cup {n} /\ S = R \cup {n}
  BY DEF With
<1> USE <1>0
<1>2. /\ p \in L /\ p # TailN /\ n \in Node /\ n \notin R /\ x \in Node
      /\ succ[p].node = x /\ succ[p].mark = UNMARKED
      /\ succ[n].node = x /\ succ[n].mark = UNMARKED
      /\ key[p] < key[n] /\ key[n] < key[x] /\ key[n] \in Key
      /\ succ' = [succ EXCEPT ![p] = Ref(n, UNMARKED)]
      /\ back' = back /\ key' = key /\ free' = free
  BY DEF Links, Leads
<1>3. L \subseteq R /\ R \subseteq Node /\ n \notin L /\ p \in R /\ p \in Node
      /\ p # n /\ x \in L
  BY <1>1, <1>2 DEF RefInv, ListInv
<1>4. Ref(n, UNMARKED) \in Link /\ Ref(n, UNMARKED).node = n
      /\ Ref(n, UNMARKED).mark = UNMARKED
  <2>1. n \in Maybe /\ UNMARKED \in 0 .. 2
    BY <1>2, NodeFacts DEF UNMARKED
  <2> QED BY <2>1, RefFacts
<1>5. succ' \in [Node -> Link]
  BY <1>1, <1>2, <1>4 DEF TypeInv
<1>6. succ'[p].node = n /\ succ'[p].mark = UNMARKED
      /\ \A q \in Node : q # p => succ'[q] = succ[q]
  BY <1>1, <1>2, <1>3, <1>4 DEF TypeInv
<1>7. \A m \in Node : key[m] \in Int
  BY <1>1, TypeFacts
<1>8. ListInv(M)'
  <2>1. HeadN \in M /\ TailN \in M /\ M \subseteq Node
    BY <1>1, <1>2 DEF ListInv
  <2>2. key'[HeadN] = Bottom /\ key'[TailN] = Top
    BY <1>1, <1>2 DEF ListInv
  <2>3. Leads(TailN, Null, UNMARKED)'
    BY <1>1, <1>2, <1>6, NodeFacts DEF ListInv, Leads
  <2>4. ASSUME NEW m \in L PROVE key[m] <= key[p] \/ key[x] <= key[m]
    BY <1>1, <1>2, <1>3, <1>7 DEF ListInv
  <2>5. ASSUME NEW a \in M, NEW b \in M, key'[a] = key'[b] PROVE a = b
    <3>1. \A m \in L : key[m] # key[n]
      BY <1>2, <1>3, <1>7, <2>1, <2>4
    <3>2. CASE a = n \/ b = n
      BY <1>2, <2>5, <3>1, <3>2
    <3>3. CASE a # n /\ b # n
      BY <1>1, <1>2, <2>5, <3>3 DEF ListInv
    <3> QED BY <3>2, <3>3
  <2>6. ASSUME NEW m \in M \ {TailN}
        PROVE  succ'[m].node \in M /\ key'[m] < key'[succ'[m].node]
    <3>1. CASE m = p
      BY <1>2, <1>6, <3>1
    <3>2. CASE m = n
      BY <1>2, <1>3, <1>6, <3>2
    <3>3. CASE m # p /\ m # n
      <4>1. m \in L \ {TailN} /\ m \in Node
        BY <2>1, <3>3
      <4>2. succ[m].node \in L /\ key[m] < key[succ[m].node]
        BY <1>1, <4>1 DEF ListInv
      <4>3. succ'[m] = succ[m]
        BY <1>6, <3>3, <4>1
      <4> QED BY <1>2, <4>2, <4>3
    <3> QED BY <3>1, <3>2, <3>3
  <2>7. ASSUME NEW m \in M \ {TailN}, NEW d \in M, key'[m] < key'[d]
        PROVE  key'[succ'[m].node] <= key'[d]
    <3>1. CASE m = p
      <4>1. CASE d = n
        BY <1>2, <1>6, <1>7, <3>1, <4>1
      <4>2. CASE d # n
        <5>1. d \in L /\ d \in Node /\ key[p] < key[d]
          BY <1>2, <2>1, <2>7, <3>1, <4>2
        <5>2. key[x] <= key[d]
          BY <1>3, <1>7, <2>4, <5>1
        <5> QED BY <1>2, <1>6, <1>7, <3>1, <5>1, <5>2
      <4> QED BY <4>1, <4>2
    <3>2. CASE m = n
      <4>1. d # n /\ d \in L /\ d \in Node /\ key[n] < key[d]
        BY <1>2, <1>7, <2>1, <2>7, <3>2
      <4>2. key[x] <= key[d]
        BY <1>2, <1>3, <1>7, <2>4, <4>1
      <4> QED BY <1>2, <1>3, <1>6, <3>2, <4>2
    <3>3. CASE m # p /\ m # n
      <4>1. m \in L \ {TailN} /\ m \in Node /\ succ'[m] = succ[m]
        BY <1>6, <2>1, <3>3
      <4>2. CASE d # n
        BY <1>1, <1>2, <2>7, <4>1, <4>2 DEF ListInv
      <4>3. CASE d = n
        <5>1. key[m] < key[n]
          BY <1>2, <2>7, <4>3
        <5>2. key[m] <= key[p]
          BY <1>2, <1>3, <1>7, <2>4, <4>1, <5>1
        <5>3. key[m] # key[p]
          BY <1>1, <1>2, <3>3, <4>1 DEF ListInv
        <5>a. key[m] < key[p]
          BY <1>3, <1>7, <4>1, <5>2, <5>3
        <5>4. key[succ[m].node] <= key[p] /\ succ[m].node \in Node
          BY <1>1, <1>2, <4>1, <5>a DEF ListInv
        <5> QED BY <1>2, <1>3, <1>7, <4>1, <4>3, <5>4
      <4> QED BY <4>2, <4>3
    <3> QED BY <3>1, <3>2, <3>3
  <2> QED BY <2>1, <2>2, <2>3, <2>5, <2>6, <2>7 DEF ListInv
<1>9. RefInv(M, S)'
  <2>1. M \subseteq S /\ S \subseteq Node
    BY <1>2, <1>3
  <2>2. \A m \in S \ {HeadN, TailN} : key'[m] \in Key
    BY <1>1, <1>2 DEF RefInv
  <2>3. ASSUME NEW m \in S \ {TailN}
        PROVE  succ'[m].node \in S /\ key'[m] < key'[succ'[m].node]
    <3>1. CASE m = p
      BY <1>2, <1>6, <3>1
    <3>2. CASE m = n
      BY <1>2, <1>3, <1>6, <3>2
    <3>3. CASE m # p /\ m # n
      <4>1. m \in R \ {TailN} /\ succ'[m] = succ[m]
        BY <1>3, <1>6, <3>3
      <4> QED BY <1>1, <1>2, <4>1 DEF RefInv
    <3> QED BY <3>1, <3>2, <3>3
  <2>4. ASSUME NEW m \in S, succ'[m].mark = MARKED
        PROVE  key'[m] \in Key /\ back'[m] \in S /\ key'[back'[m]] < key'[m]
    <3>1. m # p /\ m # n
      BY <1>2, <1>3, <1>6, <2>4 DEF MARKED, UNMARKED
    <3>2. m \in R /\ succ'[m] = succ[m]
      BY <1>3, <1>6, <3>1
    <3> QED BY <1>1, <1>2, <2>4, <3>2 DEF RefInv
  <2>5. ASSUME NEW m \in S \ M PROVE succ'[m].mark = MARKED
    <3>1. m \in R \ L /\ m # p /\ m \in Node
      BY <1>2, <1>3
    <3> QED BY <1>1, <1>6, <3>1 DEF RefInv
  <2> QED BY <2>1, <2>2, <2>3, <2>4, <2>5 DEF RefInv
<1>10. PoolInv(sq)'
  <2>1. \A d \in In(sq) : d # p /\ d \in Node
    BY <1>1, <1>3 DEF OwnInv, PoolInv, In
  <2>2. \A d \in In(sq) : succ'[d] = succ[d]
    BY <1>6, <2>1
  <2> QED BY <1>1, <1>2, <2>2, PoolKept
<1>11. Stable(L, R, P, M, S)
  <2>1. \A m \in R : key'[m] = key[m]
    BY <1>2
  <2>2. \A m \in R : succ[m].mark = MARKED => succ'[m] = succ[m]
    BY <1>2, <1>3, <1>6 DEF MARKED, UNMARKED
  <2>3. \A q, d \in R : Leads(q, d, FLAGGED) => Leads(q, d, FLAGGED)'
    BY <1>2, <1>3, <1>6 DEF FLAGGED, UNMARKED, Leads
  <2>4. \A d \in R : BackSet(R, d) => BackSet(S, d)'
    BY <1>2 DEF BackSet
  <2>5. \A m \in P : succ'[m] = succ[m] /\ key'[m] = key[m]
    BY <1>2, <1>3, <1>6
  <2>6. \A m \in R \cup P : m \in M => m \in L
    BY <1>2
  <2> QED BY <2>1, <2>2, <2>3, <2>4, <2>5, <2>6 DEF Stable
<1>12. ASSUME NEW q \in M, succ'[q].mark = FLAGGED
       PROVE  q \in L /\ succ'[q] = succ[q]
  BY <1>2, <1>3, <1>6, <1>12 DEF FLAGGED, UNMARKED
<1>13. ASSUME NEW d \in M, succ'[d].mark = MARKED
       PROVE  \E q \in M : Leads(q, d, FLAGGED)'
  <2>1. d \in L /\ succ'[d] = succ[d]
    BY <1>2, <1>3, <1>6, <1>13 DEF MARKED, UNMARKED
  <2>2. PICK q \in L : Leads(q, d, FLAGGED)
    BY <1>1, <1>13, <2>1 DEF FlagInv
  <2>3. Leads(q, d, FLAGGED)'
    BY <1>2, <1>3, <1>6, <2>2 DEF FLAGGED, UNMARKED, Leads
  <2> QED BY <2>3
<1> QED BY <1>5, <1>8, <1>9, <1>10, <1>11, <1>12, <1>13

\* list_insert has linked its node.
LEMMA InsertCasInv ==
  ASSUME NEW L, NEW R, NEW sq, Inv(L, R, sq), NEW t \in Thread, InsertCas(t)
  PROVE  \E M, S :
           /\ Inv(M, S, sq)' /\ stack' = stack
           /\ \/ /\ M = L /\ S = R /\ Goto(t, "i_result")
                 /\ UNCHANGED <<nodes, reg>>
              \/ /\ M = With(L, reg[t].node) /\ S = With(R, reg[t].node)
                 /\ Return(t, "ok")
                 /\ Links(L, R, reg[t].prev, reg[t].node, reg[t].next)
<1> PICK r, p, n, x : r = reg[t] /\ p = r.prev /\ n = r.node /\ x = r.next
  OBVIOUS
<1>1. pc[t] \in Linking /\ pc[t] = "i_cas"
  BY DEF InsertCas, Linking
<1>2. /\ Mine(r) /\ pc[t] \in Plain /\ succ[p] \in Link /\ r \in Reg
      /\ ArgOk(r) /\ Behind(R, r) /\ stack[t] = <<>> /\ p \in R /\ p # TailN
      /\ p \in Node
  BY <1>1, PrevFacts
<1>3. /\ TypeInv /\ ListInv(L) /\ RefInv(L, R) /\ FlagInv(L)
      /\ OwnInv(L, R, In(sq)) /\ RegOk(L, R, pc[t], r)
  BY DEF Inv
<1>4. /\ n \in Node /\ key[n] = r.arg /\ r.op = "insert" /\ key[p] < key[n]
      /\ key[n] \in Key /\ x \in R /\ key[n] < key[x] /\ x \in Node
      /\ Leads(n, x, UNMARKED) /\ n \notin R
  <2>1. n \in Node /\ key[n] = r.arg /\ r.op = "insert"
    BY <1>2 DEF Mine
  <2>2. key[p] < key[n] /\ key[n] \in Key
    BY <1>2, <2>1 DEF Behind, ArgOk
  <2>3. x \in R /\ key[n] < key[x] /\ Leads(n, x, UNMARKED)
    BY <1>1, <1>3, <2>1 DEF RegOk
  <2>4. n \notin R /\ x \in Node
    BY <1>3, <2>1, <2>3 DEF OwnInv, RefInv
  <2> QED BY <2>1, <2>2, <2>3, <2>4
<1>5. CASE succ[p] # Ref(x, UNMARKED)
  <2>1. /\ Goto(t, "i_result") /\ UNCHANGED <<nodes, reg, stack, calls>>
    BY <1>5 DEF InsertCas, nodes
  <2>2. "i_result" \in Linking /\ "i_result" \in Plain
    BY PlainFacts DEF Linking
  <2>3. RegOk(L, R, "i_result", r)
    BY <1>2, <2>2, LinkingOk
  <2>4. Inv(L, R, sq)'
    BY <1>2, <2>1, <2>2, <2>3, SameReg
  <2>5. stack' = stack
    BY <2>1
  <2> QED BY <2>1, <2>4, <2>5
<1>6. CASE succ[p] = Ref(x, UNMARKED)
  <2>1. Leads(p, x, UNMARKED)
    <3>1. x \in Maybe /\ UNMARKED \in 0 .. 2
      BY <1>4, NodeFacts DEF UNMARKED
    <3> QED BY <1>6, <3>1, RefFacts DEF Leads
  <2>2. p \in L
    BY <1>2, <1>3, <2>1 DEF RefInv, Leads, MARKED, UNMARKED
  <2> PICK M, S, P, F : /\ M = L \cup {n} /\ S = R \cup {n}
                        /\ P = Others(R, sq, t) /\ F = In(sq)
    OBVIOUS
  <2>3. OwnedOf(pc[t], stack[t], reg[t]) = {n}
    BY <1>4, NodeFacts DEF OwnedOf
  <2>4. n \notin F /\ P \in SUBSET (Node \ S)
    BY <1>3, <2>3 DEF OwnInv, Others
  <2>5. Links(L, R, p, n, x) /\ Inv(L, R, sq) /\ n \notin In(sq)
        /\ P \in SUBSET (Node \ S) /\ M = With(L, n) /\ S = With(R, n)
    BY <1>2, <1>4, <1>6, <2>1, <2>2, <2>4 DEF InsertCas, Links, With
  <2>6. /\ succ' \in [Node -> Link]
        /\ ListInv(M)' /\ RefInv(M, S)' /\ PoolInv(sq)'
        /\ Stable(L, R, P, M, S)
        /\ \A q \in M : succ'[q].mark = FLAGGED =>
             q \in L /\ succ'[q] = succ[q]
        /\ \A d \in M : succ'[d].mark = MARKED =>
             \E q \in M : Leads(q, d, FLAGGED)'
    BY ONLY <2>5, LinkFacts
  <2> PICK l, z, s : l = "idle" /\ z = [Idle EXCEPT !.out = "ok"] /\ s = <<>>
    OBVIOUS
  <2>7. z \in Reg /\ z.op = "search" /\ z.node = Null
    BY ReturnFacts
  <2>8. /\ reg' = [reg EXCEPT ![t] = z] /\ pc' = [pc EXCEPT ![t] = l]
        /\ UNCHANGED <<back, key, val, free, stack, calls>>
    BY <1>6 DEF InsertCas, Return, Goto
  <2>9. stack' = [stack EXCEPT ![t] = s]
    BY <1>2, <1>3, <2>8 DEF TypeInv
  <2>10. FlagInv(M)'
    <3>1. ASSUME NEW q \in M, succ'[q].mark = FLAGGED
          PROVE  \E u \in Thread : Flags(stack'[u], q, succ'[q].node)
      BY <1>3, <2>6, <2>8, <3>1 DEF FlagInv
    <3> QED BY <2>6, <3>1 DEF FlagInv
  <2>11. l \in Label /\ l \notin Helping /\ s \in Seq(HelpFrame)
    BY DEF Label, Helping
  <2>12. TypeInv'
    BY <1>3, <2>6, <2>7, <2>8, <2>11 DEF TypeInv
  <2>13. RegOk(M, S, l, z)'
    BY <2>7 DEF RegOk, Searching, Found, Marking, Linking, Flagging, Helping
  <2>14. StackOk(M, S, l, s, z)'
    BY <2>11 DEF StackOk, FramesOk, Helping
  <2>15. OwnInv(M, S, In(sq))'
    <3> PICK O : O = OwnedOf(l, s, z)
      OBVIOUS
    <3>1. O = {}
      BY <2>7 DEF OwnedOf
    <3>2. ASSUME NEW u \in Thread \ {t}
          PROVE  n \notin OwnedOf(pc[u], stack[u], reg[u])
      BY <1>3, <2>3 DEF OwnInv
    <3>3. ASSUME NEW u \in Thread \ {t}
          PROVE  /\ OwnedOf(pc[u], stack[u], reg[u]) \cap F = {}
                 /\ OwnedOf(pc[u], stack[u], reg[u]) \cap O = {}
                 /\ reg[u].op = "insert" => reg[u].node \notin S
      <4>1. reg[u].op = "insert" => reg[u].node \notin R
        BY <1>3 DEF OwnInv
      <4>2. reg[u].op = "insert" => reg[u].node # n
        BY <1>4, <3>2, NodeFacts DEF OwnedOf
      <4> QED BY <1>3, <3>1, <4>1, <4>2 DEF OwnInv
    <3>4. S \cap F = {}
      BY <1>3, <2>4 DEF OwnInv
    <3>5. ASSUME NEW d \in Node \ (M \cup F)
          PROVE  \/ d \in O
                 \/ \E u \in Thread \ {t} :
                      d \in OwnedOf(pc[u], stack[u], reg[u])
      <4>1. PICK u \in Thread : d \in OwnedOf(pc[u], stack[u], reg[u])
        BY <1>3 DEF OwnInv
      <4>2. u # t
        BY <2>3, <4>1
      <4> QED BY <4>1, <4>2
    <3>6. /\ t \in Thread /\ Inv(L, R, sq) /\ O = OwnedOf(l, s, z)
          /\ (z.op = "insert" => z.node \notin S) /\ O \cap F = {}
      BY <2>7, <3>1
    <3>7. OwnInv(M, S, F)'
      BY ONLY <2>8, <2>9, <3>3, <3>4, <3>5, <3>6, OwnStep
    <3> QED BY <3>7 DEF OwnInv, In
  <2>16. Inv(M, S, sq)'
    <3>1. Stable(L, R, Others(R, sq, t), M, S)
      BY <2>6
    <3> QED BY ONLY <2>6, <2>7, <2>8, <2>9, <2>10, <2>11, <2>12, <2>13, <2>14,
               <2>15, <3>1, t \in Thread, Inv(L, R, sq), SharedStep
  <2>17. Return(t, "ok") /\ stack' = stack
    BY <1>6 DEF InsertCas
  <2> QED BY <2>5, <2>16, <2>17
<1> QED BY <1>5, <1>6

\* A step that leaves alone the nodes that calls may come upon, and P.
Aside(R, P) ==
  /\ UNCHANGED stack
  /\ \A n \in R \cup P : /\ succ'[n] = succ[n] /\ back'[n] = back[n]
                         /\ key'[n] = key[n]

LEMMA AsideFacts ==
  ASSUME NEW L, NEW R, NEW sq, Inv(L, R, sq), NEW P, Aside(R, P)
  PROVE  ListInv(L)' /\ RefInv(L, R)' /\ FlagInv(L)' /\ Stable(L, R, P, L, R)
<1>1. /\ ListInv(L) /\ RefInv(L, R) /\ FlagInv(L) /\ L \subseteq R
      /\ R \subseteq Node
  BY DEF Inv, RefInv
<1>2. \A n \in R : /\ succ'[n] = succ[n] /\ back'[n] = back[n]
                   /\ key'[n] = key[n]
  BY DEF Aside
<1>3. ListInv(L)'
  <2>1. \A n \in L : succ'[n] = succ[n] /\ key'[n] = key[n]
    BY <1>1, <1>2
  <2>2. /\ HeadN \in L /\ TailN \in L
        /\ \A m \in L \ {TailN} : succ[m].node \in L
    BY <1>1 DEF ListInv
  <2> QED BY <1>1, <2>1, <2>2 DEF ListInv, Leads
<1>4. RefInv(L, R)'
  <2>1. \A m \in R \ {TailN} : succ[m].node \in R
    BY <1>1 DEF RefInv
  <2>2. \A m \in R : succ[m].mark = MARKED => back[m] \in R
    BY <1>1 DEF RefInv
  <2> QED BY <1>1, <1>2, <2>1, <2>2 DEF RefInv
<1>5. FlagInv(L)'
  <2>1. \A n \in L : succ'[n] = succ[n]
    BY <1>1, <1>2
  <2>2. \A p \in L : succ'[p].mark = FLAGGED =>
          \E u \in Thread : Flags(stack'[u], p, succ'[p].node)
    BY <1>1, <2>1 DEF FlagInv, Aside
  <2>3. \A n \in L : succ'[n].mark = MARKED =>
          \E p \in L : Leads(p, n, FLAGGED)'
    BY <1>1, <2>1 DEF FlagInv, Leads
  <2> QED BY <2>2, <2>3 DEF FlagInv
<1>6. Stable(L, R, P, L, R)
  <2>1. \A m \in R \ {TailN} : succ[m].node \in R
    BY <1>1 DEF RefInv
  <2>2. \A p, d \in R : Leads(p, d, FLAGGED) => Leads(p, d, FLAGGED)'
    BY <1>2 DEF Leads
  <2>3. \A d \in R : BackSet(R, d) => BackSet(R, d)'
    BY <1>2 DEF BackSet
  <2>4. \A n \in R \cup P : succ'[n] = succ[n] /\ key'[n] = key[n]
    BY DEF Aside
  <2>5. \A n \in R \cup P : n \in L => n \in L
    OBVIOUS
  <2> QED BY <2>2, <2>3, <2>4, <2>5 DEF Stable
<1> QED BY <1>3, <1>4, <1>5, <1>6

\* What a call owns is kept by the others out of the list of free nodes.
LEMMA OthersOwn ==
  ASSUME NEW L, NEW R, NEW sq, Inv(L, R, sq), NEW t \in Thread
  PROVE  \A u \in Thread \ {t} :
           /\ OwnedOf(pc[u], stack[u], reg[u]) \cap In(sq) = {}
           /\ OwnedOf(pc[u], stack[u], reg[u])
                \cap OwnedOf(pc[t], stack[t], reg[t]) = {}
           /\ reg[u].op = "insert" => reg[u].node \notin R
  BY DEF Inv, OwnInv

\* mempool_free: the node becomes the last one of the free list.
LEMMA FreedFacts ==
  ASSUME TypeInv, NEW sq, PoolInv(sq), NEW n \in Node, n \notin In(sq),
         succ' = Freed(n), UNCHANGED free
  PROVE  /\ succ' \in [Node -> Link] /\ PoolInv(Append(sq, n))'
         /\ In(Append(sq, n)) = In(sq) \cup {n}
         /\ \A m \in Node \ (In(sq) \cup {n}) : succ'[m] = succ[m]
<1> PICK N, s, z : N = Len(sq) /\ z = sq[N] /\ s = Append(sq, n)
  OBVIOUS
<1>1. /\ sq \in Seq(Node) /\ N \in Nat /\ N >= 1 /\ sq[1] = free
      /\ \A i, j \in 1 .. N : sq[i] = sq[j] => i = j
      /\ \A i \in 1 .. N - 1 : succ[sq[i]].node = sq[i + 1]
      /\ succ[z].mark = 0
  BY DEF PoolInv, Leads
<1>2. z \in Node /\ z \in In(sq) /\ z # n
  BY <1>1 DEF In
<1>3. succ' = [succ EXCEPT ![n] = Ref(Null, 0), ![z] = Ref(n, @.mark + 1)]
  <2>1. Path(free) = sq
    BY PoolPath
  <2> QED BY <2>1 DEF Freed
<1>4. succ'[z] = Ref(n, 1)
  <2>1. succ'[z] = Ref(n, succ[z].mark + 1)
    BY <1>2, <1>3, Zenon DEF TypeInv
  <2> QED BY <1>1, <2>1
<1>5. succ'[n] = Ref(Null, 0) /\ \A m \in Node \ {n, z} : succ'[m] = succ[m]
  BY <1>2, <1>3 DEF TypeInv
<1>6. succ' = [m \in Node |-> succ'[m]]
  BY <1>3, Zenon DEF TypeInv
<1>7. /\ Ref(n, 1) \in Link /\ Ref(n, 1).node = n
      /\ Ref(Null, 0) \in Link /\ Ref(Null, 0).node = Null
      /\ Ref(Null, 0).mark = 0
  <2>1. n \in Maybe /\ Null \in Maybe /\ 0 \in 0 .. 2 /\ 1 \in 0 .. 2
    BY NodeFacts
  <2> QED BY <2>1, RefFacts
<1>8. succ' \in [Node -> Link]
  <2>1. \A m \in Node : succ'[m] \in Link
    <3>1. \A m \in Node : succ[m] \in Link
      BY TypeFacts
    <3> QED BY <1>4, <1>5, <1>7, <3>1
  <2> QED BY <1>6, <2>1
<1>9. /\ s \in Seq(Node) /\ Len(s) = N + 1 /\ s[N + 1] = n
      /\ \A i \in 1 .. N : s[i] = sq[i]
  BY <1>1
<1>10. \A i \in 1 .. N : sq[i] \in Node /\ sq[i] # n /\ sq[i] \in In(sq)
  BY <1>1 DEF In
<1>11. In(s) = In(sq) \cup {n}
  <2>1. \A i \in 1 .. N + 1 : i \in 1 .. N \/ i = N + 1
    BY <1>1
  <2>2. \A m : m \in In(s) <=> \E i \in 1 .. N + 1 : m = s[i]
    BY <1>9 DEF In
  <2>3. \A m : m \in In(sq) <=> \E i \in 1 .. N : m = sq[i]
    BY DEF In
  <2>4. N + 1 \in 1 .. N + 1 /\ \A i \in 1 .. N : i \in 1 .. N + 1
    BY <1>1
  <2>5. \A m : m \in In(s) <=> m \in In(sq) \/ m = n
    BY <1>9, <2>1, <2>2, <2>3, <2>4
  <2> QED BY <2>5
<1>12. PoolInv(s)'
  <2>1. s[1] = free' /\ Len(s) >= 1
    BY <1>1, <1>9
  <2>2. ASSUME NEW i \in 1 .. N + 1, NEW j \in 1 .. N + 1, s[i] = s[j]
        PROVE  i = j
    <3>1. (i \in 1 .. N \/ i = N + 1) /\ (j \in 1 .. N \/ j = N + 1)
      BY <1>1
    <3> QED BY <1>1, <1>9, <1>10, <2>2, <3>1
  <2>3. ASSUME NEW i \in 1 .. (N + 1) - 1 PROVE succ'[s[i]].node = s[i + 1]
    <3>1. i \in 1 .. N
      BY <1>1
    <3>2. CASE i = N
      BY <1>4, <1>7, <1>9, <3>1, <3>2
    <3>3. CASE i # N
      <4>1. i \in 1 .. N - 1 /\ i + 1 \in 1 .. N /\ N \in 1 .. N
        BY <1>1, <3>1, <3>3
      <4>2. sq[i] # z
        BY <1>1, <3>1, <3>3, <4>1
      <4>3. succ'[sq[i]] = succ[sq[i]]
        BY <1>5, <1>10, <3>1, <4>2
      <4> QED BY <1>1, <1>9, <3>1, <4>1, <4>3
    <3> QED BY <3>2, <3>3
  <2>4. Leads(s[N + 1], Null, 0)'
    BY <1>5, <1>7, <1>9 DEF Leads
  <2> QED BY <1>9, <2>1, <2>2, <2>3, <2>4 DEF PoolInv
<1>13. \A m \in Node \ (In(sq) \cup {n}) : succ'[m] = succ[m]
  BY <1>2, <1>5
<1> QED BY <1>8, <1>11, <1>12, <1>13

\* mempool_alloc: the first node of the free list is taken.
LEMMA AllocFacts ==
  ASSUME TypeInv, NEW sq, PoolInv(sq), succ[free].node # Null,
         free' = succ[free].node,
         \A m \in Node \ {free} : succ'[m] = succ[m]
  PROVE  /\ Tail(sq) \in Seq(Node) /\ PoolInv(Tail(sq))'
         /\ free \in In(sq) /\ free' \in Node
         /\ In(Tail(sq)) = In(sq) \ {free}
<1> PICK N, s : N = Len(sq) /\ s = Tail(sq)
  OBVIOUS
<1>1. /\ sq \in Seq(Node) /\ N \in Nat /\ N >= 1 /\ sq[1] = free /\ sq # <<>>
      /\ \A i, j \in 1 .. N : sq[i] = sq[j] => i = j
      /\ \A i \in 1 .. N - 1 : succ[sq[i]].node = sq[i + 1]
      /\ Leads(sq[N], Null, 0)
  BY DEF PoolInv
<1>2. N >= 2
  BY <1>1 DEF Leads
<1>3. /\ s \in Seq(Node) /\ Len(s) = N - 1
      /\ \A i \in 1 .. N - 1 : s[i] = sq[i + 1]
  BY <1>1, Popped
<1>4. /\ 1 \in 1 .. N - 1 /\ 1 \in 1 .. N
      /\ \A i \in 1 .. N - 1 : i + 1 \in 1 .. N /\ i + 1 # 1
      /\ \A i \in 1 .. N : i = 1 \/ (i - 1 \in 1 .. N - 1 /\ (i - 1) + 1 = i)
  BY <1>1, <1>2
<1>5. free \in In(sq) /\ s[1] = free' /\ free' \in Node
  <2>1. succ[free].node = sq[2] /\ sq[2] = s[1]
    BY <1>1, <1>3, <1>4
  <2>2. sq[2] \in Node
    BY <1>1, <1>2
  <2>3. free \in In(sq)
    BY <1>1, <1>4 DEF In
  <2> QED BY <2>1, <2>2, <2>3
<1>6. In(s) = In(sq) \ {free}
  <2>1. \A m : m \in In(s) <=> \E i \in 1 .. N - 1 : m = s[i]
    BY <1>3 DEF In
  <2>2. \A m : m \in In(sq) <=> \E i \in 1 .. N : m = sq[i]
    BY DEF In
  <2>3. ASSUME NEW m \in In(s) PROVE m \in In(sq) /\ m # free
    <3>1. PICK i \in 1 .. N - 1 : m = s[i]
      BY <2>1
    <3>2. m = sq[i + 1] /\ i + 1 \in 1 .. N /\ i + 1 # 1
      BY <1>3, <1>4, <3>1
    <3> QED BY <1>1, <1>4, <2>2, <3>2
  <2>4. ASSUME NEW m \in In(sq), m # free PROVE m \in In(s)
    <3>1. PICK i \in 1 .. N : m = sq[i]
      BY <2>2
    <3>2. i # 1
      BY <1>1, <2>4, <3>1
    <3>3. i - 1 \in 1 .. N - 1 /\ s[i - 1] = sq[i]
      BY <1>3, <1>4, <3>2
    <3> QED BY <2>1, <3>1, <3>3
  <2> QED BY <2>3, <2>4
<1>7. PoolInv(s)'
  <2>1. Len(s) >= 1
    BY <1>1, <1>2, <1>3
  <2>2. ASSUME NEW i \in 1 .. N - 1, NEW j \in 1 .. N - 1, s[i] = s[j]
        PROVE  i = j
    <3>1. sq[i + 1] = sq[j + 1] /\ i + 1 \in 1 .. N /\ j + 1 \in 1 .. N
      BY <1>3, <1>4, <2>2
    <3>2. i + 1 = j + 1
      BY <1>1, <3>1
    <3> QED BY <3>2
  <2>3. ASSUME NEW i \in 1 .. N - 1
        PROVE  s[i] \in Node /\ succ'[s[i]] = succ[s[i]]
    <3>1. s[i] = sq[i + 1] /\ i + 1 \in 1 .. N /\ i + 1 # 1
      BY <1>3, <1>4
    <3>2. s[i] # free /\ s[i] \in Node
      BY <1>1, <1>4, <3>1
    <3> QED BY <3>2
  <2>4. ASSUME NEW i \in 1 .. (N - 1) - 1 PROVE succ'[s[i]].node = s[i + 1]
    <3>1. /\ i \in 1 .. N - 1 /\ i + 1 \in 1 .. N - 1
          /\ s[i] = sq[i + 1] /\ s[i + 1] = sq[(i + 1) + 1]
      BY <1>1, <1>3
    <3> QED BY <1>1, <2>3, <3>1
  <2>5. Leads(s[N - 1], Null, 0)'
    <3>1. N - 1 \in 1 .. N - 1 /\ s[N - 1] = sq[N]
      <4>1. N - 1 \in 1 .. N - 1 /\ (N - 1) + 1 = N
        BY <1>1, <1>2
      <4> QED BY <1>3, <4>1
    <3> QED BY <1>1, <2>3, <3>1 DEF Leads
  <2> QED BY <1>3, <1>5, <2>1, <2>2, <2>4, <2>5 DEF PoolInv
<1> QED BY <1>3, <1>5, <1>6, <1>7

\* list_alloc_node
LEMMA InsertAllocInv ==
  ASSUME NEW L, NEW R, NEW sq, Inv(L, R, sq), NEW t \in Thread, InsertAlloc(t)
  PROVE  \E s : Inv(L, R, s)'
<1> PICK r, z, n, P, tq, F, l, s :
      /\ r = reg[t] /\ n = free /\ P = Others(R, sq, t) /\ tq = Tail(sq)
      /\ z = [r EXCEPT !.node = n, !.prev = r.curr, !.curr = Null]
      /\ F = In(tq) /\ l = "i_load" /\ s = stack[t]
  OBVIOUS
<1>1. /\ pc[t] = "i_found" /\ pc[t] \in Found /\ key[r.curr] # r.arg
      /\ succ[n].node # Null
  BY DEF InsertAlloc, Found
<1>2. /\ TypeInv /\ PoolInv(sq) /\ RefInv(L, R) /\ OwnInv(L, R, In(sq))
      /\ StackOk(L, R, pc[t], stack[t], r)
  BY DEF Inv
<1>3. /\ r \in Reg /\ ArgOk(r) /\ Seeks(R, r) /\ Between(R, r)
      /\ r.curr \in Node /\ r.next \in Node /\ r.key \in Int
      /\ key[r.curr] \in Int /\ key[r.next] \in Int
  BY <1>1, SearchFacts
<1>4. r.ret = "i_found" /\ r.key < key[r.next]
  BY <1>1, FoundFacts
<1>5. r.op = "insert" /\ r.key = r.arg /\ r.node = Null
  BY <1>3, <1>4 DEF Seeks
<1>6. s = <<>>
  BY <1>1, <1>2 DEF StackOk, Helping
<1>7. n \in Node /\ n \in In(sq) /\ n \notin R
  <2>1. n \in Node /\ sq[1] = n /\ 1 \in 1 .. Len(sq)
    BY <1>2 DEF TypeInv, PoolInv
  <2>2. n \in In(sq)
    BY <2>1 DEF In
  <2> QED BY <1>2, <2>1, <2>2 DEF OwnInv
<1>8. /\ free' = succ[n].node
      /\ succ' = [succ EXCEPT ![n] = Ref(Null, UNMARKED)]
      /\ back' = [back EXCEPT ![n] = Null]
      /\ key'  = [key EXCEPT ![n] = r.arg]
      /\ val'  = [val EXCEPT ![n] = r.v]
      /\ UNCHANGED <<stack, calls>>
      /\ pc' = [pc EXCEPT ![t] = l]
  BY DEF InsertAlloc, Goto
<1>9. \A m \in Node \ {n} : /\ succ'[m] = succ[m] /\ back'[m] = back[m]
                            /\ key'[m] = key[m]
  BY <1>2, <1>8 DEF TypeInv
<1>10. key'[n] = r.arg
  BY <1>2, <1>7, <1>8 DEF TypeInv
<1>11. /\ tq \in Seq(Node) /\ PoolInv(tq)' /\ free' \in Node
       /\ F = In(sq) \ {n}
  BY <1>1, <1>2, <1>8, <1>9, AllocFacts
<1>12. /\ z \in Reg /\ z.op = "insert" /\ z.arg = r.arg /\ z.node = n
       /\ z.prev = r.curr /\ z.next = r.next /\ z.v = r.v
  <2>1. n \in Maybe /\ r.curr \in Maybe /\ Null \in Maybe
    BY <1>3, <1>7, NodeFacts
  <2> QED BY <1>3, <1>5, <2>1 DEF Reg
<1>13. reg' = [reg EXCEPT ![t] = z]
  <2>1. reg' = [reg EXCEPT ![t].node = n, ![t].prev = r.curr,
                           ![t].curr = Null]
    BY DEF InsertAlloc
  <2>2. reg' = [reg EXCEPT ![t] = [reg[t] EXCEPT !.node = n, !.prev = r.curr,
                                                 !.curr = Null]]
    BY <1>2, <2>1 DEF TypeInv
  <2> QED BY <2>2
<1>14. stack' = [stack EXCEPT ![t] = s]
  BY <1>2, <1>8 DEF TypeInv
<1>15. Aside(R, P)
  <2>1. n \notin P
    BY <1>7 DEF Others
  <2>2. R \cup P \subseteq Node
    BY <1>2 DEF RefInv, Others
  <2> QED BY <1>7, <1>8, <1>9, <2>1, <2>2 DEF Aside
<1>16. ListInv(L)' /\ RefInv(L, R)' /\ FlagInv(L)' /\ Stable(L, R, P, L, R)
  BY <1>15, AsideFacts
<1>17. l \in Label /\ l \in Linking
  BY DEF Label, Linking
<1>18. TypeInv'
  <2>1. succ' \in [Node -> Link]
    <3>1. Ref(Null, UNMARKED) \in Link
      BY NodeFacts, RefFacts DEF UNMARKED
    <3> QED BY <1>2, <1>8, <3>1 DEF TypeInv
  <2>2. back' \in [Node -> Maybe]
    BY <1>2, <1>8, NodeFacts DEF TypeInv
  <2>3. key' \in [Node -> Key \cup {Bottom, Top, 0}]
    BY <1>2, <1>3, <1>8 DEF TypeInv, ArgOk
  <2>4. val' \in [Node -> Value \cup {None}]
    BY <1>2, <1>3, <1>8, RegFields DEF TypeInv
  <2>5. /\ pc' \in [Thread -> Label] /\ reg' \in [Thread -> Reg]
        /\ stack' \in [Thread -> Seq(HelpFrame)]
        /\ calls' \in [Thread -> 0 .. MaxCalls]
    BY <1>2, <1>8, <1>12, <1>13, <1>17 DEF TypeInv
  <2> QED BY <1>11, <2>1, <2>2, <2>3, <2>4, <2>5 DEF TypeInv
<1>19. RegOk(L, R, l, z)'
  <2>1. z.arg \in Key /\ z.v \in Value
    BY <1>3, <1>5, <1>12 DEF ArgOk
  <2>2. Mine(z)'
    BY <1>7, <1>10, <1>12 DEF Mine
  <2>3. r.curr \in R /\ r.next \in R /\ r.arg \in Int
        /\ key'[r.curr] = key[r.curr] /\ key'[r.next] = key[r.next]
    BY <1>3, <1>5, <1>7, <1>9 DEF Between
  <2>4. Behind(R, z)'
    <3>1. key[r.curr] < r.arg
      BY <1>1, <1>3, <1>5, <2>3 DEF Between
    <3> QED BY <1>12, <2>3, <3>1 DEF Behind
  <2>5. z.next \in R /\ z.arg < key'[z.next]
    BY <1>4, <1>5, <1>12, <2>3
  <2> QED BY <2>1, <2>2, <2>4, <2>5 DEF RegOk, Searching, Found, Marking,
                Linking, Flagging, Helping
<1>20. StackOk(L, R, l, s, z)'
  BY <1>6 DEF StackOk, FramesOk, Helping
<1>21. OwnInv(L, R, In(tq))'
  <2> PICK O : O = OwnedOf(l, s, z)
    OBVIOUS
  <2>1. O = {n}
    BY <1>7, <1>12, NodeFacts DEF OwnedOf
  <2>2. ASSUME NEW u \in Thread \ {t}
        PROVE  /\ OwnedOf(pc[u], stack[u], reg[u]) \cap F = {}
               /\ OwnedOf(pc[u], stack[u], reg[u]) \cap O = {}
               /\ reg[u].op = "insert" => reg[u].node \notin R
    BY <1>7, <1>11, <2>1, OthersOwn
  <2>3. R \cap F = {}
    BY <1>2, <1>11 DEF OwnInv
  <2>4. ASSUME NEW d \in Node \ (L \cup F)
        PROVE  \/ d \in O
               \/ \E u \in Thread \ {t} : d \in OwnedOf(pc[u], stack[u], reg[u])
    <3>1. CASE d = n
      BY <2>1, <3>1
    <3>2. CASE d # n
      <4>1. d \in Node \ (L \cup In(sq))
        BY <1>11, <3>2
      <4>2. PICK u \in Thread : d \in OwnedOf(pc[u], stack[u], reg[u])
        BY <1>2, <4>1 DEF OwnInv
      <4>3. u # t
        BY <1>1, <1>5, <1>6, <4>2 DEF OwnedOf
      <4> QED BY <4>2, <4>3
    <3> QED BY <3>1, <3>2
  <2>5. /\ t \in Thread /\ Inv(L, R, sq) /\ O = OwnedOf(l, s, z)
        /\ (z.op = "insert" => z.node \notin R) /\ O \cap F = {}
    BY <1>7, <1>11, <1>12, <2>1
  <2>6. OwnInv(L, R, F)'
    BY ONLY <1>8, <1>13, <1>14, <2>2, <2>3, <2>4, <2>5, OwnStep
  <2> QED BY <2>6 DEF OwnInv, In
<1>22. Inv(L, R, tq)'
  <2>1. /\ Stable(L, R, Others(R, sq, t), L, R) /\ s \in Seq(HelpFrame)
        /\ t \in Thread /\ Inv(L, R, sq)
    BY <1>6, <1>16
  <2> QED BY ONLY <1>8, <1>11, <1>12, <1>13, <1>14, <1>16, <1>17, <1>18, <1>19,
             <1>20, <1>21, <2>1, SharedStep
<1> QED BY <1>22

\* list_insert helps the call that has flagged prev, or links its node to next.
LEMMA LoadInv ==
  ASSUME NEW L, NEW R, NEW sq, Inv(L, R, sq), NEW t \in Thread,
         pc[t] \in Plain, stack[t] = <<>>, NEW r \in Reg, Load(t, r),
         Mine(r), Behind(R, r), ArgOk(r), r.op = reg[t].op,
         r.node = reg[t].node, r.next \in R, r.arg < key[r.next]
  PROVE  Inv(L, R, sq)'
<1> PICK p, n, x : p = r.prev /\ n = r.node /\ x = r.next
  OBVIOUS
<1>1. /\ TypeInv /\ PoolInv(sq) /\ RefInv(L, R) /\ OwnInv(L, R, In(sq))
  BY DEF Inv
<1>2. /\ p \in R /\ p \in Node /\ x \in Node /\ n \in Node /\ key[n] = r.arg
      /\ r.op = "insert" /\ succ[p] \in Link /\ n \notin R
  BY <1>1, TypeFacts DEF Behind, Mine, RefInv, OwnInv
<1>3. reg' = [reg EXCEPT ![t] = r] /\ UNCHANGED calls
  BY DEF Load
<1>4. CASE is_flagged(succ[p])
  <2>1. succ[p].mark = FLAGGED
    BY <1>2, <1>4, MarkFacts
  <2>2. /\ succ[p].node \in R
        /\ FrameOk(R, Frame(p, succ[p].node, "i_search"))
    BY <1>2, <2>1, FlaggedFacts
  <2>3. /\ Help(t, p, succ[p].node, "i_search") /\ UNCHANGED <<nodes, calls>>
    BY <1>4 DEF Load
  <2> PICK d : d = succ[p].node
    OBVIOUS
  <2>4. /\ d \in R /\ Help(t, p, d, "i_search")
        /\ FrameOk(R, Frame(p, d, "i_search"))
    BY <2>2, <2>3
  <2> QED BY <1>2, <1>3, <2>3, <2>4, HelpStep
<1>5. CASE ~ is_flagged(succ[p])
  <2> PICK P, l, s : P = Others(R, sq, t) /\ l = "i_cas" /\ s = stack[t]
    OBVIOUS
  <2>1. /\ succ' = [succ EXCEPT ![n] = Ref(x, UNMARKED)]
        /\ pc' = [pc EXCEPT ![t] = l]
        /\ UNCHANGED <<back, key, val, free, stack, calls>>
    BY <1>5 DEF Load, Goto
  <2>2. OwnedOf(pc[t], stack[t], reg[t]) = {n}
    BY <1>2, NodeFacts DEF OwnedOf
  <2>3. OwnedOf(l, s, r) = {n}
    BY <1>2, NodeFacts DEF OwnedOf
  <2>4. n \notin In(sq) /\ n \notin P
    BY <1>1, <2>2 DEF OwnInv, Others
  <2>5. \A m \in Node \ {n} : succ'[m] = succ[m]
    BY <1>1, <2>1 DEF TypeInv
  <2>6. Ref(x, UNMARKED) \in Link /\ succ'[n].node = x
        /\ succ'[n].mark = UNMARKED
    <3>1. x \in Maybe /\ UNMARKED \in 0 .. 2
      BY <1>2, NodeFacts DEF UNMARKED
    <3>2. succ'[n] = Ref(x, UNMARKED)
      BY <1>1, <1>2, <2>1 DEF TypeInv
    <3> QED BY <3>1, <3>2, RefFacts
  <2>7. Aside(R, P)
    <3>1. R \cup P \subseteq Node
      BY <1>1 DEF RefInv, Others
    <3> QED BY <1>2, <2>1, <2>4, <2>5, <3>1 DEF Aside
  <2>8. ListInv(L)' /\ RefInv(L, R)' /\ FlagInv(L)' /\ Stable(L, R, P, L, R)
    BY <2>7, AsideFacts
  <2>9. PoolInv(sq)'
    <3>1. \A m \in In(sq) : m \in Node /\ m # n
      BY <1>1, <2>4 DEF PoolInv, In
    <3>2. \A m \in In(sq) : succ'[m] = succ[m]
      BY <2>5, <3>1
    <3> QED BY <1>1, <2>1, <3>2, PoolKept
  <2>10. stack' = [stack EXCEPT ![t] = s]
    BY <1>1, <2>1 DEF TypeInv
  <2>11. l \in Label /\ l \in Linking
    BY DEF Label, Linking
  <2>12. TypeInv'
    <3>1. succ' \in [Node -> Link]
      BY <1>1, <2>1, <2>6 DEF TypeInv
    <3> QED BY <1>1, <1>3, <2>1, <2>11, <3>1 DEF TypeInv
  <2>13. RegOk(L, R, l, r)'
    <3>1. Mine(r)' /\ Behind(R, r)'
      BY <2>1 DEF Mine, Behind
    <3>2. Leads(r.node, r.next, UNMARKED)'
      BY <2>6 DEF Leads
    <3>3. r.arg < key'[r.next]
      BY <2>1
    <3> QED BY <1>2, <3>1, <3>2, <3>3 DEF RegOk, Searching, Found, Marking,
                Linking, Flagging, Helping, ArgOk
  <2>14. StackOk(L, R, l, s, r)'
    BY DEF StackOk, FramesOk, Helping
  <2>15. OwnInv(L, R, In(sq))'
    <3>1. OwnedOf(l, s, r) = OwnedOf(pc[t], stack[t], reg[t])
      BY <2>2, <2>3
    <3>2. r.op = "insert" => r.node \notin R
      BY <1>2
    <3> QED BY <1>3, <2>1, <2>10, <3>1, <3>2, OwnKept
  <2>16. /\ Stable(L, R, Others(R, sq, t), L, R) /\ s \in Seq(HelpFrame)
         /\ t \in Thread /\ Inv(L, R, sq) /\ r \in Reg
    BY <2>8
  <2> QED BY ONLY <1>3, <2>1, <2>8, <2>9, <2>10, <2>11, <2>12, <2>13, <2>14,
             <2>15, <2>16, SharedStep
<1> QED BY <1>4, <1>5

LEMMA InsertLoadInv ==
  ASSUME NEW L, NEW R, NEW sq, Inv(L, R, sq), NEW t \in Thread, InsertLoad(t)
  PROVE  Inv(L, R, sq)'
<1>1. pc[t] = "i_load" /\ pc[t] \in Linking /\ Load(t, reg[t])
  BY DEF InsertLoad, Linking
<1>2. /\ reg[t] \in Reg /\ ArgOk(reg[t]) /\ Behind(R, reg[t])
      /\ pc[t] \in Plain /\ stack[t] = <<>> /\ Mine(reg[t])
  BY <1>1, PrevFacts
<1>3. reg[t].next \in R /\ reg[t].arg < key[reg[t].next]
  BY <1>1 DEF Inv, RegOk
<1> QED BY <1>1, <1>2, <1>3, LoadInv

\* A call frees the node that it owns, and returns.
LEMMA FreeStep ==
  ASSUME NEW L, NEW R, NEW sq, Inv(L, R, sq), NEW t \in Thread, stack[t] = <<>>,
         NEW n \in Node, n \notin R, OwnedOf(pc[t], stack[t], reg[t]) = {n},
         succ' = Freed(n), NEW o \in {"ok", "exist", "noent", "nomem"},
         Return(t, o), UNCHANGED <<back, key, val, free, stack, calls>>
  PROVE  \E s : Inv(L, R, s)'
<1> PICK z, P, tq, F, l, s :
      /\ P = Others(R, sq, t) /\ tq = Append(sq, n)
      /\ z = [Idle EXCEPT !.out = o]
      /\ F = In(tq) /\ l = "idle" /\ s = stack[t]
  OBVIOUS
<1>1. /\ TypeInv /\ PoolInv(sq) /\ RefInv(L, R) /\ OwnInv(L, R, In(sq))
  BY DEF Inv
<1>2. OwnedOf(pc[t], stack[t], reg[t]) = {n}
  OBVIOUS
<1>3. n \notin In(sq) /\ n \notin P
  BY <1>1, <1>2 DEF OwnInv, Others
<1>4. /\ succ' = Freed(n) /\ reg' = [reg EXCEPT ![t] = z]
      /\ pc' = [pc EXCEPT ![t] = l]
      /\ UNCHANGED <<back, key, val, free, stack, calls>>
  BY DEF Return, Goto
<1>5. /\ succ' \in [Node -> Link] /\ PoolInv(tq)'
      /\ F = In(sq) \cup {n}
      /\ \A m \in Node \ (In(sq) \cup {n}) : succ'[m] = succ[m]
  BY <1>1, <1>3, <1>4, FreedFacts
<1>6. z \in Reg /\ z.op = "search" /\ z.node = Null
  BY ReturnFacts
<1>7. Aside(R, P)
  <2>1. \A m \in R \cup P : m \in Node /\ m \notin In(sq) /\ m # n
    BY <1>1, <1>3 DEF RefInv, Others, OwnInv
  <2> QED BY <1>4, <1>5, <2>1 DEF Aside
<1>8. ListInv(L)' /\ RefInv(L, R)' /\ FlagInv(L)' /\ Stable(L, R, P, L, R)
  BY <1>7, AsideFacts
<1>9. stack' = [stack EXCEPT ![t] = s] /\ s \in Seq(HelpFrame)
  BY <1>1, <1>4 DEF TypeInv
<1>10. l \in Label /\ l \notin Helping
  BY DEF Label, Helping
<1>11. TypeInv'
  BY <1>1, <1>4, <1>5, <1>6, <1>10 DEF TypeInv
<1>12. RegOk(L, R, l, z)'
  BY <1>6 DEF RegOk, Searching, Found, Marking, Linking, Flagging, Helping
<1>13. StackOk(L, R, l, s, z)'
  BY <1>10 DEF StackOk, FramesOk
<1>14. OwnInv(L, R, In(tq))'
  <2> PICK O : O = OwnedOf(l, s, z)
    OBVIOUS
  <2>1. O = {}
    BY <1>6 DEF OwnedOf
  <2>2. ASSUME NEW u \in Thread \ {t}
        PROVE  /\ OwnedOf(pc[u], stack[u], reg[u]) \cap F = {}
               /\ OwnedOf(pc[u], stack[u], reg[u]) \cap O = {}
               /\ reg[u].op = "insert" => reg[u].node \notin R
    BY <1>2, <1>5, <2>1, OthersOwn
  <2>3. R \cap F = {}
    BY <1>1, <1>5 DEF OwnInv
  <2>4. ASSUME NEW d \in Node \ (L \cup F)
        PROVE  \/ d \in O
               \/ \E u \in Thread \ {t} : d \in OwnedOf(pc[u], stack[u], reg[u])
    <3>1. PICK u \in Thread : d \in OwnedOf(pc[u], stack[u], reg[u])
      BY <1>1, <1>5 DEF OwnInv
    <3>2. u # t
      BY <1>2, <1>5, <3>1
    <3> QED BY <3>1, <3>2
  <2>5. /\ t \in Thread /\ Inv(L, R, sq) /\ O = OwnedOf(l, s, z)
        /\ (z.op = "insert" => z.node \notin R) /\ O \cap F = {}
    BY <1>6, <2>1
  <2>6. OwnInv(L, R, F)'
    BY ONLY <1>4, <1>9, <2>2, <2>3, <2>4, <2>5, OwnStep
  <2> QED BY <2>6 DEF OwnInv, In
<1>15. Inv(L, R, tq)'
  <2>1. /\ Stable(L, R, Others(R, sq, t), L, R)
        /\ t \in Thread /\ Inv(L, R, sq)
        /\ ListInv(L)' /\ RefInv(L, R)' /\ FlagInv(L)' /\ PoolInv(tq)'
    BY <1>5, <1>8
  <2>2. /\ pc' = [pc EXCEPT ![t] = l] /\ reg' = [reg EXCEPT ![t] = z]
        /\ z \in Reg
    BY <1>4, <1>6
  <2> QED BY ONLY <1>9, <1>10, <1>11, <1>12, <1>13, <1>14, <2>1, <2>2,
             SharedStep
<1> QED BY <1>15

\* A thread that found the key absent loads the new predecessor.
LEMMA AgainLoadInv ==
  ASSUME NEW L, NEW R, NEW sq, Inv(L, R, sq), NEW t \in Thread, InsertAgain(t),
         key[reg[t].curr] # reg[t].arg
  PROVE  Inv(L, R, sq)'
<1> PICK r : r = reg[t]
  OBVIOUS
<1> PICK z : z = [r EXCEPT !.prev = r.curr, !.curr = Null]
  OBVIOUS
<1>1. pc[t] = "i_again" /\ pc[t] \in Found
  BY DEF InsertAgain, Found
<1>2. /\ r \in Reg /\ ArgOk(r) /\ Seeks(R, r) /\ Between(R, r)
      /\ pc[t] \in Plain /\ r.curr \in Node
      /\ key[r.curr] \in Int /\ key[r.next] \in Int /\ r.key \in Int
  BY <1>1, SearchFacts
<1>3. r.ret = "i_again" /\ r.key < key[r.next]
  BY <1>1, FoundFacts
<1>4. Mine(r) /\ r.key = r.arg
  BY <1>2, <1>3 DEF Seeks
<1>5. stack[t] = <<>>
  BY <1>1 DEF Inv, StackOk, Helping
<1>6. /\ z \in Reg /\ z.op = r.op /\ z.arg = r.arg /\ z.node = r.node
      /\ z.prev = r.curr /\ z.next = r.next /\ z.v = r.v
  <2>1. r.curr \in Maybe /\ Null \in Maybe
    BY <1>2, NodeFacts
  <2> QED BY <1>2, <2>1 DEF Reg
<1>7. Load(t, z)
  BY DEF InsertAgain
<1>8. Mine(z) /\ ArgOk(z) /\ z.next \in R /\ z.arg < key[z.next]
  BY <1>2, <1>3, <1>4, <1>6 DEF Mine, ArgOk, Between
<1>9. Behind(R, z)
  <2>1. r.curr \in R /\ key[r.curr] <= r.arg
    BY <1>2, <1>4 DEF Between
  <2>2. key[r.curr] < r.arg
    BY <1>2, <1>4, <2>1
  <2> QED BY <1>6, <2>1, <2>2 DEF Behind
<1> QED BY <1>2, <1>5, <1>6, <1>7, <1>8, <1>9, LoadInv

\* The key has been inserted meanwhile, and list_insert frees its node.
LEMMA InsertAgainInv ==
  ASSUME NEW L, NEW R, NEW sq, Inv(L, R, sq), NEW t \in Thread, InsertAgain(t)
  PROVE  \E s : Inv(L, R, s)'
<1> PICK r : r = reg[t]
  OBVIOUS
<1>1. pc[t] = "i_again" /\ pc[t] \in Found
  BY DEF InsertAgain, Found
<1>2. /\ TypeInv /\ PoolInv(sq) /\ RefInv(L, R) /\ OwnInv(L, R, In(sq))
      /\ StackOk(L, R, pc[t], stack[t], r)
  BY DEF Inv
<1>3. /\ r \in Reg /\ ArgOk(r) /\ Seeks(R, r) /\ Between(R, r)
      /\ pc[t] \in Plain
      /\ r.curr \in Node /\ r.next \in Node /\ r.key \in Int
      /\ key[r.curr] \in Int /\ key[r.next] \in Int
  BY <1>1, SearchFacts
<1>4. r.ret = "i_again" /\ r.key < key[r.next]
  BY <1>1, FoundFacts
<1>5. Mine(r) /\ r.key = r.arg
  BY <1>3, <1>4 DEF Seeks
<1>6. stack[t] = <<>>
  BY <1>1, <1>2 DEF StackOk, Helping
<1>7. CASE key[r.curr] # r.arg
  BY <1>7, AgainLoadInv
<1>8. CASE key[r.curr] = r.arg
  <2> PICK n, o : n = r.node /\ o = "exist"
    OBVIOUS
  <2>1. n \in Node /\ r.op = "insert" /\ n \notin R
    BY <1>2, <1>5 DEF Mine, OwnInv
  <2>2. OwnedOf(pc[t], stack[t], reg[t]) = {n}
    BY <2>1, NodeFacts DEF OwnedOf
  <2>3. /\ succ' = Freed(n) /\ Return(t, o)
        /\ UNCHANGED <<back, key, val, free, stack, calls>>
    BY <1>8 DEF InsertAgain
  <2> QED BY <1>6, <2>1, <2>2, <2>3, FreeStep
<1> QED BY <1>7, <1>8

\* When no call is in progress but those that are about to free their nodes,
\* no call may come upon a node that is not in the list.
LEMMA QuietInv ==
  ASSUME NEW L, NEW R, NEW sq, Inv(L, R, sq),
         \A u \in Thread : pc[u] \in {"idle", "d_free"}
  PROVE  Inv(L, L, sq)
<1>1. /\ TypeInv /\ ListInv(L) /\ RefInv(L, R) /\ FlagInv(L) /\ PoolInv(sq)
      /\ OwnInv(L, R, In(sq))
  BY DEF Inv
<1>2. ASSUME NEW u \in Thread
      PROVE  /\ RegOk(L, R, pc[u], reg[u])
             /\ StackOk(L, R, pc[u], stack[u], reg[u])
  BY DEF Inv
<1>3. ASSUME NEW u \in Thread PROVE stack[u] = <<>>
  BY <1>2 DEF StackOk, Helping
<1>4. \A n \in L : succ[n].mark # FLAGGED
  BY <1>1, <1>3 DEF FlagInv, Flags
<1>5. \A n \in L : succ[n].mark # MARKED
  BY <1>1, <1>4 DEF FlagInv, Leads
<1>6. RefInv(L, L)
  BY <1>1, <1>5 DEF RefInv, ListInv
<1>7. OwnInv(L, L, In(sq))
  BY <1>1 DEF OwnInv, RefInv
<1>8. ASSUME NEW u \in Thread
      PROVE  /\ RegOk(L, L, pc[u], reg[u])
             /\ StackOk(L, L, pc[u], stack[u], reg[u])
  <2>1. RegOk(L, L, pc[u], reg[u])
    BY <1>2 DEF RegOk, Searching, Found, Marking, Linking, Flagging, Helping
  <2>2. StackOk(L, L, pc[u], stack[u], reg[u])
    BY <1>3 DEF StackOk, FramesOk, Helping
  <2> QED BY <2>1, <2>2
<1> QED BY <1>1, <1>6, <1>7, <1>8 DEF Inv

LEMMA DeleteFreeInv ==
  ASSUME NEW L, NEW R, NEW sq, Inv(L, R, sq), NEW t \in Thread,
         DeleteFree(t), ~ Early(t)
  PROVE  \E s : Inv(L, L, s)'
<1>1. pc[t] = "d_free" /\ \A u \in Thread : pc[u] \in {"idle", "d_free"}
  BY DEF DeleteFree, Early
<1>2. Inv(L, L, sq)
  BY <1>1, QuietInv
<1> PICK n, o : n = reg[t].node /\ o = "ok"
  OBVIOUS
<1>3. n \in Node /\ n \notin L
  BY <1>1, <1>2 DEF Inv, RegOk
<1>4. OwnedOf(pc[t], stack[t], reg[t]) = {n} /\ stack[t] = <<>>
  BY <1>1, <1>2, <1>3, NodeFacts DEF OwnedOf, Inv, StackOk, Helping
<1>5. /\ succ' = Freed(n) /\ Return(t, o)
      /\ UNCHANGED <<back, key, val, free, stack, calls>>
  BY DEF DeleteFree
<1> QED BY <1>2, <1>3, <1>4, <1>5, FreeStep

-----------------------------------------------------------------------------
\* The keys of Filled, which increase.
LEMMA FilledFacts ==
  /\ NF \in Nat /\ NF <= Capacity
  /\ \A i \in 2 .. NF + 1 :
       Filled[i - 1][1] \in Key /\ Filled[i - 1][2] \in Value
  /\ \A i, j \in 2 .. NF + 1 : i < j => Filled[i - 1][1] < Filled[j - 1][1]
<1>1. /\ NF \in Nat /\ NF <= Capacity /\ Filled \in Seq(Key \X Value)
      /\ NF = Len(Filled) /\ DOMAIN Filled = 1 .. NF
  BY ListAssumption DEF NF
<1>2. \A i \in 1 .. NF : Filled[i] \in Key \X Value
  BY <1>1
<1>3. \A i, j \in 1 .. NF : i < j => Filled[i][1] < Filled[j][1]
  BY <1>1, ListAssumption
<1>4. \A i \in 2 .. NF + 1 : i - 1 \in 1 .. NF
  BY <1>1
<1>5. \A i, j \in 2 .. NF + 1 : i < j => i - 1 < j - 1
  BY <1>1
<1>6. \A i \in 1 .. NF : Filled[i][1] \in Key /\ Filled[i][2] \in Value
  BY <1>2
<1> QED BY <1>1, <1>3, <1>4, <1>5, <1>6

LEMMA SetupFacts ==
  /\ Setup(TailN) = Ref(Null, UNMARKED)
  /\ Setup(Capacity + 2) = Ref(Null, UNMARKED)
  /\ NF = 0 => Setup(HeadN) = Ref(TailN, UNMARKED)
  /\ NF > 0 => /\ Setup(HeadN) = Ref(2, UNMARKED)
               /\ Setup(NF + 1) = Ref(TailN, UNMARKED)
  /\ \A i \in 2 .. NF : Setup(i) = Ref(i + 1, UNMARKED)
  /\ \A i \in NF + 2 .. Capacity + 1 : Setup(i) = Ref(i + 1, 1)
<1>1. NF \in Nat /\ NF <= Capacity /\ Capacity \in Nat
  BY FilledFacts, NodeFacts
<1>2. /\ Setup(TailN) = Ref(Null, UNMARKED)
      /\ Setup(Capacity + 2) = Ref(Null, UNMARKED)
  BY <1>1 DEF Setup
<1>3. ASSUME NF = 0 PROVE Setup(HeadN) = Ref(TailN, UNMARKED)
  BY <1>1, <1>3 DEF Setup, HeadN, TailN
<1>4. ASSUME NF > 0 PROVE Setup(HeadN) = Ref(2, UNMARKED)
  BY <1>1, <1>4 DEF Setup, HeadN, TailN
<1>5. ASSUME NF > 0 PROVE Setup(NF + 1) = Ref(TailN, UNMARKED)
  BY <1>1, <1>5 DEF Setup, HeadN, TailN
<1>6. ASSUME NEW i \in 2 .. NF PROVE Setup(i) = Ref(i + 1, UNMARKED)
  BY <1>1, <1>6 DEF Setup, HeadN, TailN
<1>7. ASSUME NEW i \in NF + 2 .. Capacity + 1 PROVE Setup(i) = Ref(i + 1, 1)
  BY <1>1, <1>7 DEF Setup, HeadN, TailN
<1> QED BY <1>2, <1>3, <1>4, <1>5, <1>6, <1>7

\* The nodes 0 to NF + 1 are the list, and the others are free.
LEMMA InitInv ==
  ASSUME Init
  PROVE  \E sq : Inv(0 .. NF + 1, 0 .. NF + 1, sq)
<1> PICK L, B, Z : /\ L = 0 .. NF + 1 /\ Z = Capacity + 2
                   /\ B = [i \in 1 .. (Capacity + 1) - NF |-> (NF + 1) + i]
  OBVIOUS
<1>1. /\ NF \in Nat /\ NF <= Capacity /\ Capacity \in Nat
      /\ Node = 0 .. Z /\ Z \in Nat /\ NF + 1 < Z
  BY FilledFacts, NodeFacts
<1>2. HeadN = 0 /\ TailN = 1 /\ Bottom = -1 /\ Null \notin Node
      /\ UNMARKED = 0 /\ MARKED = 1 /\ FLAGGED = 2
  BY NodeFacts DEF HeadN, TailN, UNMARKED, MARKED, FLAGGED
<1>3. \A i \in Node : succ[i] = Setup(i)
  BY DEF Init
<1>4. \A n \in Maybe, m \in 0 .. 2 :
        Ref(n, m) \in Link /\ Ref(n, m).node = n /\ Ref(n, m).mark = m
  BY RefFacts
<1>5. \A i \in 2 .. NF : succ[i] \in Link /\ Leads(i, i + 1, 0)
  <2> SUFFICES ASSUME NEW i \in 2 .. NF
               PROVE  succ[i] \in Link /\ Leads(i, i + 1, 0)
    OBVIOUS
  <2>1. i \in Node /\ i + 1 \in Maybe
    BY <1>1 DEF Maybe
  <2> QED BY <1>2, <1>3, <1>4, <2>1, SetupFacts DEF Leads
<1>6. \A i \in NF + 2 .. Capacity + 1 : succ[i] \in Link /\ Leads(i, i + 1, 1)
  <2> SUFFICES ASSUME NEW i \in NF + 2 .. Capacity + 1
               PROVE  succ[i] \in Link /\ Leads(i, i + 1, 1)
    OBVIOUS
  <2>1. i \in Node /\ i + 1 \in Maybe
    BY <1>1 DEF Maybe
  <2> QED BY <1>2, <1>3, <1>4, <2>1, SetupFacts DEF Leads
<1>7. /\ succ[1] \in Link /\ Leads(1, Null, 0)
      /\ succ[Z] \in Link /\ Leads(Z, Null, 0)
  <2>1. 1 \in Node /\ Z \in Node /\ Null \in Maybe
    BY <1>1 DEF Maybe
  <2> QED BY <1>2, <1>3, <1>4, <2>1, SetupFacts DEF Leads
<1>8. /\ succ[0] \in Link /\ Leads(0, IF NF = 0 THEN 1 ELSE 2, 0)
      /\ NF > 0 => succ[NF + 1] \in Link /\ Leads(NF + 1, 1, 0)
  <2>1. 0 \in Node /\ 1 \in Maybe /\ 2 \in Maybe /\ NF + 1 \in Node
    BY <1>1 DEF Maybe
  <2>2. CASE NF = 0
    BY <1>2, <1>3, <1>4, <2>1, <2>2, SetupFacts DEF Leads
  <2>3. CASE NF > 0
    BY <1>2, <1>3, <1>4, <2>1, <2>3, SetupFacts DEF Leads
  <2> QED BY <1>1, <2>2, <2>3
<1>9. \A i \in Node : i = 0 \/ i = 1 \/ i \in 2 .. NF \/ (NF > 0 /\ i = NF + 1)
                      \/ i \in NF + 2 .. Capacity + 1 \/ i = Z
  BY <1>1
<1>10. succ \in [Node -> Link]
  <2>1. \A i \in Node : succ[i] \in Link
    BY <1>5, <1>6, <1>7, <1>8, <1>9
  <2> QED BY <2>1 DEF Init
<1>11. /\ key[0] = -1 /\ key[1] = Top /\ Top \in Nat
       /\ \A i \in 2 .. NF + 1 : key[i] = Filled[i - 1][1] /\ key[i] \in Key
                                 /\ key[i] \in Nat /\ key[i] < Top
       /\ \A i \in NF + 2 .. Z : key[i] = 0
  <2>1. 0 \in Node /\ 1 \in Node
    BY <1>1
  <2>2. \A i \in Node : key[i] = CASE i = HeadN -> Bottom [] i = TailN -> Top
                                   [] i \in 2 .. NF + 1 -> Filled[i - 1][1]
                                   [] OTHER -> 0
    BY DEF Init
  <2>3. key[0] = -1 /\ key[1] = Top
    BY <1>2, <2>1, <2>2
  <2>4. \A i \in 2 .. NF + 1 : key[i] = Filled[i - 1][1]
    <3> SUFFICES ASSUME NEW i \in 2 .. NF + 1 PROVE key[i] = Filled[i - 1][1]
      OBVIOUS
    <3>1. i \in Node /\ i # 0 /\ i # 1
      BY <1>1
    <3> QED BY <1>2, <2>2, <3>1
  <2>5. \A i \in NF + 2 .. Z : key[i] = 0
    <3> SUFFICES ASSUME NEW i \in NF + 2 .. Z PROVE key[i] = 0
      OBVIOUS
    <3>1. i \in Node /\ i # 0 /\ i # 1 /\ i \notin 2 .. NF + 1
      BY <1>1
    <3> QED BY <1>2, <2>2, <3>1
  <2>6. \A i \in 2 .. NF + 1 : key[i] \in Key
    BY <2>4, FilledFacts
  <2> QED BY <2>3, <2>4, <2>5, <2>6, TopFacts
<1>12. \A i, j \in 2 .. NF + 1 : i < j => key[i] < key[j]
  BY <1>11, FilledFacts
<1>13. /\ back \in [Node -> Maybe] /\ val \in [Node -> Value \cup {None}]
       /\ key \in [Node -> Key \cup {Bottom, Top, 0}]
  <2>1. back \in [Node -> Maybe]
    BY NodeFacts DEF Init
  <2>2. val \in [Node -> Value \cup {None}]
    <3>1. \A i \in 2 .. NF + 1 : Filled[i - 1][2] \in Value
      BY FilledFacts
    <3> QED BY <3>1 DEF Init
  <2>3. \A i \in Node : key[i] \in Key \cup {Bottom, Top, 0}
    <3>1. \A i \in Node : \/ i = 0 \/ i = 1 \/ i \in 2 .. NF + 1
                          \/ i \in NF + 2 .. Z
      BY <1>1
    <3> QED BY <1>2, <1>11, <3>1
  <2> QED BY <2>1, <2>2, <2>3 DEF Init
<1>14. Idle \in Reg /\ Idle.op = "search" /\ Idle.node = Null
  BY NodeFacts DEF Idle, Reg, Op, Label
<1>15. /\ free = NF + 2 /\ free \in Node
       /\ \A t \in Thread : pc[t] = "idle" /\ reg[t] = Idle /\ stack[t] = <<>>
  BY <1>1 DEF Init
<1>16. TypeInv
  <2>1. MaxCalls \in Nat
    BY ListAssumption
  <2>2. /\ pc \in [Thread -> Label] /\ reg \in [Thread -> Reg]
        /\ stack \in [Thread -> Seq(HelpFrame)]
        /\ calls \in [Thread -> 0 .. MaxCalls]
    BY <1>14, <2>1 DEF Init, Label
  <2> QED BY <1>10, <1>13, <1>15, <2>2 DEF TypeInv
<1>17. \A m \in L \ {1} : m = 0 \/ m \in 2 .. NF \/ (NF > 0 /\ m = NF + 1)
  BY <1>1
<1>18. \A m \in L : m = 0 \/ m = 1 \/ m \in 2 .. NF + 1
  BY <1>1
<1>19. ListInv(L)
  <2>1. HeadN \in L /\ TailN \in L /\ L \subseteq Node
    BY <1>1, <1>2
  <2>2. ASSUME NEW m \in L, NEW n \in L, key[m] = key[n] PROVE m = n
    <3>1. CASE m \in 2 .. NF + 1 /\ n \in 2 .. NF + 1
      BY <1>1, <1>11, <1>12, <2>2, <3>1
    <3>2. CASE ~ (m \in 2 .. NF + 1 /\ n \in 2 .. NF + 1)
      BY <1>11, <1>18, <2>2, <3>2
    <3> QED BY <3>1, <3>2
  <2>3. ASSUME NEW m \in L \ {TailN}
        PROVE  /\ succ[m].node \in L /\ key[m] < key[succ[m].node]
               /\ \A n \in L : key[m] < key[n] => key[succ[m].node] <= key[n]
    <3>1. CASE m = 0
      <4>1. CASE NF = 0
        <5>1. succ[m].node = 1 /\ 1 \in L
          BY <1>1, <1>8, <3>1, <4>1 DEF Leads
        <5>2. \A n \in L : n = 0 \/ n = 1
          BY <4>1
        <5> QED BY <1>11, <3>1, <5>1, <5>2
      <4>2. CASE NF > 0
        <5>1. succ[m].node = 2 /\ 2 \in L /\ 2 \in 2 .. NF + 1
          BY <1>1, <1>8, <3>1, <4>2 DEF Leads
        <5>2. \A n \in 2 .. NF + 1 : key[2] <= key[n]
          <6> SUFFICES ASSUME NEW n \in 2 .. NF + 1 PROVE key[2] <= key[n]
            OBVIOUS
          <6>1. n = 2 \/ 2 < n
            OBVIOUS
          <6> QED BY <1>11, <1>12, <5>1, <6>1
        <5> QED BY <1>11, <1>18, <3>1, <5>1, <5>2
      <4> QED BY <1>1, <4>1, <4>2
    <3>2. CASE m \in 2 .. NF
      <4>1. /\ succ[m].node = m + 1 /\ m + 1 \in L /\ m + 1 \in 2 .. NF + 1
            /\ m \in 2 .. NF + 1 /\ m < m + 1
        BY <1>1, <1>5, <3>2 DEF Leads
      <4>2. ASSUME NEW n \in 2 .. NF + 1, key[m] < key[n]
            PROVE  key[m + 1] <= key[n]
        <5>1. n <= m \/ n = m + 1 \/ m + 1 < n
          BY <4>1
        <5>2. ~ (n <= m)
          <6>1. n <= m => n = m \/ n < m
            BY <4>1
          <6> QED BY <1>11, <1>12, <4>1, <4>2, <6>1
        <5> QED BY <1>11, <1>12, <4>1, <5>1, <5>2
      <4> QED BY <1>11, <1>12, <1>18, <4>1, <4>2
    <3>3. CASE NF > 0 /\ m = NF + 1
      <4>1. /\ succ[m].node = 1 /\ 1 \in L /\ m \in 2 .. NF + 1
        BY <1>1, <1>8, <3>3 DEF Leads
      <4>2. \A n \in 2 .. NF + 1 : key[n] <= key[m]
        <5> SUFFICES ASSUME NEW n \in 2 .. NF + 1 PROVE key[n] <= key[m]
          OBVIOUS
        <5>1. n = m \/ n < m
          BY <1>1, <3>3
        <5> QED BY <1>11, <1>12, <4>1, <5>1
      <4> QED BY <1>11, <1>18, <4>1, <4>2
    <3> QED BY <1>2, <1>17, <3>1, <3>2, <3>3
  <2> QED BY <1>2, <1>7, <1>11, <2>1, <2>2, <2>3 DEF ListInv
<1>20. \A m \in L : succ[m].mark = 0
  BY <1>5, <1>7, <1>8, <1>17 DEF Leads
<1>21. RefInv(L, L)
  <2>1. \A n \in L \ {HeadN, TailN} : key[n] \in Key
    BY <1>2, <1>11, <1>18
  <2> QED BY <1>2, <1>19, <1>20, <2>1 DEF RefInv, ListInv
<1>22. FlagInv(L)
  BY <1>2, <1>20 DEF FlagInv
<1> PICK N : N = (Capacity + 1) - NF
  OBVIOUS
<1>23. /\ B \in Seq(Node) /\ Len(B) = N /\ N \in Nat /\ N >= 1
       /\ \A i \in 1 .. N : B[i] = (NF + 1) + i
  <2>1. N \in Nat /\ N >= 1
    BY <1>1
  <2>2. \A i \in 1 .. N : (NF + 1) + i \in Node
    BY <1>1
  <2>3. B = [i \in 1 .. N |-> (NF + 1) + i]
    OBVIOUS
  <2> QED BY <2>1, <2>2, <2>3
<1>24. In(B) = NF + 2 .. Z
  <2>1. \A i \in 1 .. N : (NF + 1) + i \in NF + 2 .. Z
    BY <1>1
  <2>2. \A n \in NF + 2 .. Z : n - (NF + 1) \in 1 .. N
                               /\ (NF + 1) + (n - (NF + 1)) = n
    BY <1>1
  <2>3. \A n : n \in In(B) <=> \E i \in 1 .. N : n = B[i]
    BY <1>23 DEF In
  <2>4. ASSUME NEW n \in In(B) PROVE n \in NF + 2 .. Z
    BY <1>23, <2>1, <2>3
  <2>5. ASSUME NEW n \in NF + 2 .. Z PROVE n \in In(B)
    <3> PICK i \in 1 .. N : (NF + 1) + i = n
      BY <2>2
    <3> QED BY <1>23, <2>3
  <2> QED BY <2>4, <2>5
<1>25. PoolInv(B)
  <2>1. B[1] = free /\ B[N] = Z
    BY <1>1, <1>15, <1>23
  <2>2. ASSUME NEW i \in 1 .. N, NEW j \in 1 .. N, B[i] = B[j] PROVE i = j
    BY <1>1, <1>23, <2>2
  <2>3. ASSUME NEW i \in 1 .. N - 1 PROVE succ[B[i]].node = B[i + 1]
    <3>1. /\ i \in 1 .. N /\ i + 1 \in 1 .. N
          /\ (NF + 1) + i \in NF + 2 .. Capacity + 1
          /\ ((NF + 1) + i) + 1 = (NF + 1) + (i + 1)
      BY <1>1
    <3> QED BY <1>6, <1>23, <3>1 DEF Leads
  <2> QED BY <1>7, <1>23, <2>1, <2>2, <2>3 DEF PoolInv
<1>26. OwnInv(L, L, In(B))
  <2>1. L \cap In(B) = {} /\ Node \ (L \cup In(B)) = {}
    BY <1>1, <1>24
  <2>2. \A t \in Thread : OwnedOf(pc[t], stack[t], reg[t]) = {}
    BY <1>14, <1>15 DEF OwnedOf
  <2> QED BY <1>14, <1>15, <2>1, <2>2 DEF OwnInv
<1>27. ASSUME NEW t \in Thread
       PROVE  /\ RegOk(L, L, pc[t], reg[t])
              /\ StackOk(L, L, pc[t], stack[t], reg[t])
  <2>1. RegOk(L, L, pc[t], reg[t])
    BY <1>14, <1>15, IdleOk
  <2>2. StackOk(L, L, pc[t], stack[t], reg[t])
    BY <1>15 DEF StackOk, FramesOk, Helping
  <2> QED BY <2>1, <2>2
<1>28. Inv(L, L, B)
  BY <1>16, <1>19, <1>21, <1>22, <1>25, <1>26, <1>27 DEF Inv
<1> QED BY <1>28

-----------------------------------------------------------------------------
\* Every step keeps the invariant.
LEMMA SearchFromInv ==
  ASSUME NEW L, NEW R, NEW sq, Inv(L, R, sq), NEW t \in Thread, SearchFrom(t)
  PROVE  IndInv'
<1>1. CASE SearchCas(t)
  BY <1>1, SearchCasInv DEF IndInv
<1>2. CASE ~ SearchCas(t)
  <2>1. Inv(L, R, sq)'
    BY <1>2, SearchMarkInv, SearchCurrMarkInv, SearchCurrNextInv, SearchBodyInv,
       SearchUnlinkInv, SearchReloadInv, SearchAdvanceInv DEF SearchFrom
  <2> QED BY <2>1 DEF IndInv
<1> QED BY <1>1, <1>2

LEMMA HelpFlaggedInv ==
  ASSUME NEW L, NEW R, NEW sq, Inv(L, R, sq), NEW t \in Thread, HelpFlagged(t)
  PROVE  IndInv'
<1>1. CASE HelpCas(t)
  BY <1>1, HelpCasInv DEF IndInv
<1>2. CASE ~ HelpCas(t)
  <2>1. Inv(L, R, sq)'
    BY <1>2, HelpBackInv, HelpTestInv, TryMarkNextInv, TryMarkCasInv,
       TryMarkResultInv, HelpUnlinkInv DEF HelpFlagged
  <2> QED BY <2>1 DEF IndInv
<1> QED BY <1>1, <1>2

LEMMA InsertInv ==
  ASSUME NEW L, NEW R, NEW sq, Inv(L, R, sq), NEW t \in Thread, Insert(t)
  PROVE  IndInv'
<1>1. CASE InsertAlloc(t)
  BY <1>1, InsertAllocInv DEF IndInv
<1>2. CASE InsertCas(t)
  BY <1>2, InsertCasInv DEF IndInv
<1>3. CASE InsertAgain(t)
  BY <1>3, InsertAgainInv DEF IndInv
<1>4. CASE ~ (InsertAlloc(t) \/ InsertCas(t) \/ InsertAgain(t))
  <2>1. Inv(L, R, sq)'
    BY <1>4, InsertExistsInv, InsertNoMemInv, InsertLoadInv, InsertResultInv,
       GoBackInv, InsertSearchInv DEF Insert
  <2> QED BY <2>1 DEF IndInv
<1> QED BY <1>1, <1>2, <1>3, <1>4

LEMMA DeleteInv ==
  ASSUME NEW L, NEW R, NEW sq, Inv(L, R, sq),
         NEW t \in Thread, Delete(t), ~ Early(t), ~ Misled(t)
  PROVE  IndInv'
<1>1. CASE DeleteFree(t)
  BY <1>1, DeleteFreeInv DEF IndInv
<1>2. CASE ~ DeleteFree(t)
  <2>1. Inv(L, R, sq)'
    BY <1>2, DeleteFoundInv, FlagMarkInv, FlagFlagInv, FlagCasInv,
       FlagResultInv, GoBackInv, FlagSearchInv, FlagAgainInv, DeleteCopyInv
       DEF Delete
  <2> QED BY <2>1 DEF IndInv
<1> QED BY <1>1, <1>2

\* The steps of a thread.
LEMMA StepInv ==
  ASSUME IndInv, NEW t \in Thread, Step(t), ~ Early(t), ~ Misled(t)
  PROVE  IndInv'
<1> PICK L, R, sq : Inv(L, R, sq)
  BY DEF IndInv
<1>1. ASSUME NEW o \in Ops[t],
             NEW v \in IF o[1] \in {"insert", "update"} THEN Value ELSE {None},
             Call(t, o[1], o[2], v)
      PROVE  IndInv'
  <2> PICK p, k : p = o[1] /\ k = o[2]
    OBVIOUS
  <2>1. o \in Op \X Key
    BY ListAssumption
  <2>2. /\ p \in Op /\ k \in Key /\ v \in Value \cup {None} /\ Call(t, p, k, v)
        /\ (p \in {"insert", "update"} => v \in Value)
    BY <1>1, <2>1
  <2>3. Inv(L, R, sq)'
    BY <2>2, CallInv
  <2> QED BY <2>3 DEF IndInv
<1>2. CASE SearchFrom(t)
  BY <1>2, SearchFromInv
<1>3. CASE HelpFlagged(t)
  BY <1>3, HelpFlaggedInv
<1>4. CASE Insert(t)
  BY <1>4, InsertInv
<1>5. CASE Delete(t)
  BY <1>5, DeleteInv
<1>6. CASE Find(t)
  BY <1>6, FindInv DEF IndInv
<1> QED BY <1>1, <1>2, <1>3, <1>4, <1>5, <1>6 DEF Step

\* A step that changes nothing but the history.
LEMMA SameInv ==
  ASSUME NEW L, NEW R, NEW sq, Inv(L, R, sq),
         UNCHANGED <<nodes, pc, reg, stack, calls>>
  PROVE  Inv(L, R, sq)'
<1>1. UNCHANGED <<succ, back, key, val, free, pc, reg, stack, calls>>
  BY DEF nodes
<1>2. TypeInv'
  BY <1>1 DEF Inv, TypeInv
<1>3. ListInv(L)' /\ RefInv(L, R)' /\ PoolInv(sq)'
  BY <1>1 DEF Inv, ListInv, RefInv, PoolInv, Leads
<1>4. FlagInv(L)'
  BY <1>1 DEF Inv, FlagInv, Leads, Flags
<1>5. OwnInv(L, R, In(sq))'
  <2>1. OwnInv(L, R, In(sq))
    BY DEF Inv
  <2> QED BY <1>1, <2>1 DEF OwnInv, OwnedOf, In
<1>6. ASSUME NEW t \in Thread
      PROVE  /\ RegOk(L, R, pc[t], reg[t])'
             /\ StackOk(L, R, pc[t], stack[t], reg[t])'
  <2>1. RegOk(L, R, pc[t], reg[t]) /\ StackOk(L, R, pc[t], stack[t], reg[t])
    BY DEF Inv
  <2>2. RegOk(L, R, pc[t], reg[t])'
    BY <1>1, <2>1 DEF RegOk, Seeks, Mine, Target, Between, Behind, Leads
  <2>3. StackOk(L, R, pc[t], stack[t], reg[t])'
    BY <1>1, <2>1 DEF StackOk, FramesOk, FrameOk, BackSet, OuterOk, Leads
  <2> QED BY <2>2, <2>3
<1> QED BY <1>2, <1>3, <1>4, <1>5, <1>6 DEF Inv

\* The steps that leave the list unspoilt.
LEMMA NextCalm ==
  ASSUME [Next]_vars, spoilt' = {}
  PROVE  /\ spoilt = {}
         /\ \/ UNCHANGED <<nodes, pc, reg, stack, calls, seen>>
            \/ \E t \in Thread :
                 /\ Step(t) /\ History /\ Hazards(t)
                 /\ ~ Early(t) /\ ~ Misled(t)
<1>1. CASE UNCHANGED vars
  BY <1>1 DEF vars
<1>2. ASSUME NEW t \in Thread, FreeEnd(t)
      PROVE  spoilt = {} /\ UNCHANGED <<nodes, pc, reg, stack, calls, seen>>
  BY <1>2 DEF FreeEnd
<1>3. ASSUME NEW t \in Thread, Hazards(t)
      PROVE  spoilt = {} /\ ~ Early(t) /\ ~ Misled(t)
  BY <1>3, CalmStep
<1> QED BY <1>1, <1>2, <1>3 DEF Next, Done

\* A hazard that has come about is not forgotten.
LEMMA SpoiltStays ==
  ASSUME [Next]_vars, spoilt # {}
  PROVE  spoilt' # {}
<1>1. ASSUME NEW t \in Thread, Hazards(t) PROVE spoilt' # {}
  BY <1>1 DEF Hazards
<1> QED BY <1>1 DEF Next, Done, FreeEnd, vars

\* The inductive invariant.
LEMMA Inductive == Spec => [](spoilt # {} \/ IndInv)
<1>1. Init => IndInv
  BY InitInv DEF IndInv
<1>2. (spoilt # {} \/ IndInv) /\ [Next]_vars => (spoilt # {} \/ IndInv)'
  <2> SUFFICES ASSUME IndInv, [Next]_vars, spoilt' = {} PROVE IndInv'
    BY SpoiltStays
  <2>1. CASE UNCHANGED <<nodes, pc, reg, stack, calls, seen>>
    BY <2>1, SameInv DEF IndInv
  <2>2. ASSUME NEW t \in Thread, Step(t), ~ Early(t), ~ Misled(t) PROVE IndInv'
    BY <2>2, StepInv
  <2> QED BY <2>1, <2>2, NextCalm
<1> QED BY <1>1, <1>2, PTL DEF Spec

\* The history.
HistType == freeing \subseteq Thread /\ spoilt \subseteq Hazard

LEMMA HistTypes == Spec => []HistType
<1>1. Init => HistType
  BY DEF Init, HistType
<1>2. HistType /\ [Next]_vars => HistType'
  <2> SUFFICES ASSUME HistType, [Next]_vars PROVE HistType'
    OBVIOUS
  <2>1. ASSUME NEW t \in Thread, Hazards(t) PROVE HistType'
    BY <2>1 DEF Hazards, HistType
  <2> QED BY <2>1 DEF Next, Done, FreeEnd, vars, HistType
<1> QED BY <1>1, <1>2, PTL DEF Spec

-----------------------------------------------------------------------------
LEMMA TypesFollow ==
  ASSUME HistType, spoilt # {} \/ IndInv
  PROVE  TypeOK
<1> SUFFICES ASSUME spoilt = {}, IndInv PROVE TypeOK
  BY DEF TypeOK, HistType
<1> PICK L, R, sq : Inv(L, R, sq)
  BY DEF IndInv
<1>1. /\ TypeInv /\ R \subseteq Node
      /\ \A t \in Thread : /\ RegOk(L, R, pc[t], reg[t])
                           /\ StackOk(L, R, pc[t], stack[t], reg[t])
  BY DEF Inv, RefInv
<1>2. ASSUME NEW t \in Thread
      PROVE  /\ pc[t] \in {"s_mark", "s_advance"} => reg[t].curr \in Node
             /\ pc[t] \in {"s_mark", "s_advance"} => reg[t].next \in Node
             /\ pc[t] \in {"i_load", "i_back", "f_mark", "f_back"} =>
                  reg[t].prev \in Node
             /\ \A i \in DOMAIN stack[t] :
                  {stack[t][i].prev, stack[t][i].del} \subseteq Node
  <2>1. ASSUME pc[t] \in {"s_mark", "s_advance"}
        PROVE  reg[t].curr \in Node /\ reg[t].next \in Node
    <3>1. Between(R, reg[t])
      BY <1>1, <2>1 DEF RegOk, Searching
    <3> QED BY <1>1, <3>1 DEF Between
  <2>2. ASSUME pc[t] \in {"i_load", "i_back", "f_mark", "f_back"}
        PROVE  reg[t].prev \in Node
    <3>1. Behind(R, reg[t])
      BY <1>1, <2>2 DEF RegOk, Linking, Flagging
    <3> QED BY <1>1, <3>1 DEF Behind
  <2>3. ASSUME NEW i \in DOMAIN stack[t]
        PROVE  {stack[t][i].prev, stack[t][i].del} \subseteq Node
    <3>1. i \in 1 .. Len(stack[t])
      BY <1>1 DEF TypeInv
    <3>2. FrameOk(R, stack[t][i])
      BY <1>1, <3>1 DEF StackOk, FramesOk
    <3> QED BY <1>1, <3>2 DEF FrameOk
  <2> QED BY <2>1, <2>2, <2>3
<1> QED BY <1>1, <1>2 DEF TypeOK, TypeInv, HistType, Link, Maybe

LEMMA SortedFollows ==
  ASSUME IndInv
  PROVE  Sorted
<1> PICK L, R, sq : Inv(L, R, sq)
  BY DEF IndInv
<1>1. TypeInv /\ ListInv(L)
  BY DEF Inv
<1>2. PICK s \in Seq(Node) :
        /\ Path(HeadN) = s /\ Len(s) >= 1 /\ s[Len(s)] = TailN
        /\ \A i \in 1 .. Len(s) - 1 : key[s[i]] < key[s[i + 1]]
  BY <1>1, ListPath
<1> QED BY <1>2 DEF Sorted

LEMMA NodesFollow ==
  ASSUME IndInv
  PROVE  NodesKept
<1> PICK L, R, sq : Inv(L, R, sq)
  BY DEF IndInv
<1> PICK F : F = In(sq)
  OBVIOUS
<1> DEFINE owners(n) == {t \in Thread : n \in Owned(t)}
<1>1. /\ TypeInv /\ ListInv(L) /\ RefInv(L, R) /\ PoolInv(sq) /\ OwnInv(L, R, F)
      /\ \A t \in Thread : RegOk(L, R, pc[t], reg[t])
  BY DEF Inv
<1>2. On(HeadN) = L /\ On(free) = F
  BY <1>1, ListPath, PoolPath
<1>3. \A t \in Thread : Owned(t) = OwnedOf(pc[t], stack[t], reg[t])
  BY DEF Owned, OwnedOf, Deleting
<1>4. L \cap F = {}
  BY <1>1 DEF OwnInv, RefInv
<1>5. /\ \A t \in Thread : Owned(t) \cap F = {}
      /\ \A t, u \in Thread : t # u => Owned(t) \cap Owned(u) = {}
      /\ \A n \in Node \ (L \cup F) : \E t \in Thread : n \in Owned(t)
      /\ \A t \in Thread : reg[t].op = "insert" => reg[t].node \notin R
  BY <1>1, <1>3 DEF OwnInv
<1>6. ASSUME NEW n PROVE owners(n) = {} \/ \E t : owners(n) = {t}
  <2>1. \A t, u \in owners(n) : t = u
    BY <1>5
  <2> HIDE DEF owners
  <2> QED BY <2>1
<1>7. ASSUME NEW n \in F PROVE Cardinality(owners(n)) = 0
  <2>1. owners(n) = {}
    BY <1>5
  <2> QED BY <2>1, FS_EmptySet
<1>8. ASSUME NEW n PROVE Cardinality(owners(n)) <= 1
  <2>1. CASE owners(n) = {}
    <3>1. Cardinality(owners(n)) = 0
      BY <2>1, FS_EmptySet
    <3> QED BY <3>1
  <2>2. CASE \E t : owners(n) = {t}
    <3>1. Cardinality(owners(n)) = 1
      BY <2>2, FS_Singleton
    <3> QED BY <3>1
  <2> HIDE DEF owners
  <2> QED BY <1>6, <2>1, <2>2
<1>9. ASSUME NEW n \in Node, n \notin L \cup F
      PROVE  Cardinality(owners(n)) = 1
  <2>1. owners(n) # {}
    BY <1>5, <1>9
  <2> HIDE DEF owners
  <2> QED BY <1>6, <2>1, FS_Singleton
<1>10. ASSUME NEW t \in Thread,
              reg[t].op = "insert" \/ pc[t] \in {"d_copy", "d_free"}
       PROVE  Owned(t) \cap L = {}
  <2>1. reg[t].node \notin L
    BY <1>1, <1>5, <1>10 DEF RegOk, RefInv
  <2> QED BY <1>3, <2>1 DEF OwnedOf
<1> HIDE DEF owners
<1>11. /\ L \cap F = {}
       /\ \A n \in Node :
            /\ n \in F => Cardinality(owners(n)) = 0
            /\ n \in L => Cardinality(owners(n)) <= 1
            /\ n \notin L \cup F => Cardinality(owners(n)) = 1
       /\ \A t \in Thread :
            (reg[t].op = "insert" \/ pc[t] \in {"d_copy", "d_free"})
              => Owned(t) \cap L = {}
  BY <1>4, <1>7, <1>8, <1>9, <1>10
<1> QED BY <1>2, <1>11, Zenon DEF NodesKept, owners

-----------------------------------------------------------------------------
\* The types are right, and no thread goes on along a null pointer: neither
\* search_from (collections.c:881-916) along the links nor list_insert and
\* list_delete along the backlinks, until a node is freed under a call or during
\* another mempool_free, or a flag is taken for another.
THEOREM TypeCorrect == Spec => []TypeOK
BY Inductive, HistTypes, TypesFollow, PTL

\* The links lead from the head to the tail along increasing keys, until a hazard
\* comes about: an insertion makes no key twice and never goes behind a node that
\* is being deleted.
THEOREM SortedHolds == Spec => []Sorted
<1>1. spoilt # {} \/ IndInv => Sorted
  BY SortedFollows DEF Sorted
<1> QED BY <1>1, Inductive, PTL

\* Each node is in the list, in the free list or owned by one call, and the node
\* that list_delete frees is out of the list, until a hazard comes about.
THEOREM NodesKeptHolds == Spec => []NodesKept
<1>1. spoilt # {} \/ IndInv => NodesKept
  BY NodesFollow DEF NodesKept
<1> QED BY <1>1, Inductive, PTL

-----------------------------------------------------------------------------
(***************************************************************************)
(* The list implements Dictionary.                                         *)
(***************************************************************************)
\* The nodes whose values are bound to their keys.
Live(L) == {n \in L \ {HeadN, TailN} : succ[n].mark # MARKED}

\* The map is that of the live nodes.
ItemsOk ==
  \A L : TypeInv /\ ListInv(L) =>
    /\ items = [k \in Key |-> items[k]]
    /\ \A n \in Live(L) : key[n] \in Key => items[key[n]] = val[n]
    /\ \A k \in Key : (\A n \in Live(L) : key[n] # k) => items[k] = None

LEMMA ItemsNow == ItemsOk
<1> SUFFICES ASSUME NEW L, TypeInv, ListInv(L)
             PROVE  /\ items = [k \in Key |-> items[k]]
                    /\ \A n \in Live(L) :
                         key[n] \in Key => items[key[n]] = val[n]
                    /\ \A k \in Key :
                         (\A n \in Live(L) : key[n] # k) => items[k] = None
  BY DEF ItemsOk
<1>1. On(HeadN) = L
  BY ListPath
<1>2. L \subseteq Node
  BY DEF ListInv
<1>3. \A n \in L : is_marked(succ[n]) <=> succ[n].mark = MARKED
  BY <1>2, TypeFacts, MarkFacts
<1>4. {n \in On(HeadN) \ {HeadN, TailN} : ~ is_marked(succ[n])} = Live(L)
  BY <1>1, <1>3 DEF Live
<1>5. items = [k \in Key |->
                 IF \E n \in Live(L) : key[n] = k
                 THEN val[CHOOSE n \in Live(L) : key[n] = k] ELSE None]
  BY <1>4, Zenon DEF items
<1>6. \A m, n \in Live(L) : key[m] = key[n] => m = n
  BY DEF Live, ListInv
<1>7. ASSUME NEW n \in Live(L), key[n] \in Key PROVE items[key[n]] = val[n]
  <2> PICK c : c = CHOOSE m \in Live(L) : key[m] = key[n]
    OBVIOUS
  <2>1. c \in Live(L) /\ key[c] = key[n]
    OBVIOUS
  <2>2. c = n
    BY <1>6, <2>1
  <2> QED BY <1>5, <1>7, <2>2
<1> QED BY <1>5, <1>7

LEMMA ItemsNext == ItemsOk'
BY ItemsNow, PTL

\* The same nodes are live, with the same keys and values.
Keeps(L, M) ==
  /\ \A n : n \in Live(L) <=> n \in Live(M)'
  /\ \A n \in Live(L) : key'[n] = key[n] /\ val'[n] = val[n]

LEMMA ItemsKept ==
  ASSUME NEW L, NEW M, TypeInv, ListInv(L), TypeInv', ListInv(M)', Keeps(L, M)
  PROVE  items' = items
<1>1. /\ items = [k \in Key |-> items[k]]
      /\ \A n \in Live(L) : key[n] \in Key => items[key[n]] = val[n]
      /\ \A k \in Key : (\A n \in Live(L) : key[n] # k) => items[k] = None
  BY ItemsNow DEF ItemsOk
<1> PICK D : D = Live(L)
  OBVIOUS
<1>2. /\ items' = [k \in Key |-> items'[k]]
      /\ \A n \in Live(M)' : key'[n] \in Key => items'[key'[n]] = val'[n]
      /\ \A k \in Key : (\A n \in Live(M)' : key'[n] # k) => items'[k] = None
  BY ItemsNext DEF ItemsOk
<1>3. Live(M)' = D /\ \A n \in D : key'[n] = key[n] /\ val'[n] = val[n]
  BY DEF Keeps
<1>4. ASSUME NEW k \in Key PROVE items'[k] = items[k]
  BY <1>1, <1>2, <1>3
<1> QED BY <1>1, <1>2, <1>4

-----------------------------------------------------------------------------
\* A call at l with frames s deletes a node.
DelOf(l, s) == \/ l \in {"d_copy", "d_free"}
               \/ s # <<>> /\ s[Len(s)].ret = "d_copy"

\* The abstract state of a call; m says whether its node is marked.
CallOf(l, s, r, m) ==
  IF l = "idle"
  THEN [op |-> "none", out |-> CASE r.out = "none" -> "none"
                                 [] r.out = "ok"   -> "ok"
                                 [] OTHER          -> "refused"]
  ELSE [op |-> r.op, key |-> r.arg,
        val |-> IF r.op = "delete" THEN None ELSE r.v,
        done |-> DelOf(l, s) /\ m]

CallAt(l, s, r) == CallOf(l, s, r, is_marked(succ[r.node]))

LEMMA CallNow == call = [t \in Thread |-> CallAt(pc[t], stack[t], reg[t])]
BY Zenon DEF call, CallAt, CallOf, DelOf, Deleting

LEMMA CallNext ==
  call' = [t \in Thread |-> CallAt(pc[t], stack[t], reg[t])']
BY Zenon DEF call, CallAt, CallOf, DelOf, Deleting

\* What calls know about values, and that a deletion that has got its node out
\* of the list finds it marked.
ValOk(l, r) ==
  /\ r.op = "insert" /\ r.node \in Node => val[r.node] = r.v
  /\ l # "idle" /\ r.op = "search" => r.v = None
  /\ l \in {"d_copy", "d_free"} => succ[r.node].mark = MARKED

ValInv(L) == /\ \A n \in L \ {HeadN, TailN} : val[n] \in Value
             /\ \A t \in Thread : ValOk(pc[t], reg[t])

\* A step of t does not mark or unmark the nodes of other calls, nor change the
\* values of those that they insert.
Steady(R, sq, t) ==
  /\ \A n \in Node \ (In(sq) \cup OwnedOf(pc[t], stack[t], reg[t])) :
       succ'[n].mark = MARKED <=> succ[n].mark = MARKED
  /\ \A n \in Node \ (R \cup In(sq)) : val'[n] = val[n]

\* The node of a call that deletes.
LEMMA DelFacts ==
  ASSUME NEW L, NEW R, NEW sq, Inv(L, R, sq), NEW t \in Thread,
         DelOf(pc[t], stack[t])
  PROVE  /\ reg[t].op = "delete" /\ reg[t].node \in Node
         /\ reg[t].node \in OwnedOf(pc[t], stack[t], reg[t])
<1>1. RegOk(L, R, pc[t], reg[t]) /\ StackOk(L, R, pc[t], stack[t], reg[t])
      /\ R \subseteq Node
  BY DEF Inv, RefInv
<1>2. CASE pc[t] \in {"d_copy", "d_free"}
  <2>1. reg[t].op = "delete" /\ reg[t].node \in Node
    BY <1>1, <1>2 DEF RegOk
  <2> QED BY <1>2, <2>1, NodeFacts DEF OwnedOf
<1>3. CASE stack[t] # <<>> /\ stack[t][Len(stack[t])].ret = "d_copy"
  <2>1. reg[t].op = "delete"
    BY <1>1, <1>3 DEF StackOk, OuterOk
  <2>2. Target(R, reg[t])
    BY <1>1, <1>3, <2>1 DEF StackOk, RegOk, Mine
  <2>3. reg[t].node \in Node
    BY <1>1, <2>2 DEF Target
  <2> QED BY <1>3, <2>1, <2>3, NodeFacts DEF OwnedOf
<1> QED BY <1>2, <1>3 DEF DelOf

LEMMA OthersSteady ==
  ASSUME NEW L, NEW R, NEW sq, Inv(L, R, sq), NEW t \in Thread, TypeInv',
         Steady(R, sq, t), NEW u \in Thread, u # t
  PROVE  /\ DelOf(pc[u], stack[u]) =>
              /\ succ'[reg[u].node].mark = MARKED
                   <=> succ[reg[u].node].mark = MARKED
              /\ is_marked(succ'[reg[u].node]) <=> is_marked(succ[reg[u].node])
         /\ reg[u].op = "insert" /\ reg[u].node \in Node =>
              val'[reg[u].node] = val[reg[u].node]
<1>1. OwnInv(L, R, In(sq)) /\ TypeInv
  BY DEF Inv
<1>2. ASSUME DelOf(pc[u], stack[u])
      PROVE  /\ succ'[reg[u].node].mark = MARKED
                  <=> succ[reg[u].node].mark = MARKED
             /\ is_marked(succ'[reg[u].node]) <=> is_marked(succ[reg[u].node])
  <2> PICK n : n = reg[u].node
    OBVIOUS
  <2>1. n \in Node /\ n \in OwnedOf(pc[u], stack[u], reg[u])
    BY <1>2, DelFacts
  <2>2. n \in Node \ (In(sq) \cup OwnedOf(pc[t], stack[t], reg[t]))
    BY <1>1, <2>1 DEF OwnInv
  <2>3. succ'[n].mark = MARKED <=> succ[n].mark = MARKED
    BY <2>2 DEF Steady
  <2>4. succ[n] \in Link /\ succ'[n] \in Link
    BY <1>1, <2>1 DEF TypeInv
  <2> QED BY <2>3, <2>4, MarkFacts
<1>3. ASSUME reg[u].op = "insert", reg[u].node \in Node
      PROVE  val'[reg[u].node] = val[reg[u].node]
  <2> PICK n : n = reg[u].node
    OBVIOUS
  <2>1. n \in OwnedOf(pc[u], stack[u], reg[u])
    BY <1>3, NodeFacts DEF OwnedOf
  <2>2. n \in Node \ (R \cup In(sq))
    BY <1>1, <1>3, <2>1 DEF OwnInv
  <2> QED BY <2>2 DEF Steady
<1> QED BY <1>2, <1>3

\* What a step of t changes of the abstract calls.
Becomes(t, c) == call' = [call EXCEPT ![t] = c]

LEMMA ViewStep ==
  ASSUME NEW L, NEW R, NEW sq, Inv(L, R, sq), ValInv(L), NEW t \in Thread,
         TypeInv', Steady(R, sq, t), NEW l, NEW r, NEW s,
         pc' = [pc EXCEPT ![t] = l], reg' = [reg EXCEPT ![t] = r],
         stack' = [stack EXCEPT ![t] = s],
         NEW M, \A n \in M \ {HeadN, TailN} : val'[n] \in Value, ValOk(l, r)'
  PROVE  /\ ValInv(M)'
         /\ Becomes(t, CallAt(l, s, r)')
<1>1. TypeInv
  BY DEF Inv
<1>2. /\ pc'[t] = l /\ reg'[t] = r /\ stack'[t] = s
      /\ \A u \in Thread : u # t => /\ pc'[u] = pc[u] /\ reg'[u] = reg[u]
                                    /\ stack'[u] = stack[u]
  BY <1>1 DEF TypeInv
<1>3. ASSUME NEW u \in Thread PROVE ValOk(pc[u], reg[u])'
  <2>1. CASE u = t
    BY <1>2, <2>1 DEF ValOk
  <2>2. CASE u # t
    <3>1. ValOk(pc[u], reg[u])
      BY DEF ValInv
    <3>2. pc[u] \in {"d_copy", "d_free"} =>
            succ'[reg[u].node].mark = MARKED <=> succ[reg[u].node].mark = MARKED
      BY <2>2, OthersSteady DEF DelOf
    <3>3. reg[u].op = "insert" /\ reg[u].node \in Node =>
            val'[reg[u].node] = val[reg[u].node]
      BY <2>2, OthersSteady
    <3> QED BY <1>2, <2>2, <3>1, <3>2, <3>3 DEF ValOk
  <2> QED BY <2>1, <2>2
<1>4. ASSUME NEW u \in Thread, u # t
      PROVE  CallOf(pc'[u], stack'[u], reg'[u], is_marked(succ'[reg'[u].node]))
               = CallOf(pc[u], stack[u], reg[u], is_marked(succ[reg[u].node]))
  <2>1. DelOf(pc[u], stack[u]) =>
          (is_marked(succ'[reg[u].node]) <=> is_marked(succ[reg[u].node]))
    BY <1>4, OthersSteady
  <2>2. pc'[u] = pc[u] /\ reg'[u] = reg[u] /\ stack'[u] = stack[u]
    BY <1>2, <1>4
  <2>3. (DelOf(pc'[u], stack'[u]) /\ is_marked(succ'[reg'[u].node]))
          = (DelOf(pc[u], stack[u]) /\ is_marked(succ[reg[u].node]))
    BY <2>1, <2>2, Zenon DEF is_marked, DelOf
  <2> QED BY <2>2, <2>3, Zenon DEF CallOf
<1> DEFINE old(u) == CallOf(pc[u], stack[u], reg[u],
                            is_marked(succ[reg[u].node]))
           new(u) == CallOf(pc'[u], stack'[u], reg'[u],
                            is_marked(succ'[reg'[u].node]))
           c == CallAt(l, s, r)'
<1>5. call = [u \in Thread |-> old(u)] /\ call' = [u \in Thread |-> new(u)]
  BY CallNow, CallNext, Zenon DEF CallAt
<1>6. new(t) = c /\ \A u \in Thread : u # t => new(u) = old(u)
  BY <1>2, <1>4 DEF CallAt
<1> HIDE DEF old, new, c
<1>7. Becomes(t, c)
  BY <1>5, <1>6 DEF Becomes
<1> QED BY <1>3, <1>7 DEF ValInv, c

-----------------------------------------------------------------------------
\* A step that begins no call, ends none and changes no binding.
Abstract == \E L, R, sq : Inv(L, R, sq) /\ ValInv(L)

\* What each step is to do: keep the invariant, and be a step of Dictionary.
Refines == Abstract' /\ [Dict!Next]_<<items, call>>

\* The list goes from L to M, without a binding made, changed or removed.
NoEffect(L, R, M) ==
  /\ M \subseteq L /\ \A n \in L \ M : succ[n].mark = MARKED
  /\ \A n \in R : key'[n] = key[n] /\ val'[n] = val[n]
  /\ \A n \in L : succ'[n].mark = MARKED <=> succ[n].mark = MARKED

\* The call is the same at l, with locals r and frames s.
SameCall(t, l, r, s) ==
  /\ pc[t] # "idle" /\ l # "idle"
  /\ r.op = reg[t].op /\ r.arg = reg[t].arg
  /\ r.op # "delete" => r.v = reg[t].v
  /\ DelOf(l, s) => /\ r.node = reg[t].node /\ r.node \in Node
                    /\ DelOf(pc[t], stack[t]) \/ succ'[r.node].mark # MARKED
                    /\ succ'[r.node].mark = MARKED <=> succ[r.node].mark = MARKED
  /\ DelOf(pc[t], stack[t]) => DelOf(l, s)

LEMMA EffectFacts ==
  ASSUME NEW L, NEW R, NEW M, L \subseteq R, NoEffect(L, R, M)
  PROVE  /\ Keeps(L, M)
         /\ \A n \in M \ {HeadN, TailN} : n \in L \ {HeadN, TailN} /\ val'[n] = val[n]
BY DEF NoEffect, Keeps, Live

\* A step of t that is not one of Dictionary.
LEMMA Stutter ==
  ASSUME NEW L, NEW R, NEW sq, Inv(L, R, sq), ValInv(L), NEW t \in Thread,
         NEW M, NEW S, NEW tq, Inv(M, S, tq)', NoEffect(L, R, M),
         Steady(R, sq, t), NEW l, NEW r \in Reg, NEW s, SameCall(t, l, r, s),
         pc' = [pc EXCEPT ![t] = l], reg' = [reg EXCEPT ![t] = r],
         stack' = [stack EXCEPT ![t] = s], ValOk(l, r)'
  PROVE  Refines
<1>1. /\ TypeInv /\ ListInv(L) /\ TypeInv' /\ ListInv(M)'
      /\ L \subseteq R /\ R \subseteq Node
  BY DEF Inv, RefInv
<1>2. /\ Keeps(L, M)
      /\ \A n \in M \ {HeadN, TailN} : n \in L \ {HeadN, TailN} /\ val'[n] = val[n]
  BY <1>1, EffectFacts
<1>3. items' = items
  BY <1>1, <1>2, ItemsKept
<1>4. \A n \in M \ {HeadN, TailN} : val'[n] \in Value
  BY <1>2 DEF ValInv
<1>5. ValInv(M)'
  BY <1>1, <1>4, ViewStep
<1>10. Becomes(t, CallAt(l, s, r)')
  BY <1>1, <1>4, ViewStep
<1> DEFINE m == is_marked(succ'[r.node])
           k == is_marked(succ[reg[t].node])
<1>6. (DelOf(l, s) /\ m) = (DelOf(pc[t], stack[t]) /\ k)
  <2>1. CASE DelOf(l, s)
    <3>1. DelOf(l, s) /\ r.node = reg[t].node
      BY <2>1 DEF SameCall
    <3>2. CASE DelOf(pc[t], stack[t])
      <4>1. r.node \in Node
        BY <3>1, <3>2, DelFacts
      <4>2. succ[r.node] \in Link /\ succ'[r.node] \in Link
        BY <1>1, <4>1 DEF TypeInv
      <4>3. m <=> k
        BY <3>1, <4>2, MarkFacts DEF SameCall
      <4> QED BY <2>1, <3>2, <4>3
    <3>3. CASE ~ DelOf(pc[t], stack[t])
      <4>1. succ'[r.node].mark # MARKED
        BY <2>1, <3>3 DEF SameCall
      <4>2. r.node \in Node
        BY <2>1 DEF SameCall
      <4>3. ~ m
        BY <1>1, <4>1, <4>2, MarkFacts DEF TypeInv
      <4> QED BY <3>3, <4>3
    <3> QED BY <3>2, <3>3
  <2>2. CASE ~ DelOf(l, s)
    BY <2>2 DEF SameCall
  <2> QED BY <2>1, <2>2
<1>7. CallAt(l, s, r)' = CallAt(pc[t], stack[t], reg[t])
  <2>1. /\ pc[t] # "idle" /\ l # "idle" /\ r.op = reg[t].op /\ r.arg = reg[t].arg
        /\ r.op # "delete" => r.v = reg[t].v
    BY DEF SameCall
  <2>2. CallOf(l, s, r, m) = CallOf(pc[t], stack[t], reg[t], k)
    <3> HIDE DEF m, k
    <3> QED BY <1>6, <2>1, Zenon DEF CallOf
  <2> QED BY <2>2 DEF CallAt
<1>8. /\ call[t] = CallAt(pc[t], stack[t], reg[t])
      /\ call = [u \in Thread |-> call[u]]
  BY CallNow
<1>9. call' = call
  BY <1>10, <1>7, <1>8 DEF Becomes
<1> QED BY <1>3, <1>5, <1>9 DEF Refines, Abstract

\* A step of t outside help_flagged that changes no more than locals.
SameArgs(r, z) == z.op = r.op /\ z.arg = r.arg /\ z.v = r.v /\ z.node = r.node

Calling == Plain \ {"idle"}

LEMMA CallingFacts ==
  /\ Searching \subseteq Calling /\ Found \subseteq Calling
  /\ Linking \subseteq Calling /\ Flagging \subseteq Calling
BY DEF Calling, Plain, Searching, Found, Linking, Flagging, Helping, Label

LEMMA LocalRefines ==
  ASSUME NEW L, NEW R, NEW sq, Inv(L, R, sq), ValInv(L), NEW t \in Thread,
         Inv(L, R, sq)', pc[t] \in Calling, NEW l \in Calling, NEW r,
         SameArgs(reg[t], r), Local(t, l, r)
  PROVE  Refines
<1>1. /\ UNCHANGED <<succ, key, val, stack>>
      /\ pc' = [pc EXCEPT ![t] = l] /\ reg' = [reg EXCEPT ![t] = r]
  BY DEF Local, Goto, nodes
<1>2. /\ TypeInv /\ StackOk(L, R, pc[t], stack[t], reg[t]) /\ L \subseteq R
      /\ ValOk(pc[t], reg[t])
  BY DEF Inv, RefInv, ValInv
<1>3. stack[t] = <<>> /\ stack' = [stack EXCEPT ![t] = <<>>]
  BY <1>1, <1>2 DEF StackOk, Calling, Plain, TypeInv
<1>4. SameCall(t, l, r, <<>>)
  <2>1. ~ DelOf(l, <<>>) /\ ~ DelOf(pc[t], stack[t])
    BY <1>3 DEF DelOf, Calling, Plain
  <2>2. pc[t] # "idle" /\ l # "idle"
    BY DEF Calling
  <2> QED BY <2>1, <2>2 DEF SameCall, SameArgs
<1>5. ValOk(l, r)'
  BY <1>1, <1>2 DEF ValOk, SameArgs, Calling, Plain
<1>6. NoEffect(L, R, L) /\ Steady(R, sq, t)
  BY <1>1 DEF NoEffect, Steady
<1>7. r \in Reg
  BY <1>1, <1>2 DEF Inv, TypeInv
<1> QED BY <1>1, <1>3, <1>4, <1>5, <1>6, <1>7, Stutter

LEMMA BranchRefines ==
  ASSUME NEW L, NEW R, NEW sq, Inv(L, R, sq), ValInv(L), NEW t \in Thread,
         Inv(L, R, sq)', pc[t] \in Calling, NEW l \in Calling, Branch(t, l)
  PROVE  Refines
<1>1. SameArgs(reg[t], reg[t])
  BY DEF SameArgs
<1> QED BY <1>1, LocalRefines DEF Branch

\* What search_from and the loops along backlinks change of the locals.
LEMMA FromArgs ==
  ASSUME NEW r \in Reg, NEW c, NEW k, NEW l, NEW p
  PROVE  LET y == [r EXCEPT !.key = k, !.ret = l]
         IN  /\ SameArgs(r, From(r, c)) /\ SameArgs(r, From(y, c))
             /\ SameArgs(r, [r EXCEPT !.tmp = c])
             /\ SameArgs(r, [r EXCEPT !.prev = c])
BY DEF SameArgs, From, Reg

LEMMA LookRefines ==
  ASSUME NEW L, NEW R, NEW sq, Inv(L, R, sq), ValInv(L), NEW t \in Thread,
         Inv(L, R, sq)', pc[t] \in Calling, NEW r, r.ret \in Found,
         SameArgs(reg[t], r), Look(t, r)
  PROVE  Refines
<1>1. Looked(r) \in Calling
  BY CallingFacts DEF Looked, Searching
<1>2. Local(t, Looked(r), r)
  BY DEF Look
<1> HIDE DEF Looked
<1> QED BY <1>1, <1>2, LocalRefines

LEMMA SearchLocalRefines ==
  ASSUME NEW L, NEW R, NEW sq, Inv(L, R, sq), ValInv(L), NEW t \in Thread,
         Inv(L, R, sq)',
         \/ SearchMark(t) \/ SearchCurrMark(t) \/ SearchCurrNext(t)
         \/ SearchBody(t) \/ SearchUnlink(t) \/ SearchReload(t)
         \/ SearchAdvance(t)
  PROVE  Refines
<1> DEFINE r == reg[t]
<1>1. pc[t] \in Searching
  BY DEF SearchMark, SearchCurrMark, SearchCurrNext, SearchBody, SearchUnlink,
         SearchReload, SearchAdvance, Searching
<1>2. pc[t] \in Calling /\ Searching \subseteq Calling /\ Found \subseteq Calling
  BY <1>1, CallingFacts
<1>3. r \in Reg /\ r.ret \in Found
  BY <1>1, SearchFacts
<1>4. CASE SearchMark(t) \/ SearchCurrMark(t) \/ SearchCurrNext(t) \/ SearchBody(t)
  <2>1. \E l \in Searching : Branch(t, l)
    BY <1>4 DEF SearchMark, SearchCurrMark, SearchCurrNext, SearchBody, Searching
  <2> QED BY <1>2, <2>1, BranchRefines
<1>5. CASE SearchUnlink(t)
  <2>1. "s_cas" \in Calling
    BY <1>2 DEF Searching
  <2> PICK z : z = [r EXCEPT !.tmp = succ[r.next].node]
    OBVIOUS
  <2>2. SameArgs(r, z)
    BY <1>3, FromArgs
  <2>3. Local(t, "s_cas", z)
    BY <1>5 DEF SearchUnlink
  <2> QED BY <1>2, <2>1, <2>2, <2>3, LocalRefines
<1>6. CASE SearchReload(t)
  <2>1. "s_mark" \in Calling
    BY <1>2 DEF Searching
  <2> PICK z : z = From(r, r.curr)
    OBVIOUS
  <2>2. SameArgs(r, z)
    BY <1>3, FromArgs
  <2>3. Local(t, "s_mark", z)
    BY <1>6 DEF SearchReload
  <2> QED BY <1>2, <2>1, <2>2, <2>3, LocalRefines
<1>7. CASE SearchAdvance(t)
  <2>1. CASE key[r.next] <= r.key
    <3> PICK z : z = From(r, r.next)
      OBVIOUS
    <3>1. SameArgs(r, z)
      BY <1>3, FromArgs
    <3>2. Look(t, z)
      BY <1>7, <2>1 DEF SearchAdvance
    <3>3. z.ret \in Found
      BY <1>3 DEF From, Reg
    <3> QED BY <1>2, <3>1, <3>2, <3>3, LookRefines
  <2>2. CASE ~ (key[r.next] <= r.key)
    <3>1. Branch(t, r.ret)
      BY <1>7, <2>2 DEF SearchAdvance
    <3> QED BY <1>2, <1>3, <3>1, BranchRefines
  <2> QED BY <2>1, <2>2
<1> QED BY <1>4, <1>5, <1>6, <1>7

\* while (is_marked_atomic(prev->succ)) prev = prev->backlink
LEMMA GoBackRefines ==
  ASSUME NEW L, NEW R, NEW sq, Inv(L, R, sq), ValInv(L), NEW t \in Thread,
         GoBack(t, "i_back", "i_search") \/ GoBack(t, "f_back", "f_search")
  PROVE  Refines
<1> DEFINE r == reg[t]
<1>1. Inv(L, R, sq)'
  BY GoBackInv
<1>2. /\ pc[t] \in Calling /\ r \in Reg
      /\ {"i_back", "i_search", "f_back", "f_search"} \subseteq Calling
  BY CallingFacts, TypeFacts DEF GoBack, Linking, Flagging, Inv
<1> PICK z : z = [r EXCEPT !.prev = back[r.prev]]
  OBVIOUS
<1>3. SameArgs(r, z)
  BY <1>2, FromArgs
<1>4. CASE is_marked(succ[r.prev])
  <2>1. Local(t, "i_back", z) \/ Local(t, "f_back", z)
    BY <1>4 DEF GoBack
  <2> QED BY <1>1, <1>2, <1>3, <2>1, LocalRefines
<1>5. CASE ~ is_marked(succ[r.prev])
  <2>1. Branch(t, "i_search") \/ Branch(t, "f_search")
    BY <1>5 DEF GoBack
  <2> QED BY <1>1, <1>2, <2>1, BranchRefines
<1> QED BY <1>4, <1>5

LEMMA SearchAgainRefines ==
  ASSUME NEW L, NEW R, NEW sq, Inv(L, R, sq), ValInv(L), NEW t \in Thread,
         Inv(L, R, sq)', pc[t] \in Calling, NEW k, NEW l \in Found,
         SearchAgain(t, k, l)
  PROVE  Refines
<1> PICK r : r = reg[t]
  OBVIOUS
<1> PICK z : z = From([r EXCEPT !.key = k, !.ret = l], r.prev)
  OBVIOUS
<1>1. r \in Reg
  BY TypeFacts DEF Inv
<1>2. SameArgs(r, z)
  BY <1>1, FromArgs
<1>3. z.ret = l
  BY <1>1 DEF From, Reg
<1>4. Look(t, z)
  BY DEF SearchAgain
<1> QED BY <1>2, <1>3, <1>4, LookRefines

LEMMA AgainRefines ==
  ASSUME NEW L, NEW R, NEW sq, Inv(L, R, sq), ValInv(L), NEW t \in Thread,
         InsertSearch(t) \/ FlagSearch(t)
  PROVE  Refines
<1>1. Inv(L, R, sq)'
  BY InsertSearchInv, FlagSearchInv
<1>2. pc[t] \in Calling
  BY CallingFacts DEF InsertSearch, FlagSearch, Linking, Flagging
<1>3. {"i_again", "f_again"} \subseteq Found
  BY DEF Found
<1>4. \E k, l : l \in Found /\ SearchAgain(t, k, l)
  BY <1>3 DEF InsertSearch, FlagSearch
<1> QED BY <1>1, <1>2, <1>4, SearchAgainRefines

-----------------------------------------------------------------------------
\* A step of t in the middle of its call that changes neither links nor values.
LEMMA QuietStep ==
  ASSUME NEW L, NEW R, NEW sq, Inv(L, R, sq), ValInv(L), NEW t \in Thread,
         NEW tq, Inv(L, R, tq)', UNCHANGED <<succ, key, val>>,
         NEW l, NEW r, NEW s,
         pc' = [pc EXCEPT ![t] = l], reg' = [reg EXCEPT ![t] = r],
         stack' = [stack EXCEPT ![t] = s], SameArgs(reg[t], r),
         pc[t] # "idle", l \notin {"idle", "d_copy", "d_free"},
         DelOf(l, s) <=> DelOf(pc[t], stack[t])
  PROVE  Refines
<1>1. TypeInv /\ L \subseteq R /\ ValOk(pc[t], reg[t])
  BY DEF Inv, RefInv, ValInv
<1>2. SameCall(t, l, r, s)
  BY DelFacts DEF SameCall, SameArgs
<1>3. ValOk(l, r)'
  BY <1>1 DEF ValOk, SameArgs
<1>4. NoEffect(L, R, L) /\ Steady(R, sq, t)
  BY DEF NoEffect, Steady
<1>5. r \in Reg
  BY <1>1 DEF Inv, TypeInv
<1> QED BY <1>2, <1>3, <1>4, <1>5, Stutter

\* A call of help_flagged for another deletion.
LEMMA HelpRefines ==
  ASSUME NEW L, NEW R, NEW sq, Inv(L, R, sq), ValInv(L), NEW t \in Thread,
         NEW tq, Inv(L, R, tq)', UNCHANGED <<succ, key, val>>,
         pc[t] \in Calling,
         NEW p, NEW d, NEW l, l # "d_copy", Help(t, p, d, l),
         NEW r, reg' = [reg EXCEPT ![t] = r], SameArgs(reg[t], r)
  PROVE  Refines
<1>1. /\ TypeInv /\ StackOk(L, R, pc[t], stack[t], reg[t])
  BY DEF Inv
<1>2. stack[t] = <<>>
  BY <1>1 DEF StackOk, Calling, Plain
<1>3. PICK s : s = <<Frame(p, d, l)>>
  OBVIOUS
<1>4. /\ pc' = [pc EXCEPT ![t] = "h_back"] /\ stack' = [stack EXCEPT ![t] = s]
  BY <1>1, <1>2, <1>3 DEF Help, Goto, TypeInv
<1>5. s # <<>> /\ s[Len(s)].ret = l
  BY <1>3 DEF Frame
<1>6. ~ DelOf("h_back", s) /\ ~ DelOf(pc[t], stack[t])
  BY <1>2, <1>5 DEF DelOf, Calling, Plain
<1>7. pc[t] # "idle"
  BY DEF Calling
<1> QED BY <1>4, <1>6, <1>7, QuietStep

\* A step that only goes elsewhere, or calls help_flagged.
LEMMA BranchOrHelp ==
  ASSUME NEW L, NEW R, NEW sq, Inv(L, R, sq), ValInv(L), NEW t \in Thread,
         Inv(L, R, sq)', pc[t] \in Calling, UNCHANGED <<nodes, reg, calls>>,
         \/ \E l \in Calling : Goto(t, l) /\ UNCHANGED stack
         \/ \E p, d, l : l # "d_copy" /\ Help(t, p, d, l)
  PROVE  Refines
<1>1. reg' = [reg EXCEPT ![t] = reg[t]] /\ SameArgs(reg[t], reg[t])
  BY DEF Inv, TypeInv, SameArgs
<1>2. UNCHANGED <<succ, key, val>>
  BY DEF nodes
<1>3. ASSUME NEW l \in Calling, Goto(t, l), UNCHANGED stack
      PROVE  Refines
  <2>1. Branch(t, l)
    BY <1>1, <1>3 DEF Branch, Local
  <2> QED BY <2>1, BranchRefines
<1>4. ASSUME NEW p, NEW d, NEW l, l # "d_copy", Help(t, p, d, l)
      PROVE  Refines
  BY <1>1, <1>2, <1>4, HelpRefines
<1> QED BY <1>3, <1>4

LEMMA ResultRefines ==
  ASSUME NEW L, NEW R, NEW sq, Inv(L, R, sq), ValInv(L), NEW t \in Thread,
         FlagFlag(t) => ~ Misled(t),
         InsertResult(t) \/ FlagMark(t) \/ FlagFlag(t) \/ FlagResult(t)
  PROVE  Refines
<1>1. Inv(L, R, sq)'
  BY InsertResultInv, FlagMarkInv, FlagFlagInv, FlagResultInv
<1>2. /\ pc[t] \in Calling
      /\ {"i_back", "f_cas", "f_flag", "f_back"} \subseteq Calling
  BY CallingFacts DEF InsertResult, FlagMark, FlagFlag, FlagResult, Linking,
                      Flagging
<1>3. CASE FlagMark(t)
  <2>1. \E l \in Calling : Branch(t, l)
    BY <1>2, <1>3 DEF FlagMark
  <2> QED BY <1>1, <1>2, <2>1, BranchRefines
<1>4. CASE InsertResult(t) \/ FlagFlag(t) \/ FlagResult(t)
  <2>1. /\ UNCHANGED <<nodes, reg, calls>>
        /\ \/ \E l \in Calling : Goto(t, l) /\ UNCHANGED stack
           \/ \E p, d, l : l # "d_copy" /\ Help(t, p, d, l)
    BY <1>2, <1>4 DEF InsertResult, FlagFlag, FlagResult
  <2> QED BY <1>1, <1>2, <2>1, BranchOrHelp
<1> QED BY <1>3, <1>4

\* list_insert links its node to next.
LEMMA LoadRefines ==
  ASSUME NEW L, NEW R, NEW sq, Inv(L, R, sq), ValInv(L), NEW t \in Thread,
         NEW tq, Inv(L, R, tq)', pc[t] \in Calling, NEW r, SameArgs(reg[t], r),
         Mine(reg[t]), Load(t, r)
  PROVE  Refines
<1>1. CASE is_flagged(succ[r.prev])
  <2>1. /\ Help(t, r.prev, succ[r.prev].node, "i_search")
        /\ UNCHANGED <<succ, key, val>> /\ reg' = [reg EXCEPT ![t] = r]
    BY <1>1 DEF Load, nodes
  <2> QED BY <2>1, HelpRefines
<1>2. CASE ~ is_flagged(succ[r.prev])
  <2>1. /\ succ' = [succ EXCEPT ![r.node] = Ref(r.next, UNMARKED)]
        /\ pc' = [pc EXCEPT ![t] = "i_cas"] /\ reg' = [reg EXCEPT ![t] = r]
        /\ UNCHANGED <<key, val, stack>>
    BY <1>2 DEF Load, Goto
  <2> PICK n : n = r.node
    OBVIOUS
  <2>2. /\ TypeInv /\ L \subseteq R /\ R \subseteq Node
        /\ ValOk(pc[t], reg[t]) /\ OwnInv(L, R, In(sq))
        /\ StackOk(L, R, pc[t], stack[t], reg[t])
    BY DEF Inv, RefInv, ValInv
  <2>3. stack[t] = <<>> /\ stack' = [stack EXCEPT ![t] = <<>>]
    BY <2>1, <2>2 DEF StackOk, Calling, Plain, TypeInv
  <2>4. n = reg[t].node /\ reg[t].op = "insert" /\ n \in Node
    BY DEF SameArgs, Mine
  <2>5. n \notin R /\ n \in OwnedOf(pc[t], stack[t], reg[t])
    BY <2>2, <2>4, NodeFacts DEF OwnInv, OwnedOf
  <2>6. \A m \in Node : m # n => succ'[m] = succ[m]
    BY <2>1, <2>2 DEF TypeInv
  <2>7. NoEffect(L, R, L)
    BY <2>1, <2>2, <2>5, <2>6 DEF NoEffect
  <2>8. Steady(R, sq, t)
    BY <2>1, <2>5, <2>6 DEF Steady
  <2>9. SameCall(t, "i_cas", r, <<>>)
    <3>1. ~ DelOf("i_cas", <<>>) /\ ~ DelOf(pc[t], stack[t])
      BY <2>3 DEF DelOf, Calling, Plain
    <3> QED BY <3>1 DEF SameCall, SameArgs, Calling
  <2>10. ValOk("i_cas", r)'
    BY <2>1, <2>2, <2>4 DEF ValOk, SameArgs
  <2>11. r \in Reg
    BY <2>1, <2>2 DEF Inv, TypeInv
  <2> QED BY <2>1, <2>3, <2>7, <2>8, <2>9, <2>10, <2>11, Stutter
<1> QED BY <1>1, <1>2

LEMMA InsertLoadRefines ==
  ASSUME NEW L, NEW R, NEW sq, Inv(L, R, sq), ValInv(L), NEW t \in Thread,
         InsertLoad(t)
  PROVE  Refines
<1>1. Inv(L, R, sq)'
  BY InsertLoadInv
<1>2. pc[t] \in Linking /\ Load(t, reg[t])
  BY DEF InsertLoad, Linking
<1>3. pc[t] \in Calling /\ Mine(reg[t]) /\ SameArgs(reg[t], reg[t])
  BY <1>2, PrevFacts, CallingFacts DEF SameArgs
<1> QED BY <1>1, <1>2, <1>3, LoadRefines

-----------------------------------------------------------------------------
\* A step inside help_flagged that changes no link; the outermost call is the
\* same.
LEMMA HelpQuiet ==
  ASSUME NEW L, NEW R, NEW sq, Inv(L, R, sq), ValInv(L), NEW t \in Thread,
         Inv(L, R, sq)', UNCHANGED <<succ, key, val, reg>>, pc[t] \in Helping,
         NEW l \in Helping, NEW s, pc' = [pc EXCEPT ![t] = l],
         stack' = [stack EXCEPT ![t] = s], s # <<>>,
         s[Len(s)].ret = stack[t][Len(stack[t])].ret
  PROVE  Refines
<1>1. reg' = [reg EXCEPT ![t] = reg[t]] /\ SameArgs(reg[t], reg[t])
  BY DEF Inv, TypeInv, SameArgs
<1>2. stack[t] # <<>>
  BY HelpFacts
<1>3. DelOf(l, s) <=> DelOf(pc[t], stack[t])
  BY <1>2 DEF DelOf, Helping
<1>4. pc[t] # "idle" /\ l \notin {"idle", "d_copy", "d_free"}
  BY DEF Helping
<1> QED BY <1>1, <1>3, <1>4, QuietStep

LEMMA HelpLocalRefines ==
  ASSUME NEW L, NEW R, NEW sq, Inv(L, R, sq), ValInv(L), NEW t \in Thread,
         \/ HelpBack(t) \/ HelpTest(t) \/ TryMarkNext(t) \/ TryMarkResult(t)
         \/ HelpUnlink(t)
  PROVE  Refines
<1>1. Inv(L, R, sq)'
  BY HelpBackInv, HelpTestInv, TryMarkNextInv, TryMarkResultInv, HelpUnlinkInv
<1>2. /\ pc[t] \in Helping
      /\ {"h_back", "h_test", "h_unlink", "h_next", "h_mark", "h_cas"}
           \subseteq Helping
  BY DEF HelpBack, HelpTest, TryMarkNext, TryMarkResult, HelpUnlink, Helping
<1> PICK z : z = stack[t]
  OBVIOUS
<1>3. /\ z \in Seq(HelpFrame) /\ z # <<>> /\ Len(z) \in Nat /\ Len(z) >= 1
      /\ succ[z[1].del] \in Link /\ succ[z[1].del].node \in Node
      /\ z[1].del \in Node /\ stack = [stack EXCEPT ![t] = z]
  BY <1>2, HelpFacts DEF Inv, TypeInv
<1>4. CASE HelpBack(t) \/ HelpTest(t)
  <2>1. \E l \in Helping : Goto(t, l)
    BY <1>2, <1>4 DEF HelpBack, HelpTest, Branch, Local
  <2>2. UNCHANGED <<succ, key, val, reg>>
    <3>1. reg = [reg EXCEPT ![t] = reg[t]]
      BY DEF Inv, TypeInv
    <3> QED BY <1>4, <3>1 DEF HelpBack, HelpTest, Branch, Local, nodes
  <2>3. UNCHANGED stack
    BY <1>4 DEF HelpBack, HelpTest, Branch, Local
  <2> PICK l \in Helping : pc' = [pc EXCEPT ![t] = l]
    BY <2>1 DEF Goto
  <2>4. stack' = [stack EXCEPT ![t] = z] /\ z # <<>>
    BY <1>3, <2>3
  <2> QED BY <1>1, <1>2, <2>2, <2>4, HelpQuiet
<1>5. CASE TryMarkNext(t) \/ HelpUnlink(t)
  <2> PICK n : n = succ[z[1].del].node
    OBVIOUS
  <2> PICK s : s = [z EXCEPT ![1].next = n]
    OBVIOUS
  <2>1. n \in Maybe
    BY <1>3, NodeFacts
  <2>2. s \in Seq(HelpFrame) /\ Alike(z, s)
    BY <1>3, <2>1, NextAlike
  <2>3. Len(s) = Len(z) /\ s[Len(s)].ret = z[Len(z)].ret /\ s # <<>>
    BY <1>3, <2>2, EmptySeq DEF Alike
  <2>4. stack' = [stack EXCEPT ![t] = s]
    BY <1>5, Zenon DEF TryMarkNext, HelpUnlink, Top1
  <2>5. /\ \E l \in Helping : Goto(t, l)
        /\ UNCHANGED <<succ, key, val, reg>>
    BY <1>2, <1>5 DEF TryMarkNext, HelpUnlink, nodes
  <2> PICK l \in Helping : pc' = [pc EXCEPT ![t] = l]
    BY <2>5 DEF Goto
  <2> QED BY <1>1, <1>2, <2>3, <2>4, <2>5, HelpQuiet
<1>6. CASE TryMarkResult(t)
  <2>1. UNCHANGED <<succ, key, val, reg>>
    BY <1>6 DEF TryMarkResult, nodes
  <2>2. CASE Goto(t, "h_test") /\ UNCHANGED stack
    <3>1. /\ pc' = [pc EXCEPT ![t] = "h_test"] /\ "h_test" \in Helping
          /\ stack' = [stack EXCEPT ![t] = z] /\ z # <<>>
      BY <1>2, <1>3, <2>2 DEF Goto
    <3> QED BY <1>1, <1>2, <2>1, <3>1, HelpQuiet
  <2>3. CASE Help(t, Top1(t).del, succ[Top1(t).del].node, "h_test")
    <3> PICK f : f = Frame(z[1].del, succ[z[1].del].node, "h_test")
      OBVIOUS
    <3> PICK s : s = <<f>> \o z
      OBVIOUS
    <3>1. f \in HelpFrame
      BY <1>3, FrameType
    <3>2. s # <<>> /\ s[Len(s)] = z[Len(z)]
      BY <1>3, <3>1, Pushed
    <3>3. stack' = [stack EXCEPT ![t] = s] /\ pc' = [pc EXCEPT ![t] = "h_back"]
      BY <2>3, Zenon DEF Help, Goto, Top1
    <3> QED BY <1>1, <1>2, <2>1, <3>2, <3>3, HelpQuiet
  <2> QED BY <1>6, <2>2, <2>3 DEF TryMarkResult
<1> QED BY <1>4, <1>5, <1>6

-----------------------------------------------------------------------------
\* The abstract call of a thread.
LEMMA CallFacts ==
  ASSUME NEW t \in Thread
  PROVE  /\ pc[t] = "idle" => call[t].op = "none"
         /\ pc[t] # "idle" =>
              /\ call[t].op = reg[t].op /\ call[t].key = reg[t].arg
              /\ call[t].val = IF reg[t].op = "delete" THEN None ELSE reg[t].v
              /\ call[t].done <=> /\ DelOf(pc[t], stack[t])
                                  /\ is_marked(succ[reg[t].node])
<1> DEFINE c == CallOf(pc[t], stack[t], reg[t], is_marked(succ[reg[t].node]))
           d == DelOf(pc[t], stack[t]) /\ is_marked(succ[reg[t].node])
<1>1. call[t] = c
  BY CallNow DEF CallAt
<1>2. ASSUME pc[t] = "idle" PROVE c.op = "none"
  <2>1. \E x : c = [op |-> "none", out |-> x]
    BY <1>2, Zenon DEF CallOf
  <2> HIDE DEF c
  <2> QED BY <2>1
<1>3. ASSUME pc[t] # "idle"
      PROVE  /\ c.op = reg[t].op /\ c.key = reg[t].arg
             /\ c.val = IF reg[t].op = "delete" THEN None ELSE reg[t].v
             /\ c.done = d
  <2> DEFINE v == IF reg[t].op = "delete" THEN None ELSE reg[t].v
  <2>1. c = [op |-> reg[t].op, key |-> reg[t].arg, val |-> v, done |-> d]
    BY <1>3, Zenon DEF CallOf
  <2> HIDE DEF c, d, v
  <2>2. c.op = reg[t].op /\ c.key = reg[t].arg /\ c.val = v /\ c.done = d
    BY <2>1
  <2> QED BY <2>2 DEF v
<1>4. pc[t] # "idle" => (call[t].done <=> d)
  BY <1>1, <1>3, Zenon
<1> QED BY <1>1, <1>2, <1>3, <1>4, Zenon

\* A call returns.
Outcome(o) == IF o = "ok" THEN "ok" ELSE "refused"
Outs == {"ok", "exist", "noent", "nomem"}

LEMMA EndStep ==
  ASSUME NEW L, NEW R, NEW sq, Inv(L, R, sq), ValInv(L), NEW t \in Thread,
         pc[t] # "idle", NEW M, TypeInv', Steady(R, sq, t),
         \A n \in M \ {HeadN, TailN} : val'[n] \in Value,
         NEW r, NEW s, NEW o \in Outs, r.op = "search", r.out = o,
         pc' = [pc EXCEPT ![t] = "idle"], reg' = [reg EXCEPT ![t] = r],
         stack' = [stack EXCEPT ![t] = s]
  PROVE  /\ ValInv(M)' /\ Dict!Alone(t) /\ Dict!Return(t, Outcome(o))
<1>1. ValOk("idle", r)'
  BY DEF ValOk
<1>2. ValInv(M)'
  BY <1>1, ViewStep
<1>3. Becomes(t, CallAt("idle", s, r)')
  BY <1>1, ViewStep
<1> PICK c : c = CallAt("idle", s, r)'
  OBVIOUS
<1>4. c = Dict!Idle(Outcome(o))
  <2>1. Outcome(o) = CASE o = "none" -> "none" [] o = "ok" -> "ok"
                       [] OTHER -> "refused"
    BY DEF Outcome, Outs
  <2>2. c = [op |-> "none", out |-> CASE r.out = "none" -> "none"
                                      [] r.out = "ok" -> "ok"
                                      [] OTHER -> "refused"]
    BY Zenon DEF CallAt, CallOf
  <2> QED BY <2>1, <2>2 DEF Dict!Idle
<1>5. call' = [call EXCEPT ![t] = c] /\ call = [u \in Thread |-> call[u]]
  BY <1>3, CallNow DEF Becomes
<1>6. call'[t] = c /\ \A u \in Thread \ {t} : call'[u] = call[u]
  BY <1>5
<1>7. call[t].op \in Op
  <2>1. reg[t] \in Reg
    BY TypeFacts DEF Inv
  <2> QED BY <2>1, CallFacts, RegFields
<1>8. call'[t] # call[t]
  BY <1>4, <1>6, <1>7 DEF Dict!Idle, Op
<1> QED BY <1>2, <1>4, <1>6, <1>8 DEF Dict!Alone, Dict!Return

LEMMA ReturnArgs ==
  ASSUME NEW o \in Outs, NEW v
  PROVE  /\ [Idle EXCEPT !.out = o].op = "search"
         /\ [Idle EXCEPT !.out = o].out = o
         /\ [Idle EXCEPT !.out = o, !.v = v].op = "search"
         /\ [Idle EXCEPT !.out = o, !.v = v].out = o
BY DEF Idle

\* A call returns without an effect.
LEMMA RefuseStep ==
  ASSUME NEW L, NEW R, NEW sq, Inv(L, R, sq), ValInv(L), NEW t \in Thread,
         pc[t] # "idle", NEW M, NEW S, NEW tq, Inv(M, S, tq)',
         NoEffect(L, R, M), Steady(R, sq, t), NEW o \in Outs, o # "ok",
         ~ DelOf(pc[t], stack[t]), Return(t, o),
         NEW s, stack' = [stack EXCEPT ![t] = s]
  PROVE  Refines
<1>1. /\ TypeInv /\ ListInv(L) /\ TypeInv' /\ ListInv(M)'
      /\ L \subseteq R /\ R \subseteq Node
  BY DEF Inv, RefInv
<1>2. /\ Keeps(L, M)
      /\ \A n \in M \ {HeadN, TailN} : n \in L \ {HeadN, TailN} /\ val'[n] = val[n]
  BY <1>1, EffectFacts
<1>3. items' = items
  BY <1>1, <1>2, ItemsKept
<1>4. \A n \in M \ {HeadN, TailN} : val'[n] \in Value
  BY <1>2 DEF ValInv
<1> PICK r : r = [Idle EXCEPT !.out = o]
  OBVIOUS
<1>5. r.op = "search" /\ r.out = o
  BY ReturnArgs
<1>6. pc' = [pc EXCEPT ![t] = "idle"] /\ reg' = [reg EXCEPT ![t] = r]
  BY DEF Return, Goto
<1>7. ValInv(M)' /\ Dict!Alone(t) /\ Dict!Return(t, Outcome(o))
  BY <1>1, <1>4, <1>5, <1>6, EndStep
<1>8. call[t].op # "none" /\ ~ call[t].done
  <2>1. reg[t].op \in Op
    BY TypeFacts, RegFields DEF Inv
  <2> QED BY <2>1, CallFacts DEF Op
<1>9. Dict!Refuse(t)
  BY <1>3, <1>7, <1>8 DEF Dict!Refuse, Outcome
<1>10. Dict!Next
  BY <1>7, <1>9 DEF Dict!Next
<1> QED BY <1>7, <1>10 DEF Refines, Abstract

-----------------------------------------------------------------------------
\* A call that returns without an effect, outside help_flagged.
LEMMA PlainRefuse ==
  ASSUME NEW L, NEW R, NEW sq, Inv(L, R, sq), ValInv(L), NEW t \in Thread,
         pc[t] \in Calling, NEW tq, Inv(L, R, tq)',
         NoEffect(L, R, L), Steady(R, sq, t), NEW o \in Outs, o # "ok",
         Return(t, o), UNCHANGED stack
  PROVE  Refines
<1>1. /\ TypeInv /\ StackOk(L, R, pc[t], stack[t], reg[t])
  BY DEF Inv
<1>2. stack[t] = <<>> /\ stack' = [stack EXCEPT ![t] = <<>>]
  BY <1>1 DEF StackOk, Calling, Plain, TypeInv
<1>3. ~ DelOf(pc[t], stack[t]) /\ pc[t] # "idle"
  BY <1>2 DEF DelOf, Calling, Plain
<1> QED BY <1>2, <1>3, RefuseStep

\* The same when it changes nothing else.
LEMMA JustRefuse ==
  ASSUME NEW L, NEW R, NEW sq, Inv(L, R, sq), ValInv(L), NEW t \in Thread,
         pc[t] \in Calling, Inv(L, R, sq)', NEW o \in Outs, o # "ok",
         Return(t, o), UNCHANGED <<nodes, stack, calls>>
  PROVE  Refines
<1>1. NoEffect(L, R, L) /\ Steady(R, sq, t) /\ UNCHANGED stack
  BY DEF NoEffect, Steady, nodes
<1> QED BY <1>1, PlainRefuse

LEMMA FoundCalling ==
  ASSUME NEW t, pc[t] \in Found
  PROVE  pc[t] \in Calling
BY CallingFacts

LEMMA InsertRefused ==
  ASSUME NEW L, NEW R, NEW sq, Inv(L, R, sq), ValInv(L), NEW t \in Thread,
         InsertExists(t) \/ InsertNoMem(t)
  PROVE  Refines
<1>1. Inv(L, R, sq)'
  BY InsertExistsInv, InsertNoMemInv
<1>2. pc[t] \in Calling
  BY FoundCalling DEF InsertExists, InsertNoMem, Found
<1>3. /\ \E o \in Outs : o # "ok" /\ Return(t, o)
      /\ UNCHANGED <<nodes, stack, calls>>
  BY DEF InsertExists, InsertNoMem, Outs
<1> QED BY <1>1, <1>2, <1>3, JustRefuse

LEMMA FlagNodeRefines ==
  ASSUME NEW L, NEW R, NEW sq, Inv(L, R, sq), ValInv(L), NEW t \in Thread,
         Inv(L, R, sq)', pc[t] \in Calling, NEW r, reg[t].op = "delete",
         r.op = reg[t].op, r.arg = reg[t].arg, FlagNode(t, r)
  PROVE  Refines
<1>1. PICK l \in {"f_mark", "f_cas"} : Local(t, l, r)
  BY DEF FlagNode
<1>2. /\ UNCHANGED <<succ, key, val, stack>>
      /\ pc' = [pc EXCEPT ![t] = l] /\ reg' = [reg EXCEPT ![t] = r]
  BY <1>1 DEF Local, Goto, nodes
<1>3. /\ TypeInv /\ StackOk(L, R, pc[t], stack[t], reg[t])
  BY DEF Inv
<1>4. stack[t] = <<>> /\ stack' = [stack EXCEPT ![t] = <<>>]
  BY <1>2, <1>3 DEF StackOk, Calling, Plain, TypeInv
<1>5. SameCall(t, l, r, <<>>)
  <2>1. ~ DelOf(l, <<>>) /\ ~ DelOf(pc[t], stack[t])
    BY <1>1, <1>4 DEF DelOf, Calling, Plain
  <2>2. pc[t] # "idle" /\ l # "idle"
    BY <1>1 DEF Calling
  <2> QED BY <2>1, <2>2 DEF SameCall
<1>6. ValOk(l, r)'
  BY <1>1, <1>2 DEF ValOk
<1>7. NoEffect(L, R, L) /\ Steady(R, sq, t)
  BY <1>2 DEF NoEffect, Steady
<1>8. r \in Reg
  BY <1>2, <1>3 DEF Inv, TypeInv
<1> QED BY <1>2, <1>4, <1>5, <1>6, <1>7, <1>8, Stutter

LEMMA DeleteFoundRefines ==
  ASSUME NEW L, NEW R, NEW sq, Inv(L, R, sq), ValInv(L), NEW t \in Thread,
         DeleteFound(t) \/ FlagAgain(t)
  PROVE  Refines
<1>1. Inv(L, R, sq)'
  BY DeleteFoundInv, FlagAgainInv
<1>2. pc[t] \in Found /\ pc[t] \in {"d_found", "f_again"}
  BY DEF DeleteFound, FlagAgain, Found
<1>3. pc[t] \in Calling
  BY <1>2, FoundCalling
<1>4. reg[t] \in Reg /\ reg[t].op = "delete"
  <2>1. reg[t] \in Reg /\ Seeks(R, reg[t])
    BY <1>2, SearchFacts
  <2>2. pc[t] = reg[t].ret
    BY <1>2, FoundFacts
  <2> QED BY <1>2, <2>1, <2>2 DEF Seeks, Target
<1>5. CASE Return(t, "noent") /\ UNCHANGED <<nodes, stack, calls>>
  <2>1. "noent" \in Outs
    BY DEF Outs
  <2> QED BY <1>1, <1>3, <1>5, <2>1, JustRefuse
<1>6. CASE ~ (Return(t, "noent") /\ UNCHANGED <<nodes, stack, calls>>)
  <2>1. \E r : r.op = reg[t].op /\ r.arg = reg[t].arg /\ FlagNode(t, r)
    <3>1. CASE DeleteFound(t)
      <4> PICK r : r = [reg[t] EXCEPT !.prev = reg[t].curr, !.curr = Null,
                                      !.node = reg[t].next, !.next = Null]
        OBVIOUS
      <4>1. r.op = reg[t].op /\ r.arg = reg[t].arg
        BY <1>4 DEF Reg
      <4>2. FlagNode(t, r)
        BY <1>6, <3>1 DEF DeleteFound
      <4> QED BY <4>1, <4>2
    <3>2. CASE FlagAgain(t)
      <4> PICK r : r = [reg[t] EXCEPT !.prev = reg[t].curr, !.curr = Null,
                                      !.next = Null]
        OBVIOUS
      <4>1. r.op = reg[t].op /\ r.arg = reg[t].arg
        BY <1>4 DEF Reg
      <4>2. FlagNode(t, r)
        BY <1>6, <3>2 DEF FlagAgain
      <4> QED BY <4>1, <4>2
    <3> QED BY <3>1, <3>2
  <2> QED BY <1>1, <1>3, <1>4, <2>1, FlagNodeRefines
<1> QED BY <1>5, <1>6

\* The key has been inserted meanwhile, or not.
LEMMA InsertAgainRefines ==
  ASSUME NEW L, NEW R, NEW sq, Inv(L, R, sq), ValInv(L), NEW t \in Thread,
         InsertAgain(t)
  PROVE  Refines
<1>1. pc[t] = "i_again" /\ pc[t] \in Found
  BY DEF InsertAgain, Found
<1>2. pc[t] \in Calling
  BY <1>1, FoundCalling
<1>3. reg[t] \in Reg /\ Mine(reg[t])
  <2>1. reg[t] \in Reg /\ Seeks(R, reg[t])
    BY <1>1, SearchFacts
  <2>2. pc[t] = reg[t].ret
    BY <1>1, FoundFacts
  <2> QED BY <1>1, <2>1, <2>2 DEF Seeks
<1>4. CASE key[reg[t].curr] = reg[t].arg
  <2> PICK n : n = reg[t].node
    OBVIOUS
  <2>1. /\ succ' = Freed(n) /\ Return(t, "exist")
        /\ UNCHANGED <<key, val, free, stack>>
    BY <1>4 DEF InsertAgain
  <2>2. PICK tq : Inv(L, R, tq)'
    BY InsertAgainInv
  <2>3. /\ TypeInv /\ PoolInv(sq) /\ OwnInv(L, R, In(sq))
        /\ L \subseteq R /\ R \subseteq Node
    BY DEF Inv, RefInv
  <2>4. /\ n \in Node /\ n \in OwnedOf(pc[t], stack[t], reg[t]) /\ n \notin R
    BY <1>3, <2>3, NodeFacts DEF Mine, OwnedOf, OwnInv
  <2>5. n \notin In(sq) /\ R \cap In(sq) = {}
    BY <2>3, <2>4 DEF OwnInv
  <2>6. \A m \in Node \ (In(sq) \cup {n}) : succ'[m] = succ[m]
    BY <2>1, <2>3, <2>4, <2>5, FreedFacts
  <2>7. NoEffect(L, R, L)
    BY <2>1, <2>3, <2>4, <2>5, <2>6 DEF NoEffect
  <2>8. Steady(R, sq, t)
    BY <2>1, <2>4, <2>6 DEF Steady
  <2>9. "exist" \in Outs /\ UNCHANGED stack
    BY <2>1 DEF Outs
  <2> QED BY <1>2, <2>1, <2>2, <2>7, <2>8, <2>9, PlainRefuse
<1>5. CASE key[reg[t].curr] # reg[t].arg
  <2> PICK r : r = [reg[t] EXCEPT !.prev = reg[t].curr, !.curr = Null]
    OBVIOUS
  <2>1. SameArgs(reg[t], r)
    BY <1>3 DEF SameArgs, Reg
  <2>2. Load(t, r)
    BY <1>5 DEF InsertAgain
  <2>3. PICK tq : Inv(L, R, tq)'
    BY InsertAgainInv
  <2> QED BY <1>2, <1>3, <2>1, <2>2, <2>3, LoadRefines
<1> QED BY <1>4, <1>5

-----------------------------------------------------------------------------
\* No node is marked, and none loses its mark.
SameMarks == \A n \in Node : succ'[n].mark = MARKED <=> succ[n].mark = MARKED

LEMMA MarksFacts ==
  ASSUME NEW L, NEW R, NEW sq, Inv(L, R, sq), SameMarks,
         UNCHANGED <<key, val>>, NEW t,
         NEW M, M \subseteq L, \A n \in L \ M : succ[n].mark = MARKED
  PROVE  NoEffect(L, R, M) /\ Steady(R, sq, t)
<1>1. L \subseteq R /\ R \subseteq Node
  BY DEF Inv, RefInv
<1> QED BY <1>1 DEF NoEffect, Steady, SameMarks

\* A marked node is unlinked, or it is not.
LEMMA UnlinkEffect ==
  ASSUME NEW L, NEW R, NEW sq, Inv(L, R, sq), NEW p \in R, NEW n \in R,
         NEW m \in Maybe, succ[n].mark = MARKED, Unlinks(p, n, m),
         NEW M, M = Left(L, p, n), NEW t
  PROVE  NoEffect(L, R, M) /\ Steady(R, sq, t) /\ SameMarks
<1>1. p \in Node /\ n \in Maybe /\ TypeInv
  BY NodeFacts DEF Inv, RefInv
<1>2. Ref(m, UNMARKED).mark = UNMARKED /\ Ref(n, FLAGGED).mark = FLAGGED
  BY DEF Ref
<1>3. ASSUME NEW x \in Node
      PROVE  succ'[x].mark = MARKED <=> succ[x].mark = MARKED
  <2>1. \/ succ'[x] = succ[x]
        \/ x = p /\ succ[p] = Ref(n, FLAGGED) /\ succ'[x] = Ref(m, UNMARKED)
    BY <1>1, <1>3 DEF Unlinks, TypeInv
  <2> QED BY <1>2, <2>1 DEF MARKED, FLAGGED, UNMARKED
<1>4. SameMarks
  BY <1>3 DEF SameMarks
<1>5. M \subseteq L /\ \A x \in L \ M : succ[x].mark = MARKED
  BY DEF Left
<1> QED BY <1>4, <1>5, MarksFacts DEF Unlinks

LEMMA SearchCasRefines ==
  ASSUME NEW L, NEW R, NEW sq, Inv(L, R, sq), ValInv(L), NEW t \in Thread,
         SearchCas(t)
  PROVE  Refines
<1> PICK r : r = reg[t]
  OBVIOUS
<1> PICK M : M = Left(L, r.curr, r.next) /\ Inv(M, R, sq)'
  BY SearchCasInv
<1> PICK z : z = [r EXCEPT !.tmp = Null]
  OBVIOUS
<1>1. pc[t] \in Searching /\ pc[t] \in Marking /\ pc[t] = "s_cas"
  BY DEF SearchCas, Searching, Marking
<1>2. r \in Reg /\ Between(R, r) /\ succ[r.next].mark = MARKED
  BY <1>1, SearchFacts, MarkingFacts
<1>3. Unlinks(r.curr, r.next, r.tmp)
  BY DEF SearchCas, Unlinks
<1>4. r.curr \in R /\ r.next \in R /\ r.tmp \in Maybe
  BY <1>2, RegFields DEF Between
<1>5. NoEffect(L, R, M) /\ Steady(R, sq, t)
  BY <1>2, <1>3, <1>4, UnlinkEffect
<1>6. SameArgs(r, z)
  BY <1>2 DEF SameArgs, Reg
<1>7. /\ TypeInv /\ TypeInv' /\ StackOk(L, R, pc[t], stack[t], r)
      /\ ValOk(pc[t], r)
  BY DEF Inv, ValInv
<1>8. /\ pc' = [pc EXCEPT ![t] = "s_reload"] /\ reg' = [reg EXCEPT ![t] = z]
      /\ UNCHANGED <<val, stack>>
  BY Zenon DEF SearchCas, Goto
<1>9. stack[t] = <<>> /\ stack' = [stack EXCEPT ![t] = <<>>]
  BY <1>1, <1>7, <1>8 DEF StackOk, Searching, Helping, TypeInv
<1>10. z \in Reg
  BY <1>7, <1>8 DEF TypeInv
<1>11. SameCall(t, "s_reload", z, <<>>)
  <2>1. ~ DelOf("s_reload", <<>>) /\ ~ DelOf(pc[t], stack[t])
    BY <1>1, <1>9 DEF DelOf
  <2> QED BY <1>1, <1>6, <2>1 DEF SameCall, SameArgs
<1>12. ValOk("s_reload", z)'
  BY <1>1, <1>6, <1>7, <1>8 DEF ValOk, SameArgs
<1> QED BY <1>5, <1>8, <1>9, <1>10, <1>11, <1>12, Stutter

\* The frame that help_flagged returns from, and the call that goes on.
LEMMA LastFrame ==
  ASSUME NEW L, NEW R, NEW sq, Inv(L, R, sq), NEW t \in Thread,
         pc[t] \in Helping
  PROVE  LET s == stack[t]
         IN  /\ Tail(s) # <<>> =>
                  /\ s[1].ret = "h_test"
                  /\ Tail(s)[Len(Tail(s))].ret = s[Len(s)].ret
             /\ Tail(s) = <<>> =>
                  /\ s[1].ret = s[Len(s)].ret /\ s[1] = s[Len(s)]
                  /\ s[1].ret \in {"i_search", "i_back", "lost", "d_copy"}
<1> PICK s : s = stack[t]
  OBVIOUS
<1>1. /\ s \in Seq(HelpFrame) /\ s # <<>> /\ Len(s) \in Nat /\ Len(s) >= 1
      /\ OuterOk(L, s[Len(s)], reg[t])
  BY HelpFacts
<1>4. PICK b \in BOOLEAN : FramesOk(R, s, b)
  BY HelpFacts, Zenon
<1>5. \A i \in 1 .. Len(s) : i < Len(s) => s[i].ret = "h_test"
  BY <1>4 DEF FramesOk
<1>2. CASE Tail(s) # <<>>
  <2>1. /\ Len(Tail(s)) = Len(s) - 1 /\ Len(s) # 1
        /\ \A i \in 1 .. Len(s) - 1 : Tail(s)[i] = s[i + 1]
    BY <1>1, <1>2, Popped
  <2>2. /\ 1 \in 1 .. Len(s) /\ 1 < Len(s) /\ Len(s) - 1 \in 1 .. Len(s) - 1
        /\ (Len(s) - 1) + 1 = Len(s)
    <3>1. ASSUME NEW n \in Nat, n >= 1, n # 1
          PROVE  /\ 1 \in 1 .. n /\ 1 < n /\ n - 1 \in 1 .. n - 1
                 /\ (n - 1) + 1 = n
      BY <3>1
    <3> QED BY <1>1, <2>1, <3>1
  <2>3. s[1].ret = "h_test"
    BY <1>5, <2>2
  <2>4. Tail(s)[Len(s) - 1] = s[(Len(s) - 1) + 1]
    BY <2>1, <2>2
  <2> QED BY <1>2, <2>1, <2>2, <2>3, <2>4
<1>3. CASE Tail(s) = <<>>
  <2>1. Len(s) = 1
    BY <1>1, <1>3, Popped
  <2> QED BY <1>1, <1>3, <2>1 DEF OuterOk
<1> QED BY <1>2, <1>3

LEMMA HelpCasRefines ==
  ASSUME NEW L, NEW R, NEW sq, Inv(L, R, sq), ValInv(L), NEW t \in Thread,
         HelpCas(t)
  PROVE  Refines
<1> PICK s : s = stack[t]
  OBVIOUS
<1> PICK f : f = s[1]
  OBVIOUS
<1> PICK M : M = Left(L, f.prev, f.del) /\ Inv(M, R, sq)'
  BY HelpCasInv
<1>1. pc[t] \in Helping /\ pc[t] = "h_cas"
  BY DEF HelpCas, Helping
<1>2. f \in HelpFrame /\ f.prev \in R /\ f.del \in R /\ f.next \in Maybe
  BY <1>1, HelpFacts DEF HelpFrame
<1>3. /\ TypeInv /\ TypeInv' /\ StackOk(L, R, pc[t], s, reg[t])
      /\ ValOk(pc[t], reg[t])
  BY DEF Inv, ValInv
<1>4. succ[f.del].mark = MARKED
  BY <1>1, <1>3 DEF StackOk
<1>5. Unlinks(f.prev, f.del, f.next) /\ UNCHANGED val
  BY DEF HelpCas, Unlinks, Top1
<1>6. NoEffect(L, R, M) /\ Steady(R, sq, t) /\ SameMarks
  BY <1>2, <1>4, <1>5, UnlinkEffect
<1> PICK z : z = Tail(s)
  OBVIOUS
<1>7. /\ stack' = [stack EXCEPT ![t] = z]
      /\ IF f.ret = "lost" THEN Return(t, "noent")
                           ELSE Goto(t, f.ret) /\ UNCHANGED reg
  BY Zenon DEF HelpCas, Resume, Top1
<1>8. /\ z # <<>> => f.ret = "h_test" /\ z[Len(z)].ret = s[Len(s)].ret
      /\ z = <<>> => /\ f.ret = s[Len(s)].ret /\ f = s[Len(s)]
                     /\ f.ret \in {"i_search", "i_back", "lost", "d_copy"}
  BY <1>1, LastFrame
<1>9. s # <<>> /\ OuterOk(L, s[Len(s)], reg[t])
  BY <1>1, HelpFacts
<1>10. CASE f.ret = "lost"
  <2>1. s[Len(s)].ret = "lost"
    BY <1>8, <1>10
  <2>2. ~ DelOf(pc[t], stack[t]) /\ pc[t] # "idle"
    BY <1>1, <2>1 DEF DelOf
  <2>3. Return(t, "noent") /\ "noent" \in Outs
    BY <1>7, <1>10 DEF Outs
  <2> QED BY <1>6, <1>7, <2>2, <2>3, RefuseStep
<1>11. CASE f.ret # "lost"
  <2> PICK l, r : l = f.ret /\ r = reg[t]
    OBVIOUS
  <2>1. /\ pc' = [pc EXCEPT ![t] = l] /\ reg' = [reg EXCEPT ![t] = r]
        /\ r \in Reg
    BY <1>3, <1>7, <1>11 DEF Goto, TypeInv
  <2>2. l \in {"h_test", "i_search", "i_back", "d_copy"}
    BY <1>8, <1>11
  <2>3. DelOf(l, z) <=> DelOf(pc[t], stack[t])
    BY <1>1, <1>8, <1>9, <2>2 DEF DelOf
  <2>4. l = "d_copy" => r.node = f.del /\ r.op = "delete"
    BY <1>8, <1>9, <2>2 DEF OuterOk
  <2>5. SameCall(t, l, r, z)
    <3>1. DelOf(l, z) => r.node \in Node
      BY <2>3, DelFacts
    <3>2. DelOf(l, z) => (succ'[r.node].mark = MARKED
                            <=> succ[r.node].mark = MARKED)
      BY <1>6, <3>1 DEF SameMarks
    <3> QED BY <1>1, <2>2, <2>3, <3>1, <3>2 DEF SameCall
  <2>6. l = "d_copy" => succ'[r.node].mark = MARKED
    <3>1. f.del \in Node
      BY <1>2 DEF Inv, RefInv
    <3> QED BY <1>4, <1>6, <2>4, <3>1 DEF SameMarks
  <2>7. ValOk(l, r)'
    BY <1>1, <1>3, <1>5, <2>2, <2>6 DEF ValOk
  <2> QED BY <1>6, <1>7, <2>1, <2>5, <2>7, Stutter
<1> QED BY <1>10, <1>11

\* The node whose predecessor has just been flagged is not marked.
LEMMA FlagCasRefines ==
  ASSUME NEW L, NEW R, NEW sq, Inv(L, R, sq), ValInv(L), NEW t \in Thread,
         FlagCas(t)
  PROVE  Refines
<1> PICK r : r = reg[t]
  OBVIOUS
<1> PICK p, d : p = r.prev /\ d = r.node
  OBVIOUS
<1>1. pc[t] \in Flagging /\ pc[t] = "f_cas" /\ Inv(L, R, sq)'
  BY FlagCasInv DEF FlagCas, Flagging
<1>2. pc[t] \in Calling /\ "f_result" \in Calling
  BY <1>1, CallingFacts DEF Flagging
<1>3. /\ r \in Reg /\ Target(R, r) /\ Behind(R, r) /\ stack[t] = <<>>
      /\ p \in R /\ p \in Node /\ p # TailN /\ succ[p] \in Link
      /\ key[p] \in Int /\ r.arg \in Nat
  BY <1>1, PrevFacts
<1>4. /\ TypeInv /\ TypeInv' /\ ListInv(L) /\ FlagInv(L) /\ R \subseteq Node
      /\ ValOk(pc[t], r) /\ RefInv(L, R)
  <2>1. /\ TypeInv /\ TypeInv' /\ ListInv(L) /\ FlagInv(L) /\ RefInv(L, R)
        /\ ValOk(pc[t], r)
    BY <1>1 DEF Inv, ValInv
  <2> QED BY <2>1 DEF RefInv
<1>5. d \in R /\ d \in Node /\ key[d] = r.arg
  BY <1>3, <1>4 DEF Target
<1>6. CASE succ[p] = Ref(d, UNMARKED)
  <2>1. succ' = [succ EXCEPT ![p] = Ref(d, FLAGGED)]
        /\ Help(t, p, d, "d_copy") /\ UNCHANGED <<key, val, reg>>
    BY <1>6 DEF FlagCas
  <2>2. Leads(p, d, UNMARKED)
    BY <1>6 DEF Ref, Leads
  <2>3. p \in L
    BY <1>3, <1>4, <2>2 DEF RefInv, Leads, MARKED, UNMARKED
  <2>4. d \in L /\ d # p
    BY <1>3, <1>4, <1>5, <2>2, <2>3 DEF ListInv, Leads, Behind
  <2>5. succ[d].mark # MARKED
    <3> SUFFICES ASSUME succ[d].mark = MARKED PROVE FALSE
      OBVIOUS
    <3>1. PICK q \in L : Leads(q, d, FLAGGED)
      BY <1>4, <2>4 DEF FlagInv
    <3>2. q # TailN
      BY <1>4, <3>1 DEF ListInv, Leads, UNMARKED, FLAGGED
    <3>3. succ[p].node = succ[q].node
      BY <2>2, <3>1 DEF Leads
    <3>4. p = q
      BY <1>3, <1>4, <2>3, <3>1, <3>2, <3>3, PredUnique
    <3> QED BY <2>2, <3>1, <3>4 DEF Leads, UNMARKED, FLAGGED
  <2>6. /\ \A n \in Node : n # p => succ'[n] = succ[n]
        /\ succ'[p] = Ref(d, FLAGGED)
    BY <1>3, <1>4, <2>1 DEF TypeInv
  <2>7. SameMarks
    <3>1. succ'[p].mark = FLAGGED /\ succ[p].mark = UNMARKED
      BY <2>2, <2>6 DEF Ref, Leads
    <3> QED BY <2>6, <3>1 DEF SameMarks, FLAGGED, UNMARKED, MARKED
  <2>8. NoEffect(L, R, L) /\ Steady(R, sq, t)
    BY <2>1, <2>7, MarksFacts
  <2>9. PICK s : s = <<Frame(p, d, "d_copy")>>
    OBVIOUS
  <2>10. /\ pc' = [pc EXCEPT ![t] = "h_back"]
         /\ stack' = [stack EXCEPT ![t] = s]
         /\ reg' = [reg EXCEPT ![t] = r]
    BY <1>3, <1>4, <2>1, <2>9 DEF Help, Goto, TypeInv
  <2>11. SameCall(t, "h_back", r, s)
    <3>1. ~ DelOf(pc[t], stack[t])
      BY <1>1, <1>3 DEF DelOf
    <3>2. succ'[d] = succ[d]
      BY <1>5, <2>4, <2>6
    <3> QED BY <1>1, <1>5, <2>5, <3>1, <3>2 DEF SameCall
  <2>12. ValOk("h_back", r)'
    BY <1>1, <1>4, <2>1 DEF ValOk
  <2> QED BY <1>1, <1>3, <2>8, <2>10, <2>11, <2>12, Stutter
<1>7. CASE succ[p] # Ref(d, UNMARKED)
  <2>1. Branch(t, "f_result")
    <3>1. /\ Goto(t, "f_result")
          /\ UNCHANGED <<succ, stack, back, key, val, free, reg, calls>>
      BY <1>7 DEF FlagCas
    <3>2. reg' = [reg EXCEPT ![t] = reg[t]]
      BY <1>4, <3>1 DEF TypeInv
    <3> QED BY <3>1, <3>2 DEF Branch, Local, nodes
  <2> QED BY <1>1, <1>2, <2>1, BranchRefines
<1> QED BY <1>6, <1>7

-----------------------------------------------------------------------------
\* What steps do to the map: they change the binding of k, by that of n.
Rebinds(L, M, n, k) ==
  /\ \A m : m # n => (m \in Live(M)' <=> m \in Live(L))
  /\ \A m \in Live(L) : m # n => key'[m] = key[m] /\ val'[m] = val[m]
  /\ \A m \in Live(L) : key[m] = k <=> m = n
  /\ n \in Live(M)' => key'[n] = k

LEMMA ItemsElse ==
  ASSUME NEW L, NEW M, TypeInv, ListInv(L), TypeInv', ListInv(M)',
         NEW n, NEW k \in Key, Rebinds(L, M, n, k)
  PROVE  /\ items' = [items EXCEPT ![k] = IF n \in Live(M)' THEN val'[n] ELSE None]
         /\ items[k] = IF n \in Live(L) THEN val[n] ELSE None
<1>1. /\ items = [j \in Key |-> items[j]]
      /\ \A m \in Live(L) : key[m] \in Key => items[key[m]] = val[m]
      /\ \A j \in Key : (\A m \in Live(L) : key[m] # j) => items[j] = None
  BY ItemsNow DEF ItemsOk
<1> PICK C, D : C = Live(L) /\ D = Live(M)'
  OBVIOUS
<1>2. /\ items' = [j \in Key |-> items'[j]]
      /\ \A m \in Live(M)' : key'[m] \in Key => items'[key'[m]] = val'[m]
      /\ \A j \in Key : (\A m \in Live(M)' : key'[m] # j) => items'[j] = None
  BY ItemsNext DEF ItemsOk
<1>3. /\ \A m : m # n => (m \in D <=> m \in C)
      /\ \A m \in C : m # n => key'[m] = key[m] /\ val'[m] = val[m]
      /\ \A m \in C : key[m] = k <=> m = n
      /\ n \in D => key'[n] = k
  BY DEF Rebinds
<1>4. items[k] = IF n \in C THEN val[n] ELSE None
  BY <1>1, <1>3
<1>5. items'[k] = IF n \in D THEN val'[n] ELSE None
  BY <1>2, <1>3
<1>6. ASSUME NEW j \in Key, j # k PROVE items'[j] = items[j]
  <2>1. CASE \E m \in C : key[m] = j
    <3> PICK m \in C : key[m] = j
      BY <2>1
    <3>1. m # n /\ m \in D /\ key'[m] = j /\ val'[m] = val[m]
      BY <1>3, <1>6
    <3> QED BY <1>1, <1>2, <3>1
  <2>2. CASE \A m \in C : key[m] # j
    <3>1. \A m \in D : key'[m] # j
      BY <1>3, <1>6, <2>2
    <3> QED BY <1>1, <1>2, <2>2, <3>1
  <2> QED BY <2>1, <2>2
<1> QED BY <1>1, <1>2, <1>4, <1>5, <1>6

\* list_update has found its node, which may have been marked or unlinked.
LEMMA UpdateItems ==
  ASSUME NEW L, NEW R, NEW sq, Inv(L, R, sq), ValInv(L), NEW c \in R,
         key[c] \in Key, NEW v \in Value, TypeInv', ListInv(L)',
         val' = [val EXCEPT ![c] = v], UNCHANGED <<succ, key>>
  PROVE  \/ /\ items[key[c]] # None
            /\ items' = [items EXCEPT ![key[c]] = v]
         \/ UNCHANGED items
<1>1. TypeInv /\ ListInv(L) /\ c \in Node
  BY DEF Inv, RefInv
<1> PICK k : k = key[c]
  OBVIOUS
<1>2. k \in Key /\ c \notin {HeadN, TailN}
  BY <1>1, TopFacts, NodeFacts DEF ListInv
<1>3. \A m : m \in Live(L)' <=> m \in Live(L)
  BY DEF Live
<1>4. val'[c] = v /\ \A m \in Node : m # c => val'[m] = val[m]
  BY <1>1 DEF TypeInv
<1>5. \A m \in Live(L) : m \in L /\ m \in Node
  BY <1>1 DEF Live, ListInv
<1>6. CASE c \in Live(L)
  <2>1. \A m \in Live(L) : key[m] = k <=> m = c
    BY <1>1, <1>5, <1>6 DEF ListInv
  <2>2. Rebinds(L, L, c, k)
    BY <1>3, <1>4, <1>5, <2>1 DEF Rebinds
  <2>3. /\ items' = [items EXCEPT ![k] = IF c \in Live(L)' THEN val'[c] ELSE None]
        /\ items[k] = IF c \in Live(L) THEN val[c] ELSE None
    BY <1>1, <1>2, <2>2, ItemsElse
  <2>4. val[c] \in Value
    BY <1>2, <1>6 DEF ValInv, Live
  <2>5. items[k] # None
    BY <1>6, <2>3, <2>4, ListAssumption
  <2> QED BY <1>3, <1>4, <1>6, <2>3, <2>5
<1>7. CASE c \notin Live(L)
  <2>1. Keeps(L, L)
    BY <1>3, <1>4, <1>5, <1>7 DEF Keeps
  <2> QED BY <1>1, <2>1, ItemsKept
<1> QED BY <1>6, <1>7

LEMMA FindRefines ==
  ASSUME NEW L, NEW R, NEW sq, Inv(L, R, sq), ValInv(L), NEW t \in Thread,
         Find(t)
  PROVE  Refines
<1> PICK r : r = reg[t]
  OBVIOUS
<1>1. pc[t] = "q_found" /\ pc[t] \in Found /\ pc[t] # "idle"
  BY DEF Find, Found
<1>2. pc[t] \in Calling /\ Inv(L, R, sq)'
  BY <1>1, FoundCalling, FindInv
<1>3. r \in Reg /\ ArgOk(r) /\ Between(R, r)
  BY <1>1, SearchFacts
<1>4. /\ TypeInv /\ TypeInv' /\ ListInv(L) /\ ListInv(L)' /\ L \subseteq R
      /\ R \subseteq Node
  BY <1>2 DEF Inv, RefInv
<1>5. call[t].op = r.op /\ call[t].key = r.arg
        /\ (r.op # "delete" => call[t].val = r.v)
  BY <1>1, CallFacts
<1>6. PICK s : stack' = stack => stack' = [stack EXCEPT ![t] = s]
  BY <1>4 DEF TypeInv
<1>7. CASE NotFound(t)
  <2>1. "noent" \in Outs
    BY DEF Outs
  <2> QED BY <1>2, <1>7, <2>1, JustRefuse DEF NotFound
<1>8. CASE SearchFound(t)
  <2> PICK z : z = [Idle EXCEPT !.out = "ok", !.v = val[r.curr]]
    OBVIOUS
  <2>1. /\ UNCHANGED <<succ, key, val, stack>>
        /\ pc' = [pc EXCEPT ![t] = "idle"] /\ reg' = [reg EXCEPT ![t] = z]
    BY <1>8 DEF SearchFound, Goto, nodes
  <2>2. "ok" \in Outs /\ z.op = "search" /\ z.out = "ok"
    BY ReturnArgs DEF Outs
  <2>3. Steady(R, sq, t) /\ NoEffect(L, R, L)
    BY <2>1 DEF Steady, NoEffect
  <2>4. /\ Keeps(L, L)
        /\ \A n \in L \ {HeadN, TailN} : val'[n] \in Value
    BY <1>4, <2>3, EffectFacts DEF ValInv
  <2>5. ValInv(L)' /\ Dict!Alone(t) /\ Dict!Return(t, Outcome("ok"))
    <3>1. pc[t] # "idle" /\ TypeInv' /\ stack' = [stack EXCEPT ![t] = s]
      BY <1>1, <1>4, <1>6, <2>1
    <3> QED BY <2>1, <2>2, <2>3, <2>4, <3>1, EndStep
  <2>6. items' = items
    BY <1>4, <2>4, ItemsKept
  <2>7. Dict!Search(t)
    BY <1>5, <1>8, <2>5, <2>6 DEF SearchFound, Dict!Search, Outcome
  <2> QED BY <1>2, <2>5, <2>7 DEF Refines, Abstract, Dict!Next
<1>9. CASE UpdateFound(t)
  <2> PICK z : z = [Idle EXCEPT !.out = "ok"]
    OBVIOUS
  <2> PICK c : c = r.curr
    OBVIOUS
  <2>1. /\ UNCHANGED <<succ, key, stack>> /\ val' = [val EXCEPT ![c] = r.v]
        /\ pc' = [pc EXCEPT ![t] = "idle"] /\ reg' = [reg EXCEPT ![t] = z]
        /\ r.op = "update" /\ key[c] = r.arg
    BY <1>9 DEF UpdateFound, Return, Goto
  <2>2. "ok" \in Outs /\ z.op = "search" /\ z.out = "ok"
    BY ReturnArgs DEF Outs
  <2>3. c \in R /\ r.v \in Value /\ r.arg \in Key
    BY <1>3, <2>1 DEF Between, ArgOk
  <2>4. val'[c] = r.v /\ \A n \in Node : n # c => val'[n] = val[n]
    BY <1>4, <2>1, <2>3 DEF TypeInv
  <2>5. Steady(R, sq, t)
    BY <2>1, <2>3, <2>4 DEF Steady
  <2>6. \A n \in L \ {HeadN, TailN} : val'[n] \in Value
    BY <1>4, <2>3, <2>4 DEF ValInv
  <2>7. ValInv(L)' /\ Dict!Alone(t) /\ Dict!Return(t, Outcome("ok"))
    <3>1. /\ pc[t] # "idle" /\ TypeInv' /\ stack' = [stack EXCEPT ![t] = s]
          /\ pc' = [pc EXCEPT ![t] = "idle"] /\ reg' = [reg EXCEPT ![t] = z]
      BY <1>1, <1>4, <1>6, <2>1
    <3> QED BY <2>2, <2>5, <2>6, <3>1, EndStep
  <2>8. \/ /\ items[r.arg] # None
           /\ items' = [items EXCEPT ![r.arg] = r.v]
        \/ UNCHANGED items
    BY <1>4, <2>1, <2>3, UpdateItems
  <2>9. Dict!Update(t)
    BY <1>5, <2>1, <2>7, <2>8 DEF Dict!Update, Outcome
  <2> QED BY <1>2, <2>7, <2>9 DEF Refines, Abstract, Dict!Next
<1> QED BY <1>7, <1>8, <1>9 DEF Find

-----------------------------------------------------------------------------
\* A call begins.
LEMMA CallsHas ==
  ASSUME NEW o \in Op, NEW k \in Key, NEW v,
         o \in {"insert", "update"} => v \in Value,
         o \in {"delete", "search"} => v = None
  PROVE  [op |-> o, key |-> k, val |-> v, done |-> FALSE] \in Dict!Calls
<1>1. PICK D : D = {FALSE}
  OBVIOUS
<1>2. PICK f \in D : f = FALSE
  BY <1>1
<1>3. PICK c : c = [op |-> o, key |-> k, val |-> v, done |-> f]
  OBVIOUS
<1>4. CASE o \in {"insert", "update"}
  <2>1. c \in [op : {"insert", "update"}, key : Key, val : Value, done : D]
    BY <1>3, <1>4
  <2> QED BY <1>1, <1>2, <1>3, <2>1, Zenon DEF Dict!Calls
<1>5. CASE o \in {"delete", "search"}
  <2>1. c \in [op : {"delete", "search"}, key : Key, val : {None}, done : D]
    BY <1>3, <1>5
  <2> QED BY <1>1, <1>2, <1>3, <2>1, Zenon DEF Dict!Calls
<1> QED BY <1>4, <1>5 DEF Op

LEMMA BeginStep ==
  ASSUME NEW L, NEW R, NEW sq, Inv(L, R, sq), ValInv(L), NEW t \in Thread,
         Inv(L, R, sq)', pc[t] = "idle", UNCHANGED <<succ, key, val>>,
         NEW l, l \in {"s_mark", "i_found", "d_found", "q_found"},
         NEW z, NEW s, NEW o \in Op, NEW k \in Key, NEW v,
         z.op = o, z.arg = k, z.v = v, z.node = Null,
         o \in {"insert", "update"} => v \in Value,
         o \in {"delete", "search"} => v = None, s = <<>>,
         pc' = [pc EXCEPT ![t] = l], reg' = [reg EXCEPT ![t] = z],
         stack' = [stack EXCEPT ![t] = s]
  PROVE  Refines
<1>1. /\ TypeInv /\ TypeInv' /\ ListInv(L) /\ ListInv(L)' /\ L \subseteq R
  BY DEF Inv, RefInv
<1>2. NoEffect(L, R, L) /\ Steady(R, sq, t)
  BY DEF NoEffect, Steady
<1>3. Keeps(L, L) /\ \A n \in L \ {HeadN, TailN} : val'[n] \in Value
  BY <1>1, <1>2, EffectFacts DEF ValInv
<1>4. items' = items
  BY <1>1, <1>3, ItemsKept
<1>5. ValOk(l, z)'
  BY NodeFacts DEF ValOk
<1>6. ValInv(L)' /\ Becomes(t, CallAt(l, s, z)')
  BY <1>1, <1>2, <1>3, <1>5, ViewStep
<1> PICK c : c = CallAt(l, s, z)'
  OBVIOUS
<1>7. c = [op |-> o, key |-> k, val |-> v, done |-> FALSE]
  <2> DEFINE d == DelOf(l, s) /\ is_marked(succ'[z.node])
             w == IF z.op = "delete" THEN None ELSE z.v
  <2>1. c = [op |-> z.op, key |-> z.arg, val |-> w, done |-> d]
    <3>1. l # "idle"
      OBVIOUS
    <3> QED BY <3>1, Zenon DEF CallAt, CallOf
  <2>2. d = FALSE
    BY DEF DelOf
  <2>3. w = v
    OBVIOUS
  <2> HIDE DEF d, w
  <2> QED BY <2>1, <2>2, <2>3
<1>8. call' = [call EXCEPT ![t] = c] /\ call = [u \in Thread |-> call[u]]
  BY <1>6, CallNow DEF Becomes
<1>9. call'[t] = c /\ \A u \in Thread \ {t} : call'[u] = call[u]
  BY <1>8
<1>10. call[t].op = "none"
  BY CallFacts
<1>11. c.op = o
  BY <1>7
<1>12. c \in Dict!Calls
  BY <1>7, CallsHas, Zenon
<1>13. call'[t] # call[t]
  BY <1>9, <1>10, <1>11 DEF Op
<1>14. Dict!Alone(t) /\ Dict!Begin(t)
  BY <1>4, <1>9, <1>10, <1>12, <1>13 DEF Dict!Alone, Dict!Begin
<1> QED BY <1>6, <1>14 DEF Refines, Abstract, Dict!Next

LEMMA BeginRefines ==
  ASSUME NEW L, NEW R, NEW sq, Inv(L, R, sq), ValInv(L), NEW t \in Thread,
         NEW o \in Op, NEW k \in Key,
         NEW v \in IF o \in {"insert", "update"} THEN Value ELSE {None},
         Call(t, o, k, v)
  PROVE  Refines
<1>r. PICK r : r = [Idle EXCEPT !.op = o, !.arg = k, !.v = v,
                             !.key = IF o = "delete" THEN k - 1 ELSE k,
                             !.ret = CASE o = "insert" -> "i_found"
                                       [] o = "delete" -> "d_found"
                                       [] OTHER -> "q_found"]
  OBVIOUS
<1>1. /\ pc[t] = "idle" /\ reg' = [reg EXCEPT ![t] = From(r, HeadN)]
      /\ pc' = [pc EXCEPT ![t] = Looked(From(r, HeadN))]
      /\ UNCHANGED <<succ, key, val, stack>>
  BY <1>r DEF Call, Goto, nodes
<1>2. /\ r.op = o /\ r.arg = k /\ r.v = v /\ r.node = Null
      /\ r.ret \in {"i_found", "d_found", "q_found"}
  BY <1>r DEF Idle
<1>z. PICK z : z = From(r, HeadN)
  OBVIOUS
<1>3. /\ z.op = o /\ z.arg = k /\ z.v = v /\ z.node = Null
      /\ z.ret \in {"i_found", "d_found", "q_found"}
  BY <1>r, <1>2, <1>z DEF Idle, From
<1>l. PICK l : l = Looked(z)
  OBVIOUS
<1>4. l \in {"s_mark", "i_found", "d_found", "q_found"}
  BY <1>3, <1>l DEF Looked
<1>5. /\ o \in {"insert", "update"} => v \in Value
      /\ o \in {"delete", "search"} => v = None
  OBVIOUS
<1>6. Inv(L, R, sq)'
  <2>1. v \in Value \cup {None} /\ (o \in {"insert", "update"} => v \in Value)
    OBVIOUS
  <2> QED BY <2>1, CallInv
<1>7. TypeInv /\ StackOk(L, R, pc[t], stack[t], reg[t])
  BY DEF Inv
<1> PICK s : s = <<>>
  OBVIOUS
<1>8. stack' = [stack EXCEPT ![t] = s]
  BY <1>1, <1>7 DEF StackOk, Helping, TypeInv
<1>9. /\ pc' = [pc EXCEPT ![t] = l] /\ reg' = [reg EXCEPT ![t] = z]
      /\ pc[t] = "idle" /\ UNCHANGED <<succ, key, val>>
  BY <1>1, <1>z, <1>l
<1> HIDE DEF Looked
<1> QED BY <1>3, <1>4, <1>5, <1>6, <1>8, <1>9, BeginStep

\* list_alloc_node
LEMMA AllocRefines ==
  ASSUME NEW L, NEW R, NEW sq, Inv(L, R, sq), ValInv(L), NEW t \in Thread,
         InsertAlloc(t)
  PROVE  Refines
<1> PICK r, n, l : r = reg[t] /\ n = free /\ l = "i_load"
  OBVIOUS
<1> PICK z : z = [r EXCEPT !.node = n, !.prev = r.curr, !.curr = Null]
  OBVIOUS
<1> PICK tq : Inv(L, R, tq)'
  BY InsertAllocInv
<1>1. pc[t] = "i_found" /\ pc[t] \in Found
  BY DEF InsertAlloc, Found
<1>2. /\ TypeInv /\ TypeInv' /\ PoolInv(sq) /\ OwnInv(L, R, In(sq))
      /\ StackOk(L, R, pc[t], stack[t], r) /\ L \subseteq R /\ R \subseteq Node
  BY DEF Inv, RefInv
<1>3. r \in Reg /\ Seeks(R, r) /\ r.ret = "i_found"
  BY <1>1, SearchFacts, FoundFacts
<1>4. r.op = "insert"
  BY <1>3 DEF Seeks
<1>5. /\ succ' = [succ EXCEPT ![n] = Ref(Null, UNMARKED)]
      /\ key'  = [key EXCEPT ![n] = r.arg]
      /\ val'  = [val EXCEPT ![n] = r.v]
      /\ reg'  = [reg EXCEPT ![t].node = n, ![t].prev = r.curr, ![t].curr = Null]
      /\ pc' = [pc EXCEPT ![t] = l] /\ UNCHANGED stack
  BY DEF InsertAlloc, Goto
<1>6. n \in Node /\ n \in In(sq) /\ n \notin R
  <2>1. n \in Node /\ sq[1] = n /\ 1 \in 1 .. Len(sq)
    BY <1>2 DEF TypeInv, PoolInv
  <2>2. n \in In(sq)
    BY <2>1 DEF In
  <2> QED BY <1>2, <2>1, <2>2 DEF OwnInv
<1>7. /\ \A m \in Node \ {n} : /\ succ'[m] = succ[m] /\ key'[m] = key[m]
                               /\ val'[m] = val[m]
      /\ val'[n] = r.v
  BY <1>2, <1>5, <1>6 DEF TypeInv
<1>8. NoEffect(L, R, L) /\ Steady(R, sq, t)
  BY <1>2, <1>6, <1>7 DEF NoEffect, Steady
<1>9. reg' = [reg EXCEPT ![t] = z]
  BY <1>2, <1>5 DEF TypeInv
<1>10. z \in Reg /\ z.op = r.op /\ z.arg = r.arg /\ z.v = r.v /\ z.node = n
  <2>1. z \in Reg
    BY <1>2, <1>9 DEF TypeInv
  <2> QED BY <1>3, <2>1 DEF Reg
<1>11. stack[t] = <<>> /\ stack' = [stack EXCEPT ![t] = <<>>]
  BY <1>1, <1>2, <1>5 DEF StackOk, Helping, TypeInv
<1>12. SameCall(t, l, z, <<>>)
  BY <1>1, <1>4, <1>10, <1>11 DEF SameCall, DelOf
<1>13. ValOk(l, z)'
  BY <1>4, <1>7, <1>10 DEF ValOk
<1>14. pc' = [pc EXCEPT ![t] = l] /\ z \in Reg
  BY <1>5, <1>10
<1> QED BY <1>8, <1>9, <1>11, <1>12, <1>13, <1>14, Stutter

LEMMA DeleteCopyRefines ==
  ASSUME NEW L, NEW R, NEW sq, Inv(L, R, sq), ValInv(L), NEW t \in Thread,
         DeleteCopy(t)
  PROVE  Refines
<1> PICK r, l : r = reg[t] /\ l = "d_free"
  OBVIOUS
<1> PICK z : z = [r EXCEPT !.v = val[r.node]]
  OBVIOUS
<1>1. Inv(L, R, sq)' /\ pc[t] = "d_copy"
  BY DeleteCopyInv DEF DeleteCopy
<1>2. /\ TypeInv /\ TypeInv' /\ RegOk(L, R, pc[t], r)
      /\ StackOk(L, R, pc[t], stack[t], r) /\ ValOk(pc[t], r)
  BY <1>1 DEF Inv, ValInv
<1>3. /\ pc' = [pc EXCEPT ![t] = l] /\ reg' = [reg EXCEPT ![t] = z]
      /\ UNCHANGED <<succ, key, val, stack>>
  BY DEF DeleteCopy, Local, Goto, nodes
<1>4. r \in Reg /\ r.op = "delete" /\ r.node \in Node
  BY <1>1, <1>2, TypeFacts DEF RegOk
<1>5. z \in Reg /\ z.op = r.op /\ z.arg = r.arg /\ z.node = r.node
  <2>1. z \in Reg
    BY <1>2, <1>3 DEF TypeInv
  <2> QED BY <1>4, <2>1 DEF Reg
<1>6. stack[t] = <<>> /\ stack' = [stack EXCEPT ![t] = <<>>]
  BY <1>1, <1>2, <1>3 DEF StackOk, Helping, TypeInv
<1>7. NoEffect(L, R, L) /\ Steady(R, sq, t)
  BY <1>3 DEF NoEffect, Steady
<1>8. SameCall(t, l, z, <<>>)
  BY <1>1, <1>3, <1>4, <1>5 DEF SameCall, DelOf
<1>9. ValOk(l, z)'
  BY <1>1, <1>2, <1>3, <1>4, <1>5 DEF ValOk
<1> QED BY <1>1, <1>3, <1>5, <1>6, <1>7, <1>8, <1>9, Stutter

\* list_delete frees the node that it has unlinked, and returns.
LEMMA DeleteFreeRefines ==
  ASSUME NEW L, NEW R, NEW sq, Inv(L, R, sq), ValInv(L),
         NEW t \in Thread, DeleteFree(t), ~ Early(t)
  PROVE  Refines
<1> PICK r, n, s : r = reg[t] /\ n = r.node /\ s = stack[t]
  OBVIOUS
<1> PICK z : z = [Idle EXCEPT !.out = "ok"]
  OBVIOUS
<1> PICK tq : Inv(L, L, tq)'
  BY DeleteFreeInv
<1>1. pc[t] = "d_free"
  BY DEF DeleteFree
<1>2. /\ TypeInv /\ TypeInv' /\ ListInv(L) /\ ListInv(L)' /\ PoolInv(sq)
      /\ OwnInv(L, R, In(sq)) /\ RegOk(L, R, pc[t], r) /\ ValOk(pc[t], r)
      /\ L \subseteq R /\ R \subseteq Node
  BY DEF Inv, RefInv, ValInv
<1>3. r.op = "delete" /\ n \in Node \ L
  BY <1>1, <1>2 DEF RegOk
<1>4. succ[n].mark = MARKED /\ succ[n] \in Link
  BY <1>1, <1>2, <1>3 DEF ValOk, TypeInv
<1>5. /\ succ' = Freed(n) /\ UNCHANGED <<key, val, free, stack>>
      /\ pc' = [pc EXCEPT ![t] = "idle"] /\ reg' = [reg EXCEPT ![t] = z]
  BY DEF DeleteFree, Return, Goto
<1>6. n \in OwnedOf(pc[t], stack[t], reg[t])
  BY <1>1, <1>3, NodeFacts DEF OwnedOf
<1>7. n \notin In(sq) /\ R \cap In(sq) = {}
  BY <1>2, <1>6 DEF OwnInv
<1>8. \A m \in Node \ (In(sq) \cup {n}) : succ'[m] = succ[m]
  BY <1>2, <1>3, <1>5, <1>7, FreedFacts
<1>9. NoEffect(L, R, L)
  BY <1>2, <1>3, <1>5, <1>7, <1>8 DEF NoEffect
<1>10. Steady(R, sq, t)
  BY <1>5, <1>6, <1>8 DEF Steady
<1>11. Keeps(L, L) /\ \A m \in L \ {HeadN, TailN} : val'[m] \in Value
  BY <1>2, <1>9, EffectFacts DEF ValInv
<1>12. items' = items
  BY <1>2, <1>11, ItemsKept
<1>13. "ok" \in Outs /\ z.op = "search" /\ z.out = "ok"
  BY ReturnArgs DEF Outs
<1>14. ValInv(L)' /\ Dict!Alone(t) /\ Dict!Return(t, Outcome("ok"))
  <2>1. /\ pc[t] # "idle" /\ stack' = [stack EXCEPT ![t] = s]
        /\ pc' = [pc EXCEPT ![t] = "idle"] /\ reg' = [reg EXCEPT ![t] = z]
        /\ TypeInv'
    BY <1>1, <1>2, <1>5 DEF TypeInv
  <2> QED BY <1>10, <1>11, <1>13, <2>1, EndStep
<1>15. call[t].op = "delete" /\ call[t].done
  <2>1. DelOf(pc[t], stack[t]) /\ is_marked(succ[reg[t].node])
    BY <1>1, <1>4, MarkFacts DEF DelOf
  <2> QED BY <1>1, <1>3, <2>1, CallFacts
<1>16. Dict!Deleted(t)
  BY <1>12, <1>14, <1>15 DEF Dict!Deleted, Outcome
<1> QED BY <1>14, <1>16 DEF Refines, Abstract, Dict!Next

-----------------------------------------------------------------------------
\* list_insert binds its key.
LEMMA InsertLinkRefines ==
  ASSUME NEW L, NEW R, NEW sq, Inv(L, R, sq), ValInv(L), NEW t \in Thread,
         NEW r, r = reg[t], NEW n, n = r.node, pc[t] = "i_cas",
         Links(L, R, r.prev, n, r.next), NEW S, NEW M, M = With(L, n),
         Inv(M, S, sq)', Return(t, "ok"), UNCHANGED stack
  PROVE  Refines
<1>z. PICK z : z = [Idle EXCEPT !.out = "ok"]
  OBVIOUS
<1> PICK p, x, k, s : p = r.prev /\ x = r.next /\ k = r.arg /\ s = stack[t]
  OBVIOUS
<1>1. /\ TypeInv /\ TypeInv' /\ ListInv(L) /\ ListInv(M)' /\ L \subseteq R
      /\ R \subseteq Node /\ ValOk(pc[t], r) /\ RegOk(L, R, pc[t], r)
  BY DEF Inv, RefInv, ValInv
<1>2. pc[t] \in Linking
  BY DEF Linking
<1>3. /\ r.op = "insert" /\ n \in Node /\ key[n] = k /\ k \in Key
      /\ r.v \in Value /\ r \in Reg
  <2>1. Mine(r) /\ r \in Reg
    BY <1>2, PrevFacts
  <2>2. k \in Key /\ r.v \in Value
    BY <1>1, <2>1 DEF RegOk, Mine
  <2> QED BY <2>1, <2>2 DEF Mine
<1>4. /\ p \in L /\ p # TailN /\ n \notin R /\ succ[p].node = x
      /\ succ[p].mark = UNMARKED /\ succ[n].mark = UNMARKED
      /\ key[p] < key[n] /\ key[n] < key[x]
      /\ succ' = [succ EXCEPT ![p] = Ref(n, UNMARKED)]
      /\ UNCHANGED <<key, val>>
  BY DEF Links, Leads
<1>5. /\ succ'[p].mark = UNMARKED
      /\ \A m \in Node : m # p => succ'[m] = succ[m]
  BY <1>1, <1>4 DEF TypeInv, Ref
<1>6. SameMarks
  BY <1>4, <1>5 DEF SameMarks
<1>7. Steady(R, sq, t)
  BY <1>4, <1>6 DEF SameMarks, Steady
<1>8. val[n] = r.v
  BY <1>1, <1>3 DEF ValOk
<1>9. \A m \in M \ {HeadN, TailN} : val'[m] \in Value
  BY <1>3, <1>4, <1>8 DEF ValInv, With
<1>10. "ok" \in Outs /\ z.op = "search" /\ z.out = "ok"
  BY <1>z, ReturnArgs DEF Outs
<1>11. /\ pc' = [pc EXCEPT ![t] = "idle"] /\ reg' = [reg EXCEPT ![t] = z]
       /\ stack' = [stack EXCEPT ![t] = s] /\ pc[t] # "idle" /\ TypeInv'
  BY <1>1, <1>z DEF Return, Goto, TypeInv
<1>12. ValInv(M)' /\ Dict!Alone(t) /\ Dict!Return(t, Outcome("ok"))
  <2>1. \A m \in M \ {HeadN, TailN} : val'[m] \in Value
    BY <1>9
  <2>2. /\ pc[t] # "idle" /\ stack' = [stack EXCEPT ![t] = s]
        /\ pc' = [pc EXCEPT ![t] = "idle"] /\ reg' = [reg EXCEPT ![t] = z]
        /\ TypeInv'
    BY <1>11
  <2> QED BY ONLY <1>7, <1>10, <2>1, <2>2, EndStep, Inv(L, R, sq), ValInv(L),
                  t \in Thread
<1>13. \A m \in L : key[m] # k
  <2> SUFFICES ASSUME NEW m \in L, key[m] = k PROVE FALSE
    OBVIOUS
  <2>1. key[p] < key[m]
    BY <1>3, <1>4
  <2>2. key[x] <= key[m]
    BY <1>1, <1>4, <2>1 DEF ListInv
  <2>3. x \in L
    BY <1>1, <1>4 DEF ListInv
  <2>4. key[x] \in Int /\ key[m] \in Int
    <3>1. x \in Node /\ m \in Node
      BY <1>1, <2>3
    <3> QED BY <1>1, <3>1, TypeFacts
  <2> QED BY <1>3, <1>4, <2>2, <2>4
<1>14. /\ \A m : m # n => (m \in Live(M)' <=> m \in Live(L))
       /\ n \in Live(M)' /\ n \notin Live(L)
  <2>1. n \notin {HeadN, TailN} /\ n \notin L /\ M = L \cup {n}
        /\ L \subseteq Node
    BY <1>1, <1>4 DEF With, ListInv
  <2>2. succ'[n].mark # MARKED
    <3>1. n \in Node /\ succ[n].mark # MARKED
      BY <1>3, <1>4 DEF MARKED, UNMARKED
    <3> QED BY <1>6, <3>1 DEF SameMarks
  <2> QED BY <1>6, <2>1, <2>2 DEF SameMarks, Live
<1>15. Rebinds(L, M, n, k)
  <2>1. \A m \in Live(L) : m \in L
    BY DEF Live
  <2> QED BY <1>3, <1>4, <1>13, <1>14, <2>1 DEF Rebinds
<1>16. /\ items' = [items EXCEPT ![k] = IF n \in Live(M)' THEN val'[n] ELSE None]
       /\ items[k] = IF n \in Live(L) THEN val[n] ELSE None
  BY <1>1, <1>3, <1>15, ItemsElse
<1>17. items' = [items EXCEPT ![k] = r.v] /\ items[k] = None
  BY <1>4, <1>8, <1>14, <1>16
<1>18. call[t].op = "insert" /\ call[t].key = k /\ call[t].val = r.v
  BY <1>3, <1>11, CallFacts
<1>19. Dict!Insert(t)
  BY <1>12, <1>17, <1>18 DEF Dict!Insert, Outcome
<1> QED BY <1>12, <1>19 DEF Refines, Abstract, Dict!Next

LEMMA InsertCasRefines ==
  ASSUME NEW L, NEW R, NEW sq, Inv(L, R, sq), ValInv(L), NEW t \in Thread,
         InsertCas(t)
  PROVE  Refines
<1>1. pc[t] = "i_cas" /\ pc[t] \in Calling /\ "i_result" \in Calling
  BY CallingFacts DEF InsertCas, Linking
<1>2. PICK M, S :
        /\ Inv(M, S, sq)' /\ stack' = stack
        /\ \/ /\ M = L /\ S = R /\ Goto(t, "i_result")
              /\ UNCHANGED <<nodes, reg>>
           \/ /\ M = With(L, reg[t].node) /\ Return(t, "ok")
              /\ Links(L, R, reg[t].prev, reg[t].node, reg[t].next)
  BY InsertCasInv
<1>3. CASE /\ M = L /\ S = R /\ Goto(t, "i_result")
           /\ UNCHANGED <<nodes, reg>>
  <2>1. reg' = [reg EXCEPT ![t] = reg[t]]
    BY <1>3 DEF Inv, TypeInv
  <2>2. Branch(t, "i_result")
    BY <1>2, <1>3, <2>1 DEF Branch, Local, InsertCas
  <2> QED BY <1>1, <1>2, <1>3, <2>2, BranchRefines
<1>4. CASE /\ M = With(L, reg[t].node) /\ Return(t, "ok")
           /\ Links(L, R, reg[t].prev, reg[t].node, reg[t].next)
  <2> PICK r, n : r = reg[t] /\ n = r.node
    OBVIOUS
  <2> QED BY <1>1, <1>2, <1>4, InsertLinkRefines
<1> QED BY <1>2, <1>3, <1>4

-----------------------------------------------------------------------------
\* try_mark has marked a node: the deletion of its owner u takes effect.
Marks(L, t, d) ==
  /\ d \in L /\ key[d] \in Key /\ succ[d].mark = UNMARKED
  /\ succ'[d].mark = MARKED
  /\ \A n \in Node : n # d => succ'[n] = succ[n]
  /\ pc[t] = "h_mark" /\ pc' = [pc EXCEPT ![t] = "h_result"]
  /\ UNCHANGED <<key, val, reg, stack>>

\* The call of u is the one that deletes d.
Deletes(u, d) == DelOf(pc[u], stack[u]) /\ reg[u].node = d
                 /\ reg[u].op = "delete" /\ reg[u].arg = key[d]

LEMMA OwnerFacts ==
  ASSUME NEW L, NEW R, NEW sq, Inv(L, R, sq), NEW p, NEW d,
         NEW u \in Thread, Flags(stack[u], p, d)
  PROVE  Deletes(u, d) /\ pc[u] # "idle"
<1>1. RegOk(L, R, pc[u], reg[u]) /\ StackOk(L, R, pc[u], stack[u], reg[u])
  BY DEF Inv
<1>2. /\ stack[u] # <<>> /\ stack[u][Len(stack[u])].ret = "d_copy"
      /\ stack[u][Len(stack[u])].del = d
  BY DEF Flags
<1>3. pc[u] \in Helping /\ OuterOk(L, stack[u][Len(stack[u])], reg[u])
  BY <1>1, <1>2 DEF StackOk
<1>4. reg[u].op = "delete" /\ reg[u].node = d
  BY <1>2, <1>3 DEF OuterOk
<1>5. Target(R, reg[u])
  BY <1>1, <1>3, <1>4 DEF RegOk, Mine
<1>6. DelOf(pc[u], stack[u])
  BY <1>2 DEF DelOf
<1>7. pc[u] # "idle"
  BY <1>3 DEF Helping
<1> QED BY <1>4, <1>5, <1>6, <1>7 DEF Deletes, Target

LEMMA MarkedCalls ==
  ASSUME NEW L, NEW R, NEW sq, Inv(L, R, sq), NEW t \in Thread, NEW d,
         Marks(L, t, d), NEW u \in Thread, Deletes(u, d), pc[u] # "idle"
  PROVE  /\ \A w \in Thread \ {u} : call'[w] = call[w]
         /\ call[u].op = "delete" /\ ~ call[u].done
         /\ call'[u] = [call[u] EXCEPT !.done = TRUE] /\ call'[u] # call[u]
<1>1. TypeInv /\ OwnInv(L, R, In(sq)) /\ d \in Node
  BY DEF Inv, ListInv, Marks
<1>2. ASSUME NEW w \in Thread
      PROVE  /\ pc'[w] = "idle" <=> pc[w] = "idle"
             /\ DelOf(pc'[w], stack'[w]) <=> DelOf(pc[w], stack[w])
             /\ reg'[w] = reg[w]
  <2>1. reg' = reg /\ stack' = stack
    BY DEF Marks
  <2>2. pc'[w] = pc[w] \/ (pc[w] = "h_mark" /\ pc'[w] = "h_result")
    BY <1>1 DEF Marks, TypeInv
  <2> QED BY <2>1, <2>2 DEF DelOf
<1>3. ASSUME NEW w \in Thread, w # u, DelOf(pc[w], stack[w])
      PROVE  is_marked(succ'[reg[w].node]) = is_marked(succ[reg[w].node])
  <2>1. /\ reg[w].node \in Node
        /\ reg[w].node \in OwnedOf(pc[w], stack[w], reg[w])
    BY <1>3, DelFacts
  <2>2. d \in OwnedOf(pc[u], stack[u], reg[u])
    BY DelFacts DEF Deletes
  <2>3. reg[w].node # d
    BY <1>1, <1>3, <2>1, <2>2 DEF OwnInv
  <2>4. succ'[reg[w].node] = succ[reg[w].node]
    BY <2>1, <2>3 DEF Marks
  <2> QED BY <2>4, Zenon
<1>4. ~ is_marked(succ[d]) /\ is_marked(succ'[d])
  BY DEF Marks, is_marked, MARKED, UNMARKED
<1> DEFINE old(w) == CallOf(pc[w], stack[w], reg[w],
                            is_marked(succ[reg[w].node]))
           new(w) == CallOf(pc'[w], stack'[w], reg'[w],
                            is_marked(succ'[reg'[w].node]))
<1>5. call = [w \in Thread |-> old(w)] /\ call' = [w \in Thread |-> new(w)]
  BY CallNow, CallNext, Zenon DEF CallAt
<1>6. ASSUME NEW w \in Thread, w # u PROVE new(w) = old(w)
  <2> DEFINE a == DelOf(pc[w], stack[w]) /\ is_marked(succ[reg[w].node])
             b == DelOf(pc'[w], stack'[w]) /\ is_marked(succ'[reg'[w].node])
  <2>1. a = b
    BY <1>2, <1>3, <1>6, Zenon
  <2>2. (pc'[w] = "idle") = (pc[w] = "idle")
    BY <1>2, Zenon
  <2> HIDE DEF a, b
  <2>3. old(w) = new(w)
    BY <1>2, <2>1, <2>2, Zenon DEF CallOf, a, b
  <2> QED BY <2>3
<1>7. reg[u].op = "delete" /\ reg[u].node = d /\ DelOf(pc[u], stack[u])
  BY DEF Deletes
<1>8. old(u) = [op |-> "delete", key |-> reg[u].arg, val |-> None,
                done |-> FALSE]
  <2>1. (DelOf(pc[u], stack[u]) /\ is_marked(succ[reg[u].node])) = FALSE
    BY <1>4, <1>7, Zenon
  <2>2. (IF reg[u].op = "delete" THEN None ELSE reg[u].v) = None
    BY <1>7
  <2> QED BY <1>7, <2>1, <2>2, Zenon DEF CallOf
<1>9. new(u) = [op |-> "delete", key |-> reg[u].arg, val |-> None,
                done |-> TRUE]
  <2>1. (DelOf(pc'[u], stack'[u]) /\ is_marked(succ'[reg'[u].node])) = TRUE
    BY <1>2, <1>4, <1>7, Zenon
  <2>2. (IF reg'[u].op = "delete" THEN None ELSE reg'[u].v) = None
    BY <1>2, <1>7
  <2>3. pc'[u] # "idle" /\ reg'[u].op = "delete" /\ reg'[u].arg = reg[u].arg
    BY <1>2, <1>7
  <2> QED BY <2>1, <2>2, <2>3, Zenon DEF CallOf
<1> HIDE DEF old, new
<1>10. call[u] = old(u) /\ call'[u] = new(u)
       /\ \A w \in Thread \ {u} : call'[w] = call[w]
  BY <1>5, <1>6
<1>11. PICK a \in BOOLEAN, b \in BOOLEAN : a = FALSE /\ b = TRUE
  BY Zenon
<1> PICK x, y : x = old(u) /\ y = new(u)
  OBVIOUS
<1> PICK k : k = reg[u].arg
  OBVIOUS
<1>12. /\ x = [op |-> "delete", key |-> k, val |-> None, done |-> a]
       /\ y = [op |-> "delete", key |-> k, val |-> None, done |-> b]
       /\ a # b
  BY <1>8, <1>9, <1>11, Zenon
<1>13. x.op = "delete" /\ x.done = a /\ y.done = b
  BY <1>12
<1>14. y = [x EXCEPT !.done = b] /\ y # x
  BY <1>12, <1>13
<1>15. call[u] = x /\ call'[u] = y
  BY <1>10
<1> QED BY <1>10, <1>11, <1>13, <1>14, <1>15, Zenon

LEMMA MarkedItems ==
  ASSUME NEW L, NEW R, NEW sq, Inv(L, R, sq), ValInv(L), NEW t \in Thread,
         NEW d, Marks(L, t, d), TypeInv', ListInv(L)'
  PROVE  /\ items[key[d]] # None
         /\ items' = [items EXCEPT ![key[d]] = None]
<1>1. TypeInv /\ ListInv(L)
  BY DEF Inv
<1> PICK k : k = key[d]
  OBVIOUS
<1>2. /\ k \in Key /\ d \in L /\ succ[d].mark # MARKED /\ succ'[d].mark = MARKED
      /\ key' = key /\ val' = val
      /\ \A n \in Node : n # d => succ'[n] = succ[n]
  BY DEF Marks, MARKED, UNMARKED
<1>3. d \notin {HeadN, TailN} /\ L \subseteq Node
  BY <1>1, <1>2, TopFacts, NodeFacts DEF ListInv
<1>4. /\ d \in Live(L) /\ d \notin Live(L)'
      /\ \A m : m # d => (m \in Live(L)' <=> m \in Live(L))
  BY <1>2, <1>3 DEF Live
<1>5. \A m \in Live(L) : m \in L
  BY DEF Live
<1>6. \A m \in Live(L) : key[m] = k <=> m = d
  BY <1>1, <1>2, <1>5 DEF ListInv
<1>7. Rebinds(L, L, d, k)
  BY <1>2, <1>4, <1>6 DEF Rebinds
<1>8. /\ items' = [items EXCEPT ![k] = IF d \in Live(L)' THEN val'[d] ELSE None]
      /\ items[k] = IF d \in Live(L) THEN val[d] ELSE None
  BY <1>1, <1>2, <1>7, ItemsElse
<1>9. val[d] \in Value
  BY <1>2, <1>3 DEF ValInv
<1> QED BY <1>4, <1>8, <1>9, ListAssumption

LEMMA MarkRefines ==
  ASSUME NEW L, NEW R, NEW sq, Inv(L, R, sq), ValInv(L), NEW t \in Thread,
         NEW d, Marks(L, t, d), Inv(L, R, sq)', NEW u \in Thread,
         Deletes(u, d), pc[u] # "idle"
  PROVE  Refines
<1>1. /\ TypeInv /\ TypeInv' /\ ListInv(L) /\ ListInv(L)'
      /\ L \subseteq R /\ R \subseteq Node
  BY DEF Inv, RefInv
<1>2. /\ items[key[d]] # None
      /\ items' = [items EXCEPT ![key[d]] = None]
  BY <1>1, MarkedItems
<1>3. /\ \A w \in Thread \ {u} : call'[w] = call[w]
      /\ call[u].op = "delete" /\ ~ call[u].done
      /\ call'[u] = [call[u] EXCEPT !.done = TRUE] /\ call'[u] # call[u]
  BY MarkedCalls
<1>4. call[u].key = key[d]
  BY CallFacts DEF Deletes
<1>5. Dict!Alone(u) /\ Dict!Delete(u)
  BY <1>2, <1>3, <1>4 DEF Dict!Alone, Dict!Delete
<1>6. ValInv(L)'
  <2>1. /\ val' = val /\ reg' = reg /\ succ'[d].mark = MARKED
        /\ \A n \in Node : n # d => succ'[n] = succ[n]
    BY DEF Marks
  <2>2. \A n \in L \ {HeadN, TailN} : val'[n] \in Value
    BY <2>1 DEF ValInv
  <2>3. ASSUME NEW w \in Thread PROVE ValOk(pc[w], reg[w])'
    <3>1. ValOk(pc[w], reg[w]) /\ RegOk(L, R, pc[w], reg[w])
      BY DEF Inv, ValInv
    <3>2. pc'[w] = pc[w] \/ (pc[w] = "h_mark" /\ pc'[w] = "h_result")
      BY <1>1 DEF Marks, TypeInv
    <3>3. pc[w] \in {"d_copy", "d_free"} => reg[w].node \in Node
      BY <3>1 DEF RegOk
    <3> QED BY <2>1, <3>1, <3>2, <3>3 DEF ValOk
  <2> QED BY <2>2, <2>3 DEF ValInv
<1> QED BY <1>5, <1>6 DEF Refines, Abstract, Dict!Next

LEMMA TryMarkCasRefines ==
  ASSUME NEW L, NEW R, NEW sq, Inv(L, R, sq), ValInv(L), NEW t \in Thread,
         TryMarkCas(t)
  PROVE  Refines
<1> PICK s : s = stack[t]
  OBVIOUS
<1> PICK p, d, m : p = s[1].prev /\ d = s[1].del /\ m = s[1].next
  OBVIOUS
<1>1. pc[t] = "h_mark" /\ pc[t] \in Helping /\ "h_result" \in Helping
  BY DEF TryMarkCas, Helping
<1>2. Inv(L, R, sq)'
  BY TryMarkCasInv
<1>3. /\ s # <<>> /\ s[1] \in HelpFrame /\ FrameOk(R, s[1])
      /\ d \in R /\ d \in Node /\ p \in R /\ succ[d] \in Link
  BY <1>1, HelpFacts
<1>4. /\ TypeInv /\ TypeInv' /\ ListInv(L) /\ RefInv(L, R) /\ FlagInv(L)
  BY <1>2 DEF Inv
<1>5. /\ succ' = IF succ[d] = Ref(m, UNMARKED)
                 THEN [succ EXCEPT ![d] = Ref(m, MARKED)] ELSE succ
      /\ pc' = [pc EXCEPT ![t] = "h_result"]
      /\ UNCHANGED <<key, val, reg, stack>>
  BY DEF TryMarkCas, Top1, Goto
<1>6. CASE succ[d] # Ref(m, UNMARKED)
  <2>1. UNCHANGED <<succ, key, val, reg>> /\ stack' = [stack EXCEPT ![t] = s]
    BY <1>4, <1>5, <1>6 DEF TypeInv
  <2> PICK l \in Helping : l = "h_result"
    BY <1>1
  <2>2. pc' = [pc EXCEPT ![t] = l]
    BY <1>5
  <2> QED BY <1>1, <1>2, <1>3, <2>1, <2>2, HelpQuiet
<1>7. CASE succ[d] = Ref(m, UNMARKED)
  <2>1. succ[d].mark = UNMARKED
    BY <1>7 DEF Ref
  <2>2. d \in L /\ key[d] \in Key /\ Leads(p, d, FLAGGED)
    BY <1>3, <1>4, <2>1 DEF RefInv, FrameOk, MARKED, UNMARKED
  <2>3. p \in L
    BY <1>3, <1>4, <2>2 DEF RefInv, Leads, MARKED, FLAGGED
  <2>4. PICK u \in Thread : Flags(stack[u], p, d)
    BY <1>4, <2>2, <2>3 DEF FlagInv, Leads
  <2>5. Deletes(u, d) /\ pc[u] # "idle"
    BY <2>4, OwnerFacts
  <2>6. /\ succ'[d] = Ref(m, MARKED)
        /\ \A n \in Node : n # d => succ'[n] = succ[n]
    BY <1>3, <1>4, <1>5, <1>7 DEF TypeInv
  <2>7. Marks(L, t, d)
    BY <1>1, <1>5, <2>1, <2>2, <2>6 DEF Marks, Ref
  <2> QED BY <1>2, <2>5, <2>7, MarkRefines
<1> QED BY <1>6, <1>7

-----------------------------------------------------------------------------
\* Every step is one of Dictionary, or none.
LEMMA SearchFromRefines ==
  ASSUME NEW L, NEW R, NEW sq, Inv(L, R, sq), ValInv(L), NEW t \in Thread,
         SearchFrom(t)
  PROVE  Refines
<1>1. CASE SearchCas(t)
  BY <1>1, SearchCasRefines
<1>2. CASE ~ SearchCas(t)
  <2>1. \/ SearchMark(t) \/ SearchCurrMark(t) \/ SearchCurrNext(t)
        \/ SearchBody(t) \/ SearchUnlink(t) \/ SearchReload(t)
        \/ SearchAdvance(t)
    BY <1>2 DEF SearchFrom
  <2>2. Inv(L, R, sq)'
    BY <2>1, SearchMarkInv, SearchCurrMarkInv, SearchCurrNextInv, SearchBodyInv,
       SearchUnlinkInv, SearchReloadInv, SearchAdvanceInv
  <2> QED BY <2>1, <2>2, SearchLocalRefines
<1> QED BY <1>1, <1>2

LEMMA HelpFlaggedRefines ==
  ASSUME NEW L, NEW R, NEW sq, Inv(L, R, sq), ValInv(L), NEW t \in Thread,
         HelpFlagged(t)
  PROVE  Refines
BY HelpLocalRefines, TryMarkCasRefines, HelpCasRefines DEF HelpFlagged

LEMMA InsertRefines ==
  ASSUME NEW L, NEW R, NEW sq, Inv(L, R, sq), ValInv(L),
         NEW t \in Thread, Insert(t), ~ Misled(t)
  PROVE  Refines
BY InsertRefused, AllocRefines, InsertLoadRefines, InsertCasRefines,
   ResultRefines, GoBackRefines, AgainRefines, InsertAgainRefines DEF Insert

LEMMA DeleteRefines ==
  ASSUME NEW L, NEW R, NEW sq, Inv(L, R, sq), ValInv(L),
         NEW t \in Thread, Delete(t), ~ Early(t), ~ Misled(t)
  PROVE  Refines
BY DeleteFoundRefines, ResultRefines, FlagCasRefines, GoBackRefines,
   AgainRefines, DeleteCopyRefines, DeleteFreeRefines DEF Delete

LEMMA StepRefines ==
  ASSUME Abstract, NEW t \in Thread, Step(t), ~ Early(t), ~ Misled(t)
  PROVE  Refines
<1> PICK L, R, sq : Inv(L, R, sq) /\ ValInv(L)
  BY DEF Abstract
<1>1. ASSUME NEW o \in Ops[t],
             NEW v \in IF o[1] \in {"insert", "update"} THEN Value ELSE {None},
             Call(t, o[1], o[2], v)
      PROVE  Refines
  <2> PICK p, k : p = o[1] /\ k = o[2]
    OBVIOUS
  <2>1. o \in Op \X Key
    BY ListAssumption
  <2>2. /\ p \in Op /\ k \in Key /\ Call(t, p, k, v)
        /\ v \in IF p \in {"insert", "update"} THEN Value ELSE {None}
    BY <1>1, <2>1
  <2> QED BY <2>2, BeginRefines
<1>2. CASE SearchFrom(t)
  BY <1>2, SearchFromRefines
<1>3. CASE HelpFlagged(t)
  BY <1>3, HelpFlaggedRefines
<1>4. CASE Insert(t)
  BY <1>4, InsertRefines
<1>5. CASE Delete(t)
  BY <1>5, DeleteRefines
<1>6. CASE Find(t)
  BY <1>6, FindRefines
<1> QED BY <1>1, <1>2, <1>3, <1>4, <1>5, <1>6 DEF Step

LEMMA SameRefines ==
  ASSUME Abstract, UNCHANGED <<nodes, pc, reg, stack, calls>>
  PROVE  Refines
<1> PICK L, R, sq : Inv(L, R, sq) /\ ValInv(L)
  BY DEF Abstract
<1>1. Inv(L, R, sq)'
  BY SameInv
<1>2. UNCHANGED <<succ, key, val, pc, reg, stack>>
  BY DEF nodes
<1>3. ValInv(L)'
  BY <1>2 DEF ValInv, ValOk
<1>4. items' = items
  <2>1. Keeps(L, L)
    BY <1>2 DEF Keeps, Live
  <2> QED BY <1>1, <2>1, ItemsKept DEF Inv
<1>5. call' = call
  <2>1. \A t \in Thread : CallAt(pc[t], stack[t], reg[t])'
                            = CallAt(pc[t], stack[t], reg[t])
    BY <1>2 DEF CallAt
  <2> QED BY <2>1, CallNow, CallNext
<1> QED BY <1>1, <1>3, <1>4, <1>5 DEF Refines, Abstract

LEMMA InitAbstract ==
  ASSUME Init
  PROVE  Abstract /\ Dict!Init
<1> PICK L : L = 0 .. NF + 1
  OBVIOUS
<1> PICK sq : Inv(L, L, sq)
  BY InitInv
<1>1. TypeInv /\ ListInv(L)
  BY DEF Inv
<1>2. \A t \in Thread : pc[t] = "idle" /\ reg[t] = Idle /\ stack[t] = <<>>
  BY DEF Init
<1>3. \A n \in L \ {HeadN, TailN} : val[n] \in Value
  <2> SUFFICES ASSUME NEW n \in L \ {HeadN, TailN} PROVE val[n] \in Value
    OBVIOUS
  <2>1. n \in 2 .. NF + 1 /\ n \in Node
    BY <1>1, FilledFacts DEF ListInv, HeadN, TailN
  <2>2. val[n] = Filled[n - 1][2]
    BY <2>1 DEF Init
  <2> QED BY <2>1, <2>2, FilledFacts
<1>4. ValInv(L)
  <2>1. Idle.op = "search"
    BY DEF Idle
  <2> QED BY <1>2, <1>3, <2>1 DEF ValInv, ValOk
<1>5. items \in [Key -> Value \cup {None}]
  <2>1. /\ items = [k \in Key |-> items[k]]
        /\ \A n \in Live(L) : key[n] \in Key => items[key[n]] = val[n]
        /\ \A k \in Key : (\A n \in Live(L) : key[n] # k) => items[k] = None
    BY <1>1, ItemsNow DEF ItemsOk
  <2>2. \A n \in Live(L) : val[n] \in Value
    BY <1>3 DEF Live
  <2>3. \A k \in Key : items[k] \in Value \cup {None}
    BY <2>1, <2>2
  <2> QED BY <2>1, <2>3
<1>6. call = [t \in Thread |-> Dict!Idle("none")]
  <2>1. ASSUME NEW t \in Thread
        PROVE  CallAt(pc[t], stack[t], reg[t]) = Dict!Idle("none")
    <3> PICK r : r = reg[t]
      OBVIOUS
    <3>1. r.out = "none" /\ pc[t] = "idle"
      BY <1>2 DEF Idle
    <3>2. CallAt(pc[t], stack[t], r)
            = [op |-> "none", out |-> CASE r.out = "none" -> "none"
                                        [] r.out = "ok" -> "ok"
                                        [] OTHER -> "refused"]
      BY <3>1, Zenon DEF CallAt, CallOf
    <3> QED BY <3>1, <3>2 DEF Dict!Idle
  <2> QED BY <2>1, CallNow
<1> QED BY <1>4, <1>5, <1>6 DEF Abstract, Dict!Init

\* The list is a map from keys to values, until a hazard comes about: an
\* insertion binds its key with the compare-and-swap of list_insert
\* (collections.c:1000), a deletion unbinds its key when any thread marks its node
\* in try_mark, and nothing else that insertions, deletions, searches and the
\* helpers do changes a binding.
THEOREM DictionaryImplemented == Spec => ImplementsDictionary
<1>1. Init => Abstract /\ Dict!Init
  BY InitAbstract
<1>2. (spoilt # {} \/ Abstract) /\ [Next]_vars
        => /\ (spoilt # {} \/ Abstract)'
           /\ [Dict!Next \/ spoilt' # {}]_<<items, call>>
  <2> SUFFICES ASSUME Abstract, [Next]_vars, spoilt' = {} PROVE Refines
    BY SpoiltStays DEF Refines
  <2>1. CASE UNCHANGED <<nodes, pc, reg, stack, calls, seen>>
    BY <2>1, SameRefines
  <2>2. ASSUME NEW t \in Thread, Step(t), ~ Early(t), ~ Misled(t)
        PROVE  Refines
    BY <2>2, StepRefines
  <2> QED BY <2>1, <2>2, NextCalm
<1> QED BY <1>1, <1>2, PTL DEF Spec, ImplementsDictionary

=============================================================================
