---------------------------- MODULE MemPoolProofs ----------------------------
(***************************************************************************)
(* Proofs about MemPool, for any number of threads and fragments and for   *)
(* whatever users store: until calls of mempool_free overlap, no fragment  *)
(* is lost or doubled, memory that a user owns is never written to and the *)
(* counter is exact; allocations fail only for a reason, overlap or not.   *)
(*                                                                         *)
(* The invariant gives each fragment that is not in somebody's hands a     *)
(* first fragment from which it is reached and a distance to it: the dummy *)
(* for the free list, the fragment itself for one that is about to be      *)
(* linked.                                                                 *)
(*                                                                         *)
(* The last section is about PoolLayout: the fragments fit into the bytes  *)
(* that are allocated for them.                                            *)
(***************************************************************************)
EXTENDS MemPool, PoolLayout, FiniteSetTheorems, WellFoundedInduction, TLAPS

\* The calls that threads may make.
AllCalls == {p \in Thread \X Nat : p[2] \in 1 .. MaxCalls[p[1]]}

\* No counter wraps: the count of the head, which grows with each allocation,
\* and that of the tail, which is at most Capacity ahead, fit into a count.
NoWrap == /\ IsFiniteSet(Thread) /\ IsFiniteSet(AllCalls)
          /\ Cardinality(AllCalls) + InUse + Capacity < CountMod

\* The calls that are about to link a fragment.
Putters == {t \in Thread : pc[t] \in Unlinked}

\* Calls that have loaded tail, or head.
PutRead  == {"put_next_count", "put_next_frag", "put_check", "put_link",
             "put_swing", "put_end"}
TailRead == PutRead \cup {"pick_next", "pick_check", "pick_swing"}
HeadRead == {"pick_tail", "pick_next", "pick_check", "pick_swing", "pick_take"}
\* A call that has not taken a fragment yet.
Picking  == HeadRead \cup {"pick_head", "pick_fail"}
Holding == {"put_init", "pick_count"}

Reg == [head : Node, tail : Node, next : Node, frag : Frag \cup {Null},
        empty : BOOLEAN]

CallsType == calls \in [Thread -> Nat] /\ \A t \in Thread : calls[t] <= MaxCalls[t]

TypeInv ==
  /\ TypeOK /\ ~ overlap
  /\ \A t \in Thread :
       /\ pc[t] \in Holding \cup Unlinked \cup Linked => reg[t].frag \in Frag
       /\ pc[t] \in TailRead => reg[t].tail.frag \in Frag
       /\ pc[t] \in HeadRead => reg[t].head.frag \in Frag

\* The first fragment of a chain: the dummy, or what a call is about to link.
First(f) == f = head.frag \/ \E t \in Putters : reg[t].frag = f

\* A fragment in the hands of a call, which writes to it.
Holds(t, f) == pc[t] \in Holding /\ reg[t].frag = f

\* A fragment f that can be reached has a first fragment own[f] and pos[f]
\* fragments before it.
Chains(own, pos) ==
  /\ own \in [Frag -> Frag \cup {Null}] /\ pos \in [Frag -> Nat]
  /\ \A f \in Frag : own[f] # Null => First(own[f])
  /\ \A f \in Frag : First(f) => own[f] = f /\ pos[f] = 0
  /\ \A f \in Frag : own[f] # Null /\ pos[f] # 0 =>
       \E g \in Frag : own[g] = own[f] /\ mem[g].frag = f
  /\ \A f \in Frag : own[f] # Null =>
       \/ mem[f] = NoNode
       \/ /\ mem[f].count # 0 /\ mem[f].frag \in Frag
          /\ own[mem[f].frag] = own[f] /\ pos[mem[f].frag] = pos[f] + 1
  /\ \A f, g \in Frag :
       own[f] # Null /\ own[f] = own[g] /\ pos[f] = pos[g] => f = g

\* The others are with a user or a call, and what is about to be linked has no
\* successor.
Places(own) ==
  /\ \A f \in Frag : own[f] = Null => f \in user \/ \E t \in Thread : Holds(t, f)
  /\ \A f \in user : own[f] = Null /\ \A t \in Thread : ~ Holds(t, f)
  /\ \A t \in Thread, f \in Frag : Holds(t, f) => own[f] = Null
  /\ \A t, u \in Thread, f \in Frag : Holds(t, f) /\ Holds(u, f) => t = u
  /\ \A t \in Putters : reg[t].frag # head.frag /\ mem[reg[t].frag] = NoNode

\* Calls of mempool_free do not overlap.
OnePut == \A t, u \in Thread : pc[t] \in Putting /\ pc[u] \in Putting => t = u

\* The tail is in the list, and its count says where.
TailIn(own, pos) ==
  own[tail.frag] = head.frag /\ tail.count = head.count + pos[tail.frag]

\* What a call has read is still true if the count has not changed.
TailSeen(t) ==
  pc[t] \in TailRead =>
    /\ reg[t].tail.count <= tail.count
    /\ reg[t].tail.count = tail.count => reg[t].tail = tail
HeadSeen(t) ==
  pc[t] \in HeadRead =>
    /\ reg[t].head.count <= head.count
    /\ reg[t].head.count = head.count => reg[t].head = head

PutSeen(t) ==
  /\ pc[t] = "put_next_frag" /\ reg[t].tail = tail =>
       reg[t].next.count = 0 \/ mem[tail.frag].frag # Null
  /\ pc[t] = "put_check" /\ reg[t].tail = tail =>
       IF reg[t].next.frag = Null
       THEN reg[t].next.count = 0 /\ mem[tail.frag] = NoNode
       ELSE reg[t].next.frag = mem[tail.frag].frag
  /\ pc[t] = "put_link" =>
       reg[t].next = NoNode /\ reg[t].tail = tail /\ mem[tail.frag] = NoNode
  /\ pc[t] = "put_swing" =>
       /\ reg[t].next.frag \in Frag
       /\ reg[t].tail = tail => reg[t].next.frag = mem[tail.frag].frag
  /\ pc[t] = "put_end" /\ reg[t].tail = tail =>
       reg[t].frag = mem[tail.frag].frag

PickSeen(t) ==
  /\ pc[t] = "pick_next" /\ reg[t].head = head =>
       reg[t].tail.frag = head.frag \/ tail.frag # head.frag
  /\ pc[t] = "pick_check" /\ reg[t].head = head =>
       IF reg[t].tail.frag # head.frag
       THEN /\ tail.frag # head.frag /\ reg[t].next.frag \in Frag
            /\ reg[t].next.frag = mem[head.frag].frag
       ELSE \/ reg[t].next.frag = Null /\ reg[t].empty
            \/ reg[t].next.frag # Null /\ reg[t].next.frag = mem[head.frag].frag
  /\ pc[t] = "pick_swing" =>
       /\ reg[t].next.frag \in Frag
       /\ reg[t].tail = tail => reg[t].next.frag = mem[tail.frag].frag
  /\ pc[t] = "pick_take" /\ reg[t].head = head =>
       /\ tail.frag # head.frag /\ reg[t].next.frag \in Frag
       /\ reg[t].next.frag = mem[head.frag].frag
  /\ pc[t] = "pick_fail" => reg[t].empty

\* The calls that have begun, and those that have not taken a fragment yet.
Begun == {p \in AllCalls : p[2] <= calls[p[1]]}
Open  == {p \in Begun : pc[p[1]] \in Picking /\ p[2] = calls[p[1]]}

\* The head has moved on at most once for each allocation that succeeded.
TakenInv == head.count <= InUse + Cardinality(Begun \ Open)
\* Each fragment is counted, or with a user, or with a call of mempool_free.
FreeableInv ==
  \E q \in Int :
    freeable + Cardinality(user)
      + Cardinality({t \in Thread : pc[t] \in Putting})
        = Capacity + q * SizeMod

CountInv ==
  TakenInv /\ FreeableInv /\ \A t \in Thread : pc[t] # "idle" => calls[t] >= 1

Seen(t) == TailSeen(t) /\ HeadSeen(t) /\ PutSeen(t) /\ PickSeen(t)

Layout == \E own, pos : /\ Chains(own, pos) /\ Places(own)
                        /\ TailIn(own, pos)

IndInv == /\ TypeInv /\ CountInv /\ Layout /\ OnePut
          /\ \A t \in Thread : Seen(t)

-----------------------------------------------------------------------------
\* Different members of 0 .. n are at most n + 1.
LEMMA Pigeonhole ==
  ASSUME NEW n \in Nat, NEW k \in Nat, NEW s \in [1 .. k -> 0 .. n],
         \A i, j \in 1 .. k : s[i] = s[j] => i = j
  PROVE  k <= n + 1
<1>1. s \in Injection(1 .. k, 0 .. n)
  BY DEF Injection, IsInjective
<1>2. 1 \in Int /\ 0 \in Int /\ n \in Int /\ k \in Int
  OBVIOUS
<1>3. /\ IsFiniteSet(0 .. n)
      /\ Cardinality(0 .. n) = IF 0 > n THEN 0 ELSE n - 0 + 1
  BY <1>2, FS_Interval
<1>4. Cardinality(1 .. k) = IF 1 > k THEN 0 ELSE k - 1 + 1
  BY <1>2, FS_Interval
<1>5. Cardinality(1 .. k) <= Cardinality(0 .. n)
  BY <1>1, <1>3, FS_Injection
<1> QED BY <1>3, <1>4, <1>5

\* Every set of natural numbers that is not empty has a least member.
LEMMA NatMin ==
  ASSUME NEW T \in SUBSET Nat, T # {}
  PROVE  \E m \in T : \A n \in T : m <= n
<1> DEFINE Less == {ss \in Nat \X Nat : ss[1] < ss[2]}
<1>1. IsWellFoundedOn(Less, Nat)
  BY NatLessThanWellFounded, Zenon DEF OpToRel
<1>2. PICK x \in T : \A y \in T : ~ (<<y, x>> \in Less)
  <2> HIDE DEF Less
  <2> QED BY <1>1, WFMin
<1>3. ASSUME NEW y \in T PROVE x <= y
  <2>1. x \in Nat /\ y \in Nat /\ <<y, x>> \in Nat \X Nat
    OBVIOUS
  <2>2. ~ (<<y, x>>[1] < <<y, x>>[2])
    BY <1>2, <2>1
  <2> QED BY <2>1, <2>2
<1> QED BY <1>3

LEMMA FragIsNat == Frag \subseteq Nat /\ Null \notin Frag
BY MemPoolAssumption DEF Frag

LEMMA ModSmall == ASSUME NEW m \in Nat, NEW n \in Nat, n < m PROVE n % m = n
OBVIOUS

\* The links that are stored, as long as the count does not wrap.
LEMMA NodeType ==
  ASSUME NEW c \in Nat, NEW f \in Frag \cup {Null, Junk}
  PROVE  /\ NodeOf(c, f) \in Node /\ NodeOf(c, f).frag = f
         /\ c < CountMod => NodeOf(c, f).count = c
<1>1. CountMod \in Nat /\ CountMod > 0
  BY MemPoolAssumption
<1>2. c % CountMod \in 0 .. CountMod - 1
  BY <1>1
<1> QED BY <1>1, <1>2, ModSmall DEF NodeOf, Node

LEMMA NoNodeType ==
  NoNode \in Node /\ NoNode.frag = Null /\ NoNode.count = 0
<1>1. 0 \in Nat /\ 0 < CountMod /\ Null \in Frag \cup {Null, Junk}
  BY MemPoolAssumption
<1> QED BY <1>1, NodeType DEF NoNode

LEMMA NodeIs == ASSUME NEW a \in Node
  PROVE  /\ a.count \in Nat /\ a.count < CountMod
         /\ a.frag \in Frag \cup {Null, Junk}
BY MemPoolAssumption DEF Node

LEMMA NodeEq ==
  ASSUME NEW a \in Node, NEW b \in Node, a.count = b.count, a.frag = b.frag
  PROVE  a = b
BY DEF Node

-----------------------------------------------------------------------------
\* Before a fragment of a chain there is one at each smaller distance.
LEMMA Fill ==
  ASSUME NEW own, NEW pos, Chains(own, pos), TypeInv,
         NEW f \in Frag, own[f] # Null, NEW j \in 0 .. pos[f]
  PROVE  \E g \in Frag : own[g] = own[f] /\ pos[g] = j
<1> DEFINE T == {k \in Nat :
                   k >= j /\ \E g \in Frag : own[g] = own[f] /\ pos[g] = k}
<1>1. pos \in [Frag -> Nat] /\ pos[f] \in Nat /\ j \in Nat
  BY DEF Chains
<1>2. pos[f] \in T
  BY <1>1
<1>3. PICK k \in T : \A n \in T : k <= n
  <2>1. T \in SUBSET Nat /\ T # {}
    BY <1>2
  <2> HIDE DEF T
  <2> QED BY <2>1, NatMin
<1>4. PICK g \in Frag : own[g] = own[f] /\ pos[g] = k
  OBVIOUS
<1>5. CASE k = j
  BY <1>4, <1>5
<1>6. CASE k # j
  <2>1. k \in Nat /\ k > j
    BY <1>1, <1>6
  <2>2. PICK h \in Frag : own[h] = own[g] /\ mem[h].frag = g
    BY <1>1, <1>4, <2>1 DEF Chains
  <2>3. mem[h] # NoNode
    BY <2>2, NoNodeType, FragIsNat
  <2>4. pos[g] = pos[h] + 1
    BY <1>4, <2>2, <2>3 DEF Chains
  <2>5. k - 1 \in T
    <3>1. k - 1 \in Nat /\ k - 1 >= j
      BY <1>1, <2>1
    <3>2. own[h] = own[f] /\ pos[h] = k - 1
      BY <1>1, <1>4, <2>1, <2>2, <2>4
    <3> QED BY <3>1, <3>2
  <2>6. ~ (k <= k - 1)
    BY <2>1
  <2> HIDE DEF T
  <2> QED BY <1>3, <2>5, <2>6
<1> QED BY <1>5, <1>6

\* A chain is no longer than there are fragments.
LEMMA PosBound ==
  ASSUME NEW own, NEW pos, Chains(own, pos), TypeInv,
         NEW f \in Frag, own[f] # Null
  PROVE  pos[f] \in Nat /\ pos[f] <= Capacity
<1>1. pos[f] \in Nat /\ Capacity \in Nat
  BY MemPoolAssumption DEF Chains
<1> DEFINE k == pos[f] + 1
           e(i) == CHOOSE g \in Frag : own[g] = own[f] /\ pos[g] = i - 1
           s == [i \in 1 .. k |-> e(i)]
<1>2. ASSUME NEW i \in 1 .. k
      PROVE  s[i] \in Frag /\ own[s[i]] = own[f] /\ pos[s[i]] = i - 1
  <2>1. i - 1 \in 0 .. pos[f]
    BY <1>1
  <2>2. \E g \in Frag : own[g] = own[f] /\ pos[g] = i - 1
    BY <2>1, Fill
  <2> QED BY <2>2
<1>3. k \in Nat /\ s \in [1 .. k -> 0 .. Capacity]
  <2>1. k \in Nat
    BY <1>1
  <2>2. \A i \in 1 .. k : e(i) \in 0 .. Capacity
    BY <1>2 DEF Frag
  <2> HIDE DEF k, e
  <2> QED BY <2>1, <2>2
<1>4. \A i, j \in 1 .. k : s[i] = s[j] => i = j
  <2> SUFFICES ASSUME NEW i \in 1 .. k, NEW j \in 1 .. k, s[i] = s[j]
               PROVE  i = j
    OBVIOUS
  <2>1. i - 1 = j - 1
    BY <1>2
  <2> QED BY <2>1, <1>1
<1>5. k <= Capacity + 1
  <2> HIDE DEF k, s
  <2> QED BY <1>1, <1>3, <1>4, Pigeonhole
<1> QED BY <1>1, <1>5

\* A link that is stored leads on in its chain, and there is one unless the
\* fragment is the last.
LEMMA Follow ==
  ASSUME NEW own, NEW pos, Chains(own, pos), TypeInv,
         NEW f \in Frag, own[f] # Null
  PROVE  /\ mem[f].frag = Null => mem[f] = NoNode
         /\ mem[f].frag # Null =>
              /\ mem[f] # NoNode /\ mem[f].count # 0 /\ mem[f].frag \in Frag
              /\ own[mem[f].frag] = own[f] /\ pos[mem[f].frag] = pos[f] + 1
         /\ \A g \in Frag : own[g] = own[f] /\ pos[g] > pos[f] =>
              mem[f].frag # Null
<1>1. \/ mem[f] = NoNode
      \/ /\ mem[f].count # 0 /\ mem[f].frag \in Frag
         /\ own[mem[f].frag] = own[f] /\ pos[mem[f].frag] = pos[f] + 1
  BY DEF Chains
<1>2. ASSUME NEW g \in Frag, own[g] = own[f], pos[g] > pos[f]
      PROVE  mem[f].frag # Null
  <2>1. pos[f] \in Nat /\ pos[g] \in Nat
    BY DEF Chains
  <2>2. pos[f] + 1 \in 0 .. pos[g]
    BY <1>2, <2>1
  <2>3. PICK h \in Frag : own[h] = own[g] /\ pos[h] = pos[f] + 1
    BY <1>2, <2>2, Fill
  <2>4. pos[h] # 0
    BY <2>1, <2>3
  <2>5. PICK e \in Frag : own[e] = own[h] /\ mem[e].frag = h
    BY <1>2, <2>3, <2>4 DEF Chains
  <2>6. mem[e] # NoNode
    BY <2>5, NoNodeType, FragIsNat
  <2>7. pos[h] = pos[e] + 1 /\ pos[e] \in Nat
    BY <1>2, <2>3, <2>5, <2>6 DEF Chains
  <2>8. pos[e] = pos[f]
    BY <2>1, <2>3, <2>7
  <2>9. e = f
    BY <1>2, <2>3, <2>5, <2>8 DEF Chains
  <2> QED BY <2>5, <2>9, FragIsNat
<1> QED BY <1>1, <1>2, NoNodeType, FragIsNat

-----------------------------------------------------------------------------
\* The calls that can be made are finitely many, and the count of the head is
\* far enough from its limit.
LEMMA CallsFinite ==
  ASSUME NoWrap, NEW S \in SUBSET AllCalls
  PROVE  /\ IsFiniteSet(S) /\ Cardinality(S) \in Nat
         /\ Cardinality(S) + InUse + Capacity < CountMod
<1>1. /\ IsFiniteSet(AllCalls)
      /\ Cardinality(AllCalls) + InUse + Capacity < CountMod
  BY DEF NoWrap
<1>2. InUse \in Nat /\ Capacity \in Nat /\ CountMod \in Nat
  BY MemPoolAssumption
<1>3. IsFiniteSet(S) /\ Cardinality(S) <= Cardinality(AllCalls)
  BY <1>1, FS_Subset
<1>4. Cardinality(S) \in Nat /\ Cardinality(AllCalls) \in Nat
  BY <1>1, <1>3, FS_CardinalityType
<1> QED BY <1>1, <1>2, <1>3, <1>4

LEMMA HeadBound ==
  ASSUME NoWrap, head \in Node, TakenInv
  PROVE  /\ head.count \in Nat /\ head.count + Capacity < CountMod
         /\ head.count + 1 < CountMod
<1>1. head.count \in Nat
  BY NodeIs
<1>2. Begun \ Open \in SUBSET AllCalls
  BY DEF Begun
<1>3. /\ Cardinality(Begun \ Open) \in Nat
      /\ Cardinality(Begun \ Open) + InUse + Capacity < CountMod
  BY <1>2, CallsFinite
<1>4. head.count <= InUse + Cardinality(Begun \ Open)
  BY DEF TakenInv
<1> QED BY <1>1, <1>3, <1>4, MemPoolAssumption

\* What a call that has seen the head or the tail may rely on survives a step
\* of another one: heads and tails only move forward, and the links of these
\* two fragments are only stored where there was none.
LEMMA SeenKept ==
  ASSUME TypeInv, NEW u \in Thread, Seen(u),
         pc'[u] = pc[u], reg'[u] = reg[u],
         head' \in Node, tail' \in Node,
         head' = head \/ head'.count > head.count,
         \/ tail' = tail
         \/ /\ tail'.count > tail.count /\ tail'.frag # head.frag
            /\ mem[tail.frag] # NoNode,
         \/ mem[tail.frag].frag = Null
         \/ mem'[tail.frag].frag = mem[tail.frag].frag,
         \/ mem[head.frag].frag = Null
         \/ mem'[head.frag].frag = mem[head.frag].frag,
         pc[u] \in Putting => mem'[tail.frag] = mem[tail.frag]
  PROVE  Seen(u)'
<1>1. /\ head \in Node /\ tail \in Node /\ reg[u] \in Reg
      /\ pc[u] \in Holding \cup Unlinked \cup Linked => reg[u].frag \in Frag
  BY DEF TypeInv, TypeOK, Reg
<1>2. /\ head.count \in Nat /\ tail.count \in Nat
      /\ head'.count \in Nat /\ tail'.count \in Nat
      /\ reg[u].tail.count \in Nat /\ reg[u].head.count \in Nat
  BY <1>1, NodeIs DEF Reg
<1>3. Null \notin Frag
  BY FragIsNat
<1>4. TailSeen(u)'
  <2>1. TailSeen(u)
    BY DEF Seen
  <2> QED BY <1>2, <2>1 DEF TailSeen
<1>5. HeadSeen(u)'
  <2>1. HeadSeen(u)
    BY DEF Seen
  <2> QED BY <1>2, <2>1 DEF HeadSeen
<1>6. pc[u] \in TailRead /\ reg[u].tail = tail' => tail' = tail
  <2>1. TailSeen(u)
    BY DEF Seen
  <2> QED BY <1>2, <2>1 DEF TailSeen
<1>7. pc[u] \in HeadRead /\ reg[u].head = head' => head' = head
  <2>1. HeadSeen(u)
    BY DEF Seen
  <2> QED BY <1>2, <2>1 DEF HeadSeen
<1>8. PutSeen(u)'
  <2>1. PutSeen(u)
    BY DEF Seen
  <2>2. pc[u] = "put_end" => reg[u].frag \in Frag
    BY <1>1 DEF Linked
  <2>3. pc[u] \in PutRead => mem'[tail.frag] = mem[tail.frag]
    BY DEF PutRead, Putting, Unlinked, Linked
  <2> QED BY <1>3, <1>6, <2>1, <2>2, <2>3 DEF PutSeen, TailRead, PutRead
<1>9. PickSeen(u)'
  <2>1. PickSeen(u)
    BY DEF Seen
  <2> QED BY <1>3, <1>6, <1>7, <2>1 DEF PickSeen, TailRead, HeadRead
<1> QED BY <1>4, <1>5, <1>8, <1>9 DEF Seen

\* A step that leaves the list alone but for the tail, which it may move, and
\* after which each call that holds or is about to link a fragment did so
\* before.
SamePlaces ==
  /\ UNCHANGED <<mem, head, user>>
  /\ \A u \in Thread : /\ pc'[u] \in Unlinked <=> pc[u] \in Unlinked
                       /\ pc'[u] \in Holding <=> pc[u] \in Holding
                       /\ pc[u] \in Unlinked \cup Holding =>
                            reg'[u].frag = reg[u].frag

LEMMA ChainsKept ==
  ASSUME NEW own, NEW pos, SamePlaces, Chains(own, pos), Places(own)
  PROVE  Chains(own, pos)' /\ Places(own)'
<1>1. Putters' = Putters /\ \A u \in Putters : reg'[u].frag = reg[u].frag
  BY DEF SamePlaces, Putters
<1>2. \A f : First(f)' <=> First(f)
  BY <1>1 DEF First, SamePlaces
<1>3. \A u \in Thread : \A f : Holds(u, f)' <=> Holds(u, f)
  BY DEF Holds, SamePlaces
<1>4. mem' = mem /\ head' = head /\ user' = user
  BY DEF SamePlaces
<1>5. Chains(own, pos)'
  BY <1>2, <1>4 DEF Chains
<1>6. Places(own)'
  BY <1>1, <1>3, <1>4 DEF Places
<1> QED BY <1>5, <1>6

\* No call of mempool_free begins.
LEMMA OnePutKept ==
  ASSUME OnePut, \A u \in Thread : pc'[u] \in Putting => pc[u] \in Putting
  PROVE  OnePut'
BY DEF OnePut

\* Two sets of threads of which only one member differs.
LEMMA CountOne ==
  ASSUME IsFiniteSet(Thread), NEW A \in SUBSET Thread, NEW t \in Thread
  PROVE  /\ Cardinality(A) \in Nat
         /\ t \notin A => Cardinality(A \cup {t}) = Cardinality(A) + 1
         /\ t \in A => Cardinality(A \ {t}) = Cardinality(A) - 1
<1>1. IsFiniteSet(A)
  BY FS_Subset
<1>2. Cardinality(A) \in Nat
  BY <1>1, FS_CardinalityType
<1>3. ASSUME t \notin A PROVE Cardinality(A \cup {t}) = Cardinality(A) + 1
  BY <1>1, <1>3, FS_AddElement
<1>4. ASSUME t \in A PROVE Cardinality(A \ {t}) = Cardinality(A) - 1
  BY <1>1, <1>4, FS_RemoveElement
<1> QED BY <1>2, <1>3, <1>4

\* A step that begins or ends no call and leaves the counter alone.
SameCounts ==
  /\ UNCHANGED <<head, calls, freeable, user>>
  /\ \A u \in Thread : /\ pc'[u] \in Picking <=> pc[u] \in Picking
                       /\ pc'[u] \in Putting <=> pc[u] \in Putting
                       /\ pc'[u] # "idle" => pc[u] # "idle"

LEMMA CountKept == ASSUME SameCounts, CountInv PROVE CountInv'
<1>1. Begun' = Begun
  BY DEF Begun, SameCounts
<1>2. Open' = Open
  <2>1. \A p \in Begun : p[1] \in Thread
    BY DEF Begun, AllCalls
  <2> QED BY <1>1, <2>1 DEF Open, SameCounts
<1>3. {u \in Thread : pc'[u] \in Putting}
        = {u \in Thread : pc[u] \in Putting}
  BY DEF SameCounts
<1>4. \A u \in Thread : pc'[u] # "idle" => calls'[u] >= 1
  BY DEF CountInv, SameCounts
<1>5. TakenInv'
  BY <1>1, <1>2 DEF CountInv, TakenInv, SameCounts
<1>6. FreeableInv'
  BY <1>3, Zenon DEF CountInv, FreeableInv, SameCounts
<1> QED BY <1>4, <1>5, <1>6, Zenon DEF CountInv

-----------------------------------------------------------------------------
\* What is left to show for a step of thread t: what t itself knows, and how
\* the fragments are laid out afterwards.
LEMMA Assemble ==
  ASSUME TypeInv, OnePut, \A u \in Thread : Seen(u), NEW t \in Thread,
         \A u \in Thread \ {t} : pc'[u] = pc[u] /\ reg'[u] = reg[u],
         pc[t] \in Putting \/ mem' = mem,
         head' = head \/ head'.count > head.count,
         \/ tail' = tail
         \/ /\ tail'.count > tail.count /\ tail'.frag # head.frag
            /\ mem[tail.frag] # NoNode,
         \/ mem[tail.frag].frag = Null
         \/ mem'[tail.frag].frag = mem[tail.frag].frag,
         \/ mem[head.frag].frag = Null
         \/ mem'[head.frag].frag = mem[head.frag].frag,
         TypeInv', CountInv', OnePut', Seen(t)',
         NEW own, NEW pos, Chains(own, pos)', Places(own)',
         TailIn(own, pos)'
  PROVE  IndInv'
<1>1. head' \in Node /\ tail' \in Node
  BY DEF TypeInv, TypeOK
<1>2. ASSUME NEW u \in Thread PROVE Seen(u)'
  <2>1. CASE u = t
    BY <2>1
  <2>2. CASE u # t
    <3>1. pc[u] \in Putting => mem'[tail.frag] = mem[tail.frag]
      BY <2>2 DEF OnePut
    <3> QED BY <1>1, <2>2, <3>1, SeenKept
  <2> QED BY <2>1, <2>2
<1>3. Layout'
  BY Zenon DEF Layout
<1> QED BY <1>2, <1>3, Zenon DEF IndInv

\* Thread t goes on at l with the local variables r.
Local(t, l, r) ==
  pc' = [pc EXCEPT ![t] = l] /\ reg' = [reg EXCEPT ![t] = r]

LEMMA LocalMeans ==
  ASSUME TypeInv, NEW t \in Thread, NEW l, NEW r, Local(t, l, r)
  PROVE  /\ pc'[t] = l /\ reg'[t] = r
         /\ \A u \in Thread \ {t} : pc'[u] = pc[u] /\ reg'[u] = reg[u]
         /\ \A u \in Thread : pc'[u] = IF u = t THEN l ELSE pc[u]
         /\ \A u \in Thread : reg'[u] = IF u = t THEN r ELSE reg[u]
<1>1. DOMAIN pc = Thread /\ DOMAIN reg = Thread
  BY DEF TypeInv, TypeOK
<1> QED BY <1>1, Zenon DEF Local

\* The pointers that a call at l follows or stores are fragments.
Pointers(l, r) ==
  /\ l \in Holding \cup Unlinked \cup Linked => r.frag \in Frag
  /\ l \in TailRead => r.tail.frag \in Frag
  /\ l \in HeadRead => r.head.frag \in Frag

LEMMA TypeKept ==
  ASSUME TypeInv, NEW t \in Thread, NEW l \in Label, NEW r \in Reg,
         Local(t, l, r), Pointers(l, r),
         mem' \in [Frag -> Node],
         head' \in Node, head'.frag \in Frag,
         tail' \in Node, tail'.frag \in Frag,
         freeable' \in 0 .. SizeMod - 1, user' \subseteq Frag,
         CallsType', overlap' \in BOOLEAN, ~ overlap'
  PROVE  TypeInv'
<1>1. /\ \A u \in Thread : pc'[u] = IF u = t THEN l ELSE pc[u]
      /\ \A u \in Thread : reg'[u] = IF u = t THEN r ELSE reg[u]
  BY LocalMeans
<1>2. pc \in [Thread -> Label] /\ reg \in [Thread -> Reg]
  BY DEF TypeInv, TypeOK, Reg
<1>3. pc' \in [Thread -> Label] /\ reg' \in [Thread -> Reg]
  BY <1>2 DEF Local
<1>4. \A u \in Thread : Pointers(pc[u], reg[u])
  BY Zenon DEF TypeInv, Pointers
<1>5. \A u \in Thread : Pointers(pc'[u], reg'[u])
  BY <1>1, <1>4, Zenon
<1>6. TypeOK'
  BY <1>3, Zenon DEF TypeOK, Reg, CallsType
<1> QED BY <1>5, <1>6, Zenon DEF TypeInv, Pointers

\* A step that only changes local variables.
LEMMA LocalStep ==
  ASSUME IndInv, NEW t \in Thread, NEW l \in Label, NEW r \in Reg,
         Local(t, l, r), Pointers(l, r),
         UNCHANGED <<mem, head, tail, freeable, user, calls, overlap>>,
         l \in Unlinked <=> pc[t] \in Unlinked,
         l \in Holding <=> pc[t] \in Holding,
         l \in Picking <=> pc[t] \in Picking,
         l \in Putting <=> pc[t] \in Putting,
         pc[t] # "idle",
         pc[t] \in Unlinked \cup Holding => r.frag = reg[t].frag,
         Seen(t)'
  PROVE  IndInv'
<1>1. TypeInv /\ CountInv /\ Layout /\ OnePut /\ \A u \in Thread : Seen(u)
  BY Zenon DEF IndInv
<1>2. PICK own, pos : /\ Chains(own, pos) /\ Places(own)
                      /\ TailIn(own, pos)
  BY <1>1, Zenon DEF Layout
<1>3. /\ \A u \in Thread \ {t} : pc'[u] = pc[u] /\ reg'[u] = reg[u]
      /\ \A u \in Thread : pc'[u] = IF u = t THEN l ELSE pc[u]
      /\ \A u \in Thread : reg'[u] = IF u = t THEN r ELSE reg[u]
      /\ pc'[t] = l /\ reg'[t] = r
  BY <1>1, LocalMeans
<1>4. TypeInv'
  <2>1. /\ mem' = mem /\ head' = head /\ tail' = tail /\ freeable' = freeable
        /\ user' = user /\ calls' = calls /\ overlap' = overlap
    OBVIOUS
  <2>2. /\ mem \in [Frag -> Node]
        /\ head \in Node /\ head.frag \in Frag
        /\ tail \in Node /\ tail.frag \in Frag
        /\ freeable \in 0 .. SizeMod - 1 /\ user \subseteq Frag
        /\ CallsType /\ overlap \in BOOLEAN /\ ~ overlap
    BY <1>1 DEF TypeInv, TypeOK, CallsType
  <2>3. CallsType'
    BY <2>1, <2>2 DEF CallsType
  <2> QED BY <1>1, <2>1, <2>2, <2>3, TypeKept
<1>5. SamePlaces
  BY <1>3 DEF SamePlaces
<1>6. CountInv'
  <2>1. SameCounts
    BY <1>3 DEF SameCounts
  <2> QED BY <1>1, <2>1, CountKept
<1>7. Chains(own, pos)' /\ Places(own)'
  BY <1>2, <1>5, ChainsKept
<1>8. TailIn(own, pos)'
  BY <1>2 DEF TailIn
<1>9. OnePut'
  BY <1>1, <1>3, OnePutKept
<1>10. head' = head /\ tail' = tail /\ mem' = mem
  OBVIOUS
<1> QED
  BY ONLY <1>1, <1>3, <1>4, <1>6, <1>7, <1>8, <1>9, <1>10, Seen(t)',
          t \in Thread, Assemble

\* What IndInv says of one thread.
LEMMA Facts ==
  ASSUME IndInv, NEW t \in Thread
  PROVE  /\ TypeInv /\ Seen(t) /\ CountInv
         /\ pc[t] \in Label /\ reg[t] \in Reg /\ Pointers(pc[t], reg[t])
         /\ reg[t].head \in Node /\ reg[t].tail \in Node
         /\ reg[t].next \in Node /\ reg[t].empty \in BOOLEAN
         /\ reg[t].frag \in Frag \cup {Null}
         /\ head \in Node /\ head.frag \in Frag
         /\ tail \in Node /\ tail.frag \in Frag
         /\ mem \in [Frag -> Node]
         /\ DOMAIN pc = Thread /\ DOMAIN reg = Thread
<1>1. TypeInv /\ Seen(t) /\ CountInv
  BY Zenon DEF IndInv
<1>2. /\ pc \in [Thread -> Label] /\ reg \in [Thread -> Reg]
      /\ head \in Node /\ head.frag \in Frag
      /\ tail \in Node /\ tail.frag \in Frag
      /\ mem \in [Frag -> Node]
  BY <1>1, Zenon DEF TypeInv, TypeOK, Reg
<1>3. pc[t] \in Label /\ reg[t] \in Reg
  BY <1>2, Zenon
<1>4. Pointers(pc[t], reg[t])
  BY <1>1, Zenon DEF TypeInv, Pointers
<1>5. /\ reg[t].head \in Node /\ reg[t].tail \in Node
      /\ reg[t].next \in Node /\ reg[t].empty \in BOOLEAN
      /\ reg[t].frag \in Frag \cup {Null}
  BY <1>3 DEF Reg
<1>6. DOMAIN pc = Thread /\ DOMAIN reg = Thread
  BY <1>2, Zenon
<1> QED BY <1>1, <1>2, <1>3, <1>4, <1>5, <1>6, Zenon

\* The links of the fragments at the head and at the tail.
LEMMA EndLinks ==
  ASSUME IndInv
  PROVE  /\ \A f \in {head.frag, tail.frag} :
              IF mem[f].frag = Null THEN mem[f] = NoNode
              ELSE mem[f].frag \in Frag /\ mem[f].count # 0 /\ mem[f] # NoNode
         /\ tail.frag # head.frag => mem[head.frag].frag # Null
<1>1. TypeInv /\ Layout
  BY Zenon DEF IndInv
<1>2. PICK own, pos : Chains(own, pos) /\ TailIn(own, pos)
  BY <1>1, Zenon DEF Layout
<1>3. head.frag \in Frag /\ tail.frag \in Frag /\ Null \notin Frag
  BY <1>1, FragIsNat DEF TypeInv, TypeOK
<1>4. /\ own[head.frag] = head.frag /\ pos[head.frag] = 0
      /\ own[tail.frag] = head.frag
  BY <1>2, <1>3 DEF Chains, First, TailIn
<1>5. tail.frag # head.frag => pos[tail.frag] > pos[head.frag]
  <2>1. pos[tail.frag] \in Nat
    BY <1>2, <1>3 DEF Chains
  <2>2. pos[tail.frag] = 0 => tail.frag = head.frag
    BY <1>2, <1>3, <1>4 DEF Chains
  <2> QED BY <1>4, <2>1, <2>2
<1>6. ASSUME NEW f \in {head.frag, tail.frag}
      PROVE  IF mem[f].frag = Null THEN mem[f] = NoNode
             ELSE mem[f].frag \in Frag /\ mem[f].count # 0 /\ mem[f] # NoNode
  <2>1. f \in Frag /\ own[f] # Null
    BY <1>3, <1>4
  <2> QED BY <1>1, <1>2, <2>1, Follow
<1>7. tail.frag # head.frag => mem[head.frag].frag # Null
  <2>1. own[head.frag] # Null
    BY <1>3, <1>4
  <2> QED BY <1>1, <1>2, <1>3, <1>4, <1>5, <2>1, Follow
<1> QED BY <1>6, <1>7

\* What can be reached from a first fragment is its chain.
LEMMA FromChain ==
  ASSUME NEW own, NEW pos, Chains(own, pos), TypeInv,
         NEW x \in Frag, First(x)
  PROVE  From(x) = {g \in Frag : own[g] = x}
<1> DEFINE step(S) == S \cup ({mem[g].frag : g \in S \cap Frag} \ {Null})
           h == [k \in Frag |-> {g \in Frag : own[g] = x /\ pos[g] <= k}]
           R(e) == e = [k \in Frag |-> IF k = 0 THEN {x} ELSE step(e[k - 1])]
           link == CHOOSE e : R(e)
<1>1. /\ own[x] = x /\ pos[x] = 0 /\ x # Null /\ Null \notin Frag
      /\ pos \in [Frag -> Nat] /\ Capacity \in Nat
  BY FragIsNat, MemPoolAssumption DEF Chains
<1>2. R(h)
  <2> SUFFICES ASSUME NEW k \in Frag
               PROVE  h[k] = IF k = 0 THEN {x} ELSE step(h[k - 1])
    OBVIOUS
  <2>1. CASE k = 0
    <3>1. \A g \in Frag : own[g] = x /\ pos[g] <= 0 <=> g = x
      BY <1>1 DEF Chains
    <3>2. h[k] = {g \in Frag : own[g] = x /\ pos[g] <= 0}
      BY <2>1
    <3> HIDE DEF h
    <3>3. h[k] = {x}
      BY <3>1, <3>2
    <3> QED BY <2>1, <3>3
  <2>2. CASE k # 0
    <3>1. k - 1 \in Frag /\ k \in Nat /\ k - 1 \in Nat
      BY <2>2, <1>1 DEF Frag
    <3>2. h[k - 1] = {g \in Frag : own[g] = x /\ pos[g] <= k - 1}
      BY <3>1
    <3>3. h[k] = {g \in Frag : own[g] = x /\ pos[g] <= k}
      OBVIOUS
    <3> HIDE DEF h
    <3>4. ASSUME NEW g \in h[k] PROVE g \in step(h[k - 1])
      <4>1. g \in Frag /\ own[g] = x /\ pos[g] <= k /\ pos[g] \in Nat
        BY <1>1, <3>3
      <4>2. CASE pos[g] <= k - 1
        BY <3>2, <4>1, <4>2
      <4>3. CASE ~ (pos[g] <= k - 1)
        <5>1. pos[g] = k /\ pos[g] # 0
          BY <2>2, <3>1, <4>1, <4>3
        <5>2. PICK e \in Frag : own[e] = own[g] /\ mem[e].frag = g
          BY <1>1, <4>1, <5>1 DEF Chains
        <5>3. pos[g] = pos[e] + 1 /\ pos[e] \in Nat
          BY <1>1, <4>1, <5>2, Follow
        <5>4. e \in h[k - 1] /\ g # Null
          BY <1>1, <3>1, <3>2, <4>1, <5>1, <5>2, <5>3
        <5> QED BY <5>2, <5>4
      <4> QED BY <4>2, <4>3
    <3>5. ASSUME NEW g \in step(h[k - 1]) PROVE g \in h[k]
      <4>1. CASE g \in h[k - 1]
        <5>1. g \in Frag /\ own[g] = x /\ pos[g] <= k - 1 /\ pos[g] \in Nat
          BY <1>1, <3>2, <4>1
        <5>2. pos[g] <= k
          BY <3>1, <5>1
        <5> QED BY <3>3, <5>1, <5>2
      <4>2. CASE g \notin h[k - 1]
        <5>1. PICK e \in h[k - 1] \cap Frag : g = mem[e].frag /\ g # Null
          BY <4>2
        <5>2. e \in Frag /\ own[e] = x /\ pos[e] <= k - 1 /\ pos[e] \in Nat
          BY <1>1, <3>2, <5>1
        <5>3. g \in Frag /\ own[g] = x /\ pos[g] = pos[e] + 1
          BY <1>1, <5>1, <5>2, Follow
        <5>4. pos[g] <= k
          BY <3>1, <5>2, <5>3
        <5> QED BY <3>3, <5>3, <5>4
      <4> QED BY <4>1, <4>2
    <3> HIDE DEF step
    <3>6. h[k] = step(h[k - 1])
      BY <3>4, <3>5
    <3> QED BY <2>2, <3>6
  <2> QED BY <2>1, <2>2
<1>3. R(link)
  BY <1>2
<1>4. From(x) = link[Capacity]
  BY DEF From, link
<1> HIDE DEF link
<1>5. \A k \in Frag : link[k] = IF k = 0 THEN {x} ELSE step(link[k - 1])
  BY <1>3
<1>6. \A k \in Frag : h[k] = IF k = 0 THEN {x} ELSE step(h[k - 1])
  BY <1>2
<1>7. \A k \in Frag : link[k] = h[k]
  <2> HIDE DEF h, step
  <2> DEFINE T == {k \in Frag : link[k] # h[k]}
  <2>1. SUFFICES ASSUME T # {} PROVE FALSE
    OBVIOUS
  <2>2. T \in SUBSET Nat
    BY DEF Frag
  <2>3. PICK k \in T : \A n \in T : k <= n
    BY <2>1, <2>2, NatMin
  <2>4. k \in Frag /\ k \in Nat
    BY DEF Frag
  <2>5. k # 0
    BY <1>5, <1>6, <2>4
  <2>6. k - 1 \in Frag /\ ~ (k - 1 \in T)
    <3> HIDE DEF T
    <3>1. k - 1 \in Frag /\ ~ (k <= k - 1)
      BY <1>1, <2>4, <2>5 DEF Frag
    <3> QED BY <2>3, <3>1
  <2>7. link[k - 1] = h[k - 1]
    BY <2>6
  <2>8. link[k] = step(link[k - 1]) /\ h[k] = step(h[k - 1])
    BY <1>5, <1>6, <2>4, <2>5
  <2> QED BY <2>7, <2>8
<1>8. h[Capacity] = {g \in Frag : own[g] = x}
  <2>1. \A g \in Frag : own[g] = x => pos[g] <= Capacity
    BY <1>1, PosBound
  <2>2. Capacity \in Frag
    BY <1>1 DEF Frag
  <2>3. h[Capacity] = {g \in Frag : own[g] = x /\ pos[g] <= Capacity}
    BY <2>2
  <2> HIDE DEF h
  <2> QED BY <2>1, <2>3
<1>9. Capacity \in Frag
  BY <1>1 DEF Frag
<1> HIDE DEF h
<1> QED BY <1>4, <1>7, <1>8, <1>9

\* The chain of a list without a free fragment.
LEMMA EmptyChain ==
  ASSUME IndInv, mem[head.frag].frag = Null
  PROVE  Cardinality(Chain) = 1
<1>1. TypeInv /\ Layout
  BY Zenon DEF IndInv
<1>2. PICK own, pos : Chains(own, pos)
  BY <1>1, Zenon DEF Layout
<1>3. head.frag \in Frag /\ First(head.frag) /\ Null \notin Frag
  BY <1>1, FragIsNat DEF TypeInv, TypeOK, First
<1>4. own[head.frag] = head.frag /\ pos[head.frag] = 0 /\ own[head.frag] # Null
  BY <1>2, <1>3 DEF Chains
<1>5. ASSUME NEW g \in Frag, own[g] = head.frag PROVE g = head.frag
  <2>1. ~ (pos[g] > pos[head.frag])
    BY <1>1, <1>2, <1>3, <1>4, <1>5, Follow
  <2>2. pos[g] \in Nat
    BY <1>2 DEF Chains
  <2>3. pos[g] = pos[head.frag]
    BY <1>4, <2>1, <2>2
  <2> QED BY <1>2, <1>3, <1>4, <1>5, <2>3 DEF Chains
<1>6. Chain = {g \in Frag : own[g] = head.frag}
  BY <1>1, <1>2, <1>3, FromChain DEF Chain
<1>7. Chain = {head.frag}
  BY <1>3, <1>4, <1>5, <1>6
<1> QED BY <1>7, FS_Singleton

-----------------------------------------------------------------------------
\* Each action preserves the invariant, in the order of the code.
LEMMA StepPutTail ==
  ASSUME IndInv, NEW t \in Thread, PutTail(t)
  PROVE  IndInv'
<1> DEFINE l == "put_next_count"
           r == [reg[t] EXCEPT !.tail = tail]
<1>1. /\ pc[t] = "put_tail" /\ Local(t, l, r)
      /\ UNCHANGED <<mem, head, tail, freeable, user, calls, overlap>>
  BY DEF PutTail, Goto, Local
<1>2. /\ TypeInv /\ reg[t] \in Reg /\ tail \in Node /\ tail.frag \in Frag
      /\ Pointers(pc[t], reg[t])
  BY Facts
<1>3. r \in Reg /\ r.tail = tail /\ r.frag = reg[t].frag
  BY <1>2 DEF Reg
<1>4. pc'[t] = l /\ reg'[t] = r
  BY <1>1, <1>2, LocalMeans
<1>5. l \in Label /\ Pointers(l, r)
  BY <1>1, <1>2, <1>3 DEF Pointers, Label, HeadRead, Putting, Unlinked
<1>6. Seen(t)'
  <2>1. tail.count \in Nat
    BY <1>2, NodeIs
  <2> HIDE DEF r
  <2> QED BY <1>1, <1>3, <1>4, <2>1
      DEF Seen, TailSeen, HeadSeen, PutSeen, PickSeen, HeadRead
<1> HIDE DEF r
<1>7. /\ l \in Unlinked <=> pc[t] \in Unlinked
      /\ l \in Holding <=> pc[t] \in Holding
      /\ l \in Picking <=> pc[t] \in Picking
      /\ l \in Putting <=> pc[t] \in Putting
  BY <1>1 DEF Unlinked, Holding, Picking, Putting, HeadRead
<1>8. pc[t] # "idle"
  BY <1>1
<1> QED BY <1>1, <1>3, <1>5, <1>6, <1>7, <1>8, LocalStep

LEMMA StepPutNextCount ==
  ASSUME IndInv, NEW t \in Thread, PutNextCount(t)
  PROVE  IndInv'
<1> DEFINE l == "put_next_frag"
           c == mem[reg[t].tail.frag].count
           r == [reg[t] EXCEPT !.next.count = c]
<1>1. /\ pc[t] = "put_next_count" /\ Local(t, l, r)
      /\ UNCHANGED <<mem, head, tail, freeable, user, calls, overlap>>
  BY DEF PutNextCount, Goto, Local
<1>2. /\ TypeInv /\ reg[t] \in Reg /\ Seen(t) /\ mem \in [Frag -> Node]
      /\ reg[t].next \in Node /\ Pointers(pc[t], reg[t])
  BY Facts
<1>3. /\ r \in Reg /\ r.tail = reg[t].tail /\ r.frag = reg[t].frag
      /\ r.next.count = c /\ r.next.frag = reg[t].next.frag
  <2>1. reg[t].tail.frag \in Frag
    BY <1>1, <1>2 DEF Pointers, TailRead, PutRead
  <2>2. c \in 0 .. CountMod - 1
    BY <1>2, <2>1 DEF Node
  <2> HIDE DEF c
  <2> QED BY <1>2, <2>2 DEF Reg, Node
<1>4. pc'[t] = l /\ reg'[t] = r
  BY <1>1, <1>2, LocalMeans
<1> HIDE DEF r
<1>5. l \in Label /\ Pointers(l, r)
  BY <1>1, <1>2, <1>3
     DEF Pointers, Label, HeadRead, TailRead, PutRead, Putting, Unlinked
<1>6. Seen(t)'
  <2>1. TailSeen(t)'
    BY <1>1, <1>2, <1>3, <1>4 DEF Seen, TailSeen, TailRead, PutRead
  <2>2. c = 0 \/ mem[reg[t].tail.frag].frag # Null \/ reg[t].tail # tail
    BY EndLinks, NoNodeType
  <2> QED BY <1>1, <1>3, <1>4, <2>1, <2>2
      DEF Seen, HeadSeen, PutSeen, PickSeen, HeadRead
<1>7. /\ l \in Unlinked <=> pc[t] \in Unlinked
      /\ l \in Holding <=> pc[t] \in Holding
      /\ l \in Picking <=> pc[t] \in Picking
      /\ l \in Putting <=> pc[t] \in Putting
  BY <1>1 DEF Unlinked, Holding, Picking, Putting, HeadRead
<1>8. pc[t] # "idle"
  BY <1>1
<1> QED BY <1>1, <1>3, <1>5, <1>6, <1>7, <1>8, LocalStep

LEMMA StepPutNextFrag ==
  ASSUME IndInv, NEW t \in Thread, PutNextFrag(t)
  PROVE  IndInv'
<1> DEFINE l == "put_check"
           c == mem[reg[t].tail.frag].frag
           r == [reg[t] EXCEPT !.next.frag = c]
<1>1. /\ pc[t] = "put_next_frag" /\ Local(t, l, r)
      /\ UNCHANGED <<mem, head, tail, freeable, user, calls, overlap>>
  BY DEF PutNextFrag, Goto, Local
<1>2. /\ TypeInv /\ reg[t] \in Reg /\ Seen(t) /\ mem \in [Frag -> Node]
      /\ reg[t].next \in Node /\ Pointers(pc[t], reg[t])
  BY Facts
<1>3. /\ r \in Reg /\ r.tail = reg[t].tail /\ r.frag = reg[t].frag
      /\ r.next.frag = c /\ r.next.count = reg[t].next.count
  <2>1. reg[t].tail.frag \in Frag
    BY <1>1, <1>2 DEF Pointers, TailRead, PutRead
  <2>2. c \in Frag \cup {Null, Junk}
    BY <1>2, <2>1 DEF Node
  <2> HIDE DEF c
  <2> QED BY <1>2, <2>2 DEF Reg, Node
<1>4. pc'[t] = l /\ reg'[t] = r
  BY <1>1, <1>2, LocalMeans
<1> HIDE DEF r
<1>5. l \in Label /\ Pointers(l, r)
  BY <1>1, <1>2, <1>3
     DEF Pointers, Label, HeadRead, TailRead, PutRead, Putting, Unlinked
<1>6. Seen(t)'
  <2>1. TailSeen(t)'
    BY <1>1, <1>2, <1>3, <1>4 DEF Seen, TailSeen, TailRead, PutRead
  <2>2. reg[t].tail = tail =>
          IF c = Null THEN reg[t].next.count = 0 /\ mem[tail.frag] = NoNode
          ELSE c = mem[tail.frag].frag
    <3>1. reg[t].tail = tail => reg[t].next.count = 0 \/ c # Null
      BY <1>1, <1>2 DEF Seen, PutSeen
    <3>2. mem[tail.frag].frag = Null => mem[tail.frag] = NoNode
      BY EndLinks
    <3> QED BY <3>1, <3>2
  <2> QED BY <1>1, <1>3, <1>4, <2>1, <2>2
      DEF Seen, HeadSeen, PutSeen, PickSeen, HeadRead
<1>7. /\ l \in Unlinked <=> pc[t] \in Unlinked
      /\ l \in Holding <=> pc[t] \in Holding
      /\ l \in Picking <=> pc[t] \in Picking
      /\ l \in Putting <=> pc[t] \in Putting
  BY <1>1 DEF Unlinked, Holding, Picking, Putting, HeadRead
<1>8. pc[t] # "idle"
  BY <1>1
<1> QED BY <1>1, <1>3, <1>5, <1>6, <1>7, <1>8, LocalStep

LEMMA LocalSame ==
  ASSUME TypeInv, NEW t \in Thread, NEW l, Goto(t, l), reg' = reg
  PROVE  Local(t, l, reg[t])
<1>1. reg \in [Thread -> Reg]
  BY DEF TypeInv, TypeOK, Reg
<1>2. reg = [reg EXCEPT ![t] = reg[t]]
  BY <1>1
<1> QED BY <1>2, Zenon DEF Local, Goto

LEMMA StepPutCheck ==
  ASSUME IndInv, NEW t \in Thread, PutCheck(t)
  PROVE  IndInv'
<1> DEFINE l == IF reg[t].tail # tail THEN "put_tail"
                ELSE IF reg[t].next.frag = Null THEN "put_link" ELSE "put_swing"
           r == reg[t]
<1>1. /\ pc[t] = "put_check" /\ Goto(t, l)
      /\ UNCHANGED <<mem, head, tail, freeable, reg, user, calls, overlap>>
  BY DEF PutCheck
<1>2. /\ TypeInv /\ r \in Reg /\ Seen(t)
      /\ reg[t].next \in Node /\ Pointers(pc[t], r)
  BY Facts
<1>3. Local(t, l, r)
  BY <1>1, <1>2, LocalSame
<1>4. pc'[t] = l /\ reg'[t] = reg[t]
  BY <1>2, <1>3, LocalMeans
<1>5. l \in Label /\ Pointers(l, r)
  BY <1>1, <1>2 DEF Pointers, Label, HeadRead, TailRead, PutRead, Putting, Unlinked
<1>6. Seen(t)'
  <2>1. TailSeen(t)'
    BY <1>1, <1>2, <1>4 DEF Seen, TailSeen, TailRead, PutRead
  <2>2. HeadSeen(t)'
    BY <1>4 DEF HeadSeen, HeadRead
  <2>3. PickSeen(t)'
    BY <1>4 DEF PickSeen
  <2>4. reg[t].tail = tail =>
          IF reg[t].next.frag = Null
          THEN reg[t].next.count = 0 /\ mem[tail.frag] = NoNode
          ELSE reg[t].next.frag = mem[tail.frag].frag
    BY <1>1, <1>2 DEF Seen, PutSeen
  <2>5. CASE reg[t].tail # tail
    BY <1>4, <2>1, <2>2, <2>3, <2>5 DEF Seen, PutSeen
  <2>6. CASE reg[t].tail = tail /\ reg[t].next.frag = Null
    <3>1. reg[t].next = NoNode
      BY <1>2, <2>4, <2>6, NoNodeType, NodeEq
    <3> QED BY <1>1, <1>4, <2>1, <2>2, <2>3, <2>4, <2>6, <3>1 DEF Seen, PutSeen
  <2>7. CASE reg[t].tail = tail /\ reg[t].next.frag # Null
    <3>1. reg[t].next.frag \in Frag
      BY <2>4, <2>7, EndLinks
    <3> QED BY <1>1, <1>4, <2>1, <2>2, <2>3, <2>4, <2>7, <3>1 DEF Seen, PutSeen
  <2> QED BY <2>5, <2>6, <2>7
<1>7. /\ l \in Unlinked <=> pc[t] \in Unlinked
      /\ l \in Holding <=> pc[t] \in Holding
      /\ l \in Picking <=> pc[t] \in Picking
      /\ l \in Putting <=> pc[t] \in Putting
  BY <1>1 DEF Unlinked, Holding, Picking, Putting, HeadRead
<1>8. /\ pc[t] # "idle"
      /\ UNCHANGED <<mem, head, tail, freeable, user, calls, overlap>>
  BY <1>1
<1> HIDE DEF l
<1> QED BY <1>2, <1>3, <1>5, <1>6, <1>7, <1>8, LocalStep

\* The steps that try to move the tail on.
LEMMA SwingStep ==
  ASSUME NoWrap, IndInv, NEW t \in Thread, NEW f, SwingTail(t, f),
         NEW l \in Label,
         Goto(t, l), UNCHANGED <<mem, head, freeable, reg, user, calls, overlap>>,
         f \in Frag, reg[t].tail = tail => f = mem[tail.frag].frag,
         \/ pc[t] = "put_swing" /\ l = "put_tail"
         \/ pc[t] = "put_end" /\ l = "put_count"
         \/ pc[t] = "pick_swing" /\ l = "pick_head"
  PROVE  IndInv'
<1> DEFINE r == reg[t]
<1>1. /\ TypeInv /\ r \in Reg /\ Pointers(pc[t], r) /\ CountInv /\ Layout
      /\ OnePut
      /\ \A u \in Thread : Seen(u)
  BY Facts, Zenon DEF IndInv
<1>2. Local(t, l, r)
  BY <1>1, LocalSame
<1>3. /\ pc'[t] = l /\ reg'[t] = reg[t]
      /\ \A u \in Thread \ {t} : pc'[u] = pc[u] /\ reg'[u] = reg[u]
      /\ \A u \in Thread : pc'[u] = IF u = t THEN l ELSE pc[u]
  BY <1>1, <1>2, LocalMeans
<1>4. Pointers(l, r)
  BY <1>1
     DEF Pointers, HeadRead, TailRead, PutRead, Unlinked, Linked, Holding
<1>5. Seen(t)'
  BY <1>3 DEF Seen, TailSeen, HeadSeen, PutSeen, PickSeen, TailRead, PutRead,
              HeadRead
<1>6. /\ l \in Unlinked <=> pc[t] \in Unlinked
      /\ l \in Holding <=> pc[t] \in Holding
      /\ l \in Picking <=> pc[t] \in Picking
      /\ l \in Putting <=> pc[t] \in Putting
      /\ pc[t] # "idle"
  BY DEF Unlinked, Linked, Holding, Picking, Putting, HeadRead
<1>7. CASE UNCHANGED tail
  BY <1>1, <1>2, <1>4, <1>5, <1>6, <1>7, LocalStep
<1>8. CASE reg[t].tail = tail /\ tail' = NodeOf(tail.count + 1, f)
  <2>1. PICK own, pos : /\ Chains(own, pos) /\ Places(own)
                        /\ TailIn(own, pos)
    BY <1>1, Zenon DEF Layout
  <2>2. /\ tail \in Node /\ tail.frag \in Frag /\ head \in Node
        /\ head.frag \in Frag /\ own[tail.frag] = head.frag
        /\ f = mem[tail.frag].frag /\ Null \notin Frag
    BY <1>8, <2>1, Facts, FragIsNat DEF TailIn
  <2>3. own[f] = head.frag /\ pos[f] = pos[tail.frag] + 1
    BY <1>1, <2>1, <2>2, Follow
  <2>4. /\ tail.count \in Nat /\ head.count \in Nat /\ pos[tail.frag] \in Nat
        /\ pos[f] <= Capacity /\ tail.count = head.count + pos[tail.frag]
    BY <1>1, <2>1, <2>2, <2>3, PosBound, NodeIs DEF TailIn
  <2>5. tail.count + 1 < CountMod /\ tail.count + 1 \in Nat
    <3>1. head.count + Capacity < CountMod
      BY <1>1, <2>2, HeadBound DEF CountInv
    <3> QED BY <2>3, <2>4, <3>1, MemPoolAssumption
  <2>6. /\ tail' \in Node /\ tail'.frag = f
        /\ tail'.count = tail.count + 1
    BY <1>8, <2>5, NodeType
  <2>7. f # head.frag
    <3>1. pos[head.frag] = 0
      BY <2>1, <2>2 DEF Chains, First
    <3> QED BY <2>3, <2>4, <3>1
  <2>8. TypeInv'
    <3>1. /\ mem \in [Frag -> Node] /\ freeable \in 0 .. SizeMod - 1
          /\ user \subseteq Frag /\ CallsType /\ overlap \in BOOLEAN /\ ~ overlap
      BY <1>1 DEF TypeInv, TypeOK, CallsType
    <3>2. /\ mem' = mem /\ head' = head /\ freeable' = freeable
          /\ user' = user /\ calls' = calls /\ overlap' = overlap
      OBVIOUS
    <3>3. CallsType'
      BY <3>1, <3>2 DEF CallsType
    <3> QED BY <1>1, <1>2, <1>4, <2>2, <2>6, <3>1, <3>2, <3>3, TypeKept
  <2>9. CountInv'
    <3>1. SameCounts
      BY <1>3, <1>6 DEF SameCounts
    <3> QED BY <1>1, <3>1, CountKept
  <2>10. Chains(own, pos)' /\ Places(own)'
    <3>1. SamePlaces
      BY <1>3, <1>6 DEF SamePlaces
    <3> QED BY <2>1, <3>1, ChainsKept
  <2>11. TailIn(own, pos)'
    BY <2>3, <2>4, <2>6 DEF TailIn
  <2>12. OnePut'
    BY <1>1, <1>3, <1>6, OnePutKept
  <2>13. /\ tail'.count > tail.count /\ tail'.frag # head.frag
         /\ mem[tail.frag] # NoNode
    BY <2>2, <2>4, <2>6, <2>7, NoNodeType
  <2>14. head' = head /\ mem' = mem
    OBVIOUS
  <2> QED
    BY ONLY <1>1, <1>3, <1>5, <2>8, <2>9, <2>10, <2>11, <2>12, <2>13, <2>14,
            t \in Thread, Assemble
<1> QED BY <1>7, <1>8 DEF SwingTail


LEMMA StepPutSwing ==
  ASSUME NoWrap, IndInv, NEW t \in Thread, PutSwing(t)
  PROVE  IndInv'
<1>1. /\ pc[t] = "put_swing" /\ SwingTail(t, reg[t].next.frag)
      /\ Goto(t, "put_tail")
      /\ UNCHANGED <<mem, head, freeable, reg, user, calls, overlap>>
  BY DEF PutSwing
<1>2. /\ reg[t].next.frag \in Frag
      /\ reg[t].tail = tail => reg[t].next.frag = mem[tail.frag].frag
  BY <1>1, Facts DEF Seen, PutSeen
<1>3. "put_tail" \in Label
  BY DEF Label, Putting, Unlinked
<1> QED BY <1>1, <1>2, <1>3, SwingStep

LEMMA StepPutEnd ==
  ASSUME NoWrap, IndInv, NEW t \in Thread, PutEnd(t)
  PROVE  IndInv'
<1>1. /\ pc[t] = "put_end" /\ SwingTail(t, reg[t].frag)
      /\ Goto(t, "put_count")
      /\ UNCHANGED <<mem, head, freeable, reg, user, calls, overlap>>
  BY DEF PutEnd
<1>2. /\ reg[t].frag \in Frag
      /\ reg[t].tail = tail => reg[t].frag = mem[tail.frag].frag
  BY <1>1, Facts DEF Seen, PutSeen, Pointers, Linked
<1>3. "put_count" \in Label
  BY DEF Label, Putting, Linked
<1> QED BY <1>1, <1>2, <1>3, SwingStep

LEMMA StepPickSwing ==
  ASSUME NoWrap, IndInv, NEW t \in Thread, PickSwing(t)
  PROVE  IndInv'
<1>1. /\ pc[t] = "pick_swing" /\ SwingTail(t, reg[t].next.frag)
      /\ Goto(t, "pick_head")
      /\ UNCHANGED <<mem, head, freeable, reg, user, calls, overlap>>
  BY DEF PickSwing
<1>2. /\ reg[t].next.frag \in Frag
      /\ reg[t].tail = tail => reg[t].next.frag = mem[tail.frag].frag
  BY <1>1, Facts DEF Seen, PickSeen
<1>3. "pick_head" \in Label
  BY DEF Label
<1> QED BY <1>1, <1>2, <1>3, SwingStep

LEMMA StepPickHead ==
  ASSUME IndInv, NEW t \in Thread, PickHead(t)
  PROVE  IndInv'
<1> DEFINE l == "pick_tail"
           r == [reg[t] EXCEPT !.head = head]
<1>1. /\ pc[t] = "pick_head" /\ Local(t, l, r)
      /\ UNCHANGED <<mem, head, tail, freeable, user, calls, overlap>>
  BY DEF PickHead, Goto, Local
<1>2. /\ TypeInv /\ reg[t] \in Reg /\ head \in Node /\ head.frag \in Frag
      /\ Pointers(pc[t], reg[t])
  BY Facts
<1>3. r \in Reg /\ r.tail = reg[t].tail /\ r.head = head
  BY <1>2 DEF Reg
<1>4. pc'[t] = l /\ reg'[t] = r
  BY <1>1, <1>2, LocalMeans
<1> HIDE DEF r
<1>5. l \in Label /\ Pointers(l, r)
  BY <1>1, <1>2, <1>3
     DEF Pointers, Label, TailRead, PutRead, Unlinked, Linked, Holding
<1>6. Seen(t)'
  <2>1. head.count \in Nat
    BY <1>2, NodeIs
  <2> QED BY <1>1, <1>3, <1>4, <2>1
      DEF Seen, TailSeen, HeadSeen, PutSeen, PickSeen, TailRead, PutRead
<1>7. /\ l \in Unlinked <=> pc[t] \in Unlinked
      /\ l \in Holding <=> pc[t] \in Holding
      /\ l \in Picking <=> pc[t] \in Picking
      /\ l \in Putting <=> pc[t] \in Putting
      /\ pc[t] \notin Unlinked \cup Holding
  BY <1>1 DEF Unlinked, Linked, Holding, Picking, Putting, HeadRead
<1>8. pc[t] # "idle"
  BY <1>1
<1> QED BY <1>1, <1>3, <1>5, <1>6, <1>7, <1>8, LocalStep

LEMMA StepPickTail ==
  ASSUME IndInv, NEW t \in Thread, PickTail(t)
  PROVE  IndInv'
<1> DEFINE l == "pick_next"
           r == [reg[t] EXCEPT !.tail = tail]
<1>1. /\ pc[t] = "pick_tail" /\ Local(t, l, r)
      /\ UNCHANGED <<mem, head, tail, freeable, user, calls, overlap>>
  BY DEF PickTail, Goto, Local
<1>2. /\ TypeInv /\ reg[t] \in Reg /\ tail \in Node /\ tail.frag \in Frag
      /\ Pointers(pc[t], reg[t]) /\ Seen(t)
  BY Facts
<1>3. r \in Reg /\ r.tail = tail /\ r.head = reg[t].head
  BY <1>2 DEF Reg
<1>4. pc'[t] = l /\ reg'[t] = r
  BY <1>1, <1>2, LocalMeans
<1> HIDE DEF r
<1>5. l \in Label /\ Pointers(l, r)
  BY <1>1, <1>2, <1>3
     DEF Pointers, Label, HeadRead, Unlinked, Linked, Holding
<1>6. Seen(t)'
  <2>1. tail.count \in Nat
    BY <1>2, NodeIs
  <2>2. HeadSeen(t)'
    BY <1>1, <1>2, <1>3, <1>4 DEF Seen, HeadSeen, HeadRead
  <2> QED BY <1>1, <1>3, <1>4, <2>1, <2>2 DEF Seen, TailSeen, PutSeen, PickSeen
<1>7. /\ l \in Unlinked <=> pc[t] \in Unlinked
      /\ l \in Holding <=> pc[t] \in Holding
      /\ l \in Picking <=> pc[t] \in Picking
      /\ l \in Putting <=> pc[t] \in Putting
      /\ pc[t] \notin Unlinked \cup Holding
  BY <1>1 DEF Unlinked, Linked, Holding, Picking, Putting, HeadRead
<1>8. pc[t] # "idle"
  BY <1>1
<1> QED BY <1>1, <1>3, <1>5, <1>6, <1>7, <1>8, LocalStep

LEMMA StepPickNext ==
  ASSUME IndInv, NEW t \in Thread, PickNext(t)
  PROVE  IndInv'
<1> DEFINE l == "pick_check"
           c == mem[reg[t].head.frag].frag
           e == Cardinality(Chain) = 1
           r == [reg[t] EXCEPT !.next.frag = c, !.empty = e]
<1>1. /\ pc[t] = "pick_next" /\ Local(t, l, r)
      /\ UNCHANGED <<mem, head, tail, freeable, user, calls, overlap>>
  BY DEF PickNext, Goto, Local
<1>2. /\ TypeInv /\ reg[t] \in Reg /\ mem \in [Frag -> Node]
      /\ Pointers(pc[t], reg[t]) /\ Seen(t) /\ reg[t].next \in Node
      /\ head.frag \in Frag /\ Null \notin Frag
  BY Facts, FragIsNat
<1>3. /\ r \in Reg /\ r.tail = reg[t].tail /\ r.head = reg[t].head
      /\ r.next.frag = c /\ (r.empty <=> e)
  <2>1. reg[t].head.frag \in Frag
    BY <1>1, <1>2 DEF Pointers, HeadRead
  <2>2. c \in Frag \cup {Null, Junk}
    BY <1>2, <2>1 DEF Node
  <2>3. e \in BOOLEAN
    OBVIOUS
  <2> HIDE DEF c, e
  <2>4. [reg[t].next EXCEPT !.frag = c] \in Node
    BY <1>2, <2>2 DEF Node
  <2>5. r = [[reg[t] EXCEPT !.next = [reg[t].next EXCEPT !.frag = c]]
               EXCEPT !.empty = e]
    BY Zenon
  <2> QED BY <1>2, <2>2, <2>3, <2>4, <2>5 DEF Reg, Node
<1>4. pc'[t] = l /\ reg'[t] = r
  BY <1>1, <1>2, LocalMeans
<1> HIDE DEF r
<1>5. l \in Label /\ Pointers(l, r)
  BY <1>1, <1>2, <1>3
     DEF Pointers, Label, HeadRead, TailRead, Unlinked, Linked, Holding
<1>6. Seen(t)'
  <2>1. HeadSeen(t)'
    BY <1>1, <1>2, <1>3, <1>4 DEF Seen, HeadSeen, HeadRead
  <2>2. TailSeen(t)'
    BY <1>1, <1>2, <1>3, <1>4 DEF Seen, TailSeen, TailRead
  <2>3. reg[t].head = head =>
          reg[t].tail.frag = head.frag \/ tail.frag # head.frag
    BY <1>1, <1>2 DEF Seen, PickSeen
  <2>4. tail.frag # head.frag => mem[head.frag].frag # Null
    BY EndLinks
  <2>5. mem[head.frag].frag # Null => mem[head.frag].frag \in Frag
    BY EndLinks
  <2>6. mem[head.frag].frag = Null => e
    BY EmptyChain
  <2>7. reg[t].head = head =>
          IF reg[t].tail.frag # head.frag
          THEN tail.frag # head.frag /\ c \in Frag /\ c = mem[head.frag].frag
          ELSE (c = Null /\ e) \/ (c # Null /\ c = mem[head.frag].frag)
    <3> HIDE DEF e
    <3> QED BY <2>3, <2>4, <2>5, <2>6
  <2>8. PickSeen(t)'
    <3> HIDE DEF c, e
    <3> QED BY <1>1, <1>3, <1>4, <2>7, Zenon DEF PickSeen
  <2> QED BY <1>4, <2>1, <2>2, <2>8 DEF Seen, PutSeen
<1>7. /\ l \in Unlinked <=> pc[t] \in Unlinked
      /\ l \in Holding <=> pc[t] \in Holding
      /\ l \in Picking <=> pc[t] \in Picking
      /\ l \in Putting <=> pc[t] \in Putting
      /\ pc[t] \notin Unlinked \cup Holding
  BY <1>1 DEF Unlinked, Linked, Holding, Picking, Putting, HeadRead
<1>8. pc[t] # "idle"
  BY <1>1
<1> QED BY <1>1, <1>3, <1>5, <1>6, <1>7, <1>8, LocalStep

LEMMA StepPickCheck ==
  ASSUME IndInv, NEW t \in Thread, PickCheck(t)
  PROVE  IndInv'
<1> DEFINE l == IF reg[t].head # head THEN "pick_head" ELSE PickBranch(t)
           r == reg[t]
<1>1. /\ pc[t] = "pick_check" /\ Goto(t, l)
      /\ UNCHANGED <<mem, head, tail, freeable, reg, user, calls, overlap>>
  BY DEF PickCheck
<1>2. /\ TypeInv /\ r \in Reg /\ Seen(t) /\ Pointers(pc[t], r)
  BY Facts
<1>3. Local(t, l, r)
  BY <1>1, <1>2, LocalSame
<1>4. pc'[t] = l /\ reg'[t] = reg[t]
  BY <1>2, <1>3, LocalMeans
<1>5. l \in {"pick_head", "pick_take", "pick_fail", "pick_swing"}
  BY DEF PickBranch
<1>6. l \in Label /\ Pointers(l, r)
  BY <1>1, <1>2, <1>5
     DEF Pointers, Label, HeadRead, TailRead, PutRead, Unlinked, Linked, Holding
<1>7. Seen(t)'
  <2>1. TailSeen(t)'
    BY <1>1, <1>2, <1>4, <1>5 DEF Seen, TailSeen, TailRead
  <2>2. HeadSeen(t)'
    BY <1>1, <1>2, <1>4, <1>5 DEF Seen, HeadSeen, HeadRead
  <2>3. PutSeen(t)'
    BY <1>4, <1>5 DEF PutSeen
  <2>4. reg[t].head = head =>
          IF reg[t].tail.frag # head.frag
          THEN /\ tail.frag # head.frag /\ reg[t].next.frag \in Frag
               /\ reg[t].next.frag = mem[head.frag].frag
          ELSE \/ reg[t].next.frag = Null /\ reg[t].empty
               \/ /\ reg[t].next.frag # Null
                  /\ reg[t].next.frag = mem[head.frag].frag
    BY <1>1, <1>2, Zenon DEF Seen, PickSeen
  <2>5. CASE reg[t].head # head
    BY <1>4, <2>1, <2>2, <2>3, <2>5 DEF Seen, PickSeen
  <2>6. CASE reg[t].head = head /\ reg[t].tail.frag # head.frag
    <3>1. l = "pick_take"
      BY <2>6 DEF PickBranch
    <3>2. PickSeen(t)'
      BY <1>1, <1>4, <2>4, <2>6, <3>1 DEF PickSeen
    <3> QED BY <2>1, <2>2, <2>3, <3>2 DEF Seen
  <2>7. CASE /\ reg[t].head = head /\ reg[t].tail.frag = head.frag
             /\ reg[t].next.frag = Null
    <3>1. l = "pick_fail"
      BY <2>7 DEF PickBranch
    <3>2. reg[t].empty
      BY <2>4, <2>7, Zenon
    <3>3. PickSeen(t)'
      BY <1>4, <3>1, <3>2 DEF PickSeen
    <3> QED BY <2>1, <2>2, <2>3, <3>3 DEF Seen
  <2>8. CASE /\ reg[t].head = head /\ reg[t].tail.frag = head.frag
             /\ reg[t].next.frag # Null
    <3>1. l = "pick_swing"
      BY <2>8 DEF PickBranch
    <3>2. reg[t].next.frag = mem[head.frag].frag
      BY <2>4, <2>8, Zenon
    <3>3. reg[t].next.frag \in Frag
      BY <2>8, <3>2, EndLinks
    <3>4. PickSeen(t)'
      BY <1>1, <1>4, <2>8, <3>1, <3>2, <3>3 DEF PickSeen
    <3> QED BY <2>1, <2>2, <2>3, <3>4 DEF Seen
  <2> QED BY <2>5, <2>6, <2>7, <2>8
<1>8. /\ l \in Unlinked <=> pc[t] \in Unlinked
      /\ l \in Holding <=> pc[t] \in Holding
      /\ l \in Picking <=> pc[t] \in Picking
      /\ l \in Putting <=> pc[t] \in Putting
      /\ pc[t] \notin Unlinked \cup Holding
  BY <1>1, <1>5
     DEF Unlinked, Linked, Holding, Picking, Putting, HeadRead
<1>9. /\ pc[t] # "idle"
      /\ UNCHANGED <<mem, head, tail, freeable, user, calls, overlap>>
  BY <1>1
<1> HIDE DEF l
<1> QED BY <1>2, <1>3, <1>6, <1>7, <1>8, <1>9, LocalStep

\* The counter, when a fragment is given back and when one is taken.
LEMMA ModStep ==
  ASSUME NEW m \in Nat \ {0}, NEW n \in 0 .. m - 1
  PROVE  /\ (n + 1) % m = IF n + 1 = m THEN 0 ELSE n + 1
         /\ (n - 1) % m = IF n = 0 THEN m - 1 ELSE n - 1
OBVIOUS

LEMMA FragsFinite ==
  ASSUME NEW S \in SUBSET Frag
  PROVE  IsFiniteSet(S) /\ Cardinality(S) \in Nat
<1>1. IsFiniteSet(Frag)
  BY FS_Interval, MemPoolAssumption DEF Frag
<1>2. IsFiniteSet(S)
  BY <1>1, FS_Subset
<1> QED BY <1>2, FS_CardinalityType

LEMMA CountParts ==
  ASSUME TakenInv', FreeableInv',
         \A t \in Thread : pc'[t] # "idle" => calls'[t] >= 1
  PROVE  CountInv'
BY Zenon DEF CountInv

\* Fewer calls that have not taken a fragment, or more calls.
LEMMA TakenKept ==
  ASSUME NoWrap, head \in Node, TakenInv, NEW t \in Thread, head' = head,
         calls[t] \in Nat,
         \A u \in Thread \ {t} : pc'[u] = pc[u] /\ calls'[u] = calls[u],
         \/ calls'[t] = calls[t] /\ pc'[t] \notin Picking
         \/ calls'[t] = calls[t] /\ pc[t] \in Picking
         \/ calls'[t] = calls[t] + 1
  PROVE  TakenInv'
<1>1. \A p \in AllCalls : p[1] \in Thread /\ p[2] \in Nat
  BY DEF AllCalls
<1>2. Begun \ Open \subseteq Begun' \ Open'
  <2> SUFFICES ASSUME NEW p \in Begun, p \notin Open
               PROVE  p \in Begun' /\ p \notin Open'
    OBVIOUS
  <2>1. p \in AllCalls /\ p[1] \in Thread /\ p[2] \in Nat /\ p[2] <= calls[p[1]]
    BY <1>1 DEF Begun
  <2>2. CASE p[1] # t
    BY <2>1, <2>2 DEF Begun, Open
  <2>3. CASE p[1] = t
    BY <2>1, <2>3 DEF Begun, Open
  <2> QED BY <2>2, <2>3
<1>3. Begun' \ Open' \in SUBSET AllCalls
  BY DEF Begun
<1>4. IsFiniteSet(Begun' \ Open')
  BY <1>3, CallsFinite
<1>5. Cardinality(Begun \ Open) <= Cardinality(Begun' \ Open')
  BY <1>2, <1>4, FS_Subset
<1>6. Begun \ Open \in SUBSET AllCalls
  BY DEF Begun
<1>7. Cardinality(Begun \ Open) \in Nat /\ Cardinality(Begun' \ Open') \in Nat
  BY <1>3, <1>6, CallsFinite
<1>8. head.count \in Nat /\ head.count <= InUse + Cardinality(Begun \ Open)
  BY NodeIs DEF TakenInv
<1>9. InUse \in Nat
  BY MemPoolAssumption
<1> QED BY <1>5, <1>7, <1>8, <1>9 DEF TakenInv

\* An allocation takes a fragment.
LEMMA TakenStep ==
  ASSUME NoWrap, TakenInv, NEW t \in Thread, calls' = calls,
         calls[t] \in 1 .. MaxCalls[t], head.count \in Nat,
         pc[t] \in Picking, pc'[t] \notin Picking,
         \A u \in Thread \ {t} : pc'[u] = pc[u],
         head'.count = head.count + 1
  PROVE  TakenInv'
<1> DEFINE p == <<t, calls[t]>>
           A == Begun \ Open
           B == Begun' \ Open'
<1>1. p \in Begun /\ p \in Open /\ p[1] = t
  <2>1. MaxCalls[t] \in Nat
    BY MemPoolAssumption
  <2>2. calls[t] \in Nat /\ p \in Thread \X Nat /\ p[1] = t /\ p[2] = calls[t]
    BY <2>1
  <2>3. p \in AllCalls
    BY <2>2 DEF AllCalls
  <2>4. p \in Begun
    BY <2>2, <2>3 DEF Begun
  <2> QED BY <2>2, <2>4 DEF Open
<1>2. Begun' = Begun
  BY DEF Begun
<1>3. A \subseteq B
  <2>1. ASSUME NEW c \in Begun, c \notin Open PROVE c \notin Open'
    <3>1. c[1] \in Thread
      BY DEF Begun, AllCalls
    <3>2. CASE c[1] = t
      BY <3>2 DEF Open
    <3>3. CASE c[1] # t
      BY <2>1, <3>1, <3>3 DEF Open
    <3> QED BY <3>2, <3>3
  <2> QED BY <1>2, <2>1
<1>4. p \in B /\ p \notin A
  <2>1. p \notin Open'
    BY <1>1 DEF Open
  <2> QED BY <1>1, <1>2, <2>1
<1>5. A \in SUBSET AllCalls /\ B \in SUBSET AllCalls
  BY <1>2 DEF Begun
<1>6. head.count <= InUse + Cardinality(A)
  BY DEF TakenInv
<1>7. TakenInv' <=> head'.count <= InUse + Cardinality(B)
  BY DEF TakenInv
<1> HIDE DEF A, B, p
<1>8. /\ IsFiniteSet(A) /\ IsFiniteSet(B)
      /\ Cardinality(A) \in Nat /\ Cardinality(B) \in Nat
  BY <1>5, CallsFinite
<1>9. Cardinality(A \cup {p}) = Cardinality(A) + 1
  BY <1>4, <1>8, FS_AddElement
<1>10. Cardinality(A \cup {p}) <= Cardinality(B)
  <2>1. A \cup {p} \subseteq B
    BY <1>3, <1>4
  <2> QED BY <1>8, <2>1, FS_Subset
<1>11. InUse \in Nat
  BY MemPoolAssumption
<1> QED BY <1>6, <1>7, <1>8, <1>9, <1>10, <1>11

\* The changes of the number of fragments with users and with calls that count
\* for the user.
LEMMA FreeableStep ==
  ASSUME NoWrap, TypeInv, CountInv, NEW t \in Thread,
         \A u \in Thread \ {t} : pc'[u] = pc[u],
         user' \subseteq Frag, freeable' \in Int,
         NEW a \in Int, NEW b \in Int,
         Cardinality(user') = Cardinality(user) + a,
         b = (IF pc'[t] \in Putting THEN 1 ELSE 0)
               - (IF pc[t] \in Putting THEN 1 ELSE 0),
         NEW q \in Int, freeable' + a + b = freeable + q * SizeMod
  PROVE  FreeableInv'
<1> DEFINE U == {u \in Thread : pc[u] \in Putting}
           V == {u \in Thread : pc'[u] \in Putting}
<1>1. IsFiniteSet(Thread)
  BY DEF NoWrap
<1>2. /\ Cardinality(U) \in Nat /\ Cardinality(V) \in Nat
      /\ Cardinality(V) = Cardinality(U) + b
  <2>1. U \in SUBSET Thread /\ V \in SUBSET Thread
    OBVIOUS
  <2>2. /\ t \in U <=> pc[t] \in Putting
        /\ t \in V <=> pc'[t] \in Putting
        /\ \A u \in Thread \ {t} : u \in U <=> u \in V
    OBVIOUS
  <2> HIDE DEF U, V
  <2>3. /\ t \in U /\ t \notin V => V = U \ {t}
        /\ t \notin U /\ t \in V => V = U \cup {t}
        /\ (t \in U <=> t \in V) => V = U
    BY ONLY <2>1, <2>2, t \in Thread
  <2>4. /\ Cardinality(U) \in Nat /\ Cardinality(V) \in Nat
        /\ t \notin U => Cardinality(U \cup {t}) = Cardinality(U) + 1
        /\ t \in U => Cardinality(U \ {t}) = Cardinality(U) - 1
    BY <1>1, <2>1, CountOne
  <2>5. b = (IF t \in V THEN 1 ELSE 0) - (IF t \in U THEN 1 ELSE 0)
    BY <2>2, Zenon
  <2>6. CASE t \in U <=> t \in V
    BY ONLY <2>3, <2>4, <2>5, <2>6
  <2>7. CASE t \in U /\ t \notin V
    BY ONLY <2>3, <2>4, <2>5, <2>7
  <2>8. CASE t \notin U /\ t \in V
    BY ONLY <2>3, <2>4, <2>5, <2>8
  <2> QED BY <2>4, <2>6, <2>7, <2>8
<1>4. Cardinality(user) \in Nat /\ Cardinality(user') \in Nat
  BY FragsFinite DEF TypeInv, TypeOK
<1>5. PICK p \in Int : freeable + Cardinality(user) + Cardinality(U)
                         = Capacity + p * SizeMod
  BY Zenon DEF CountInv, FreeableInv
<1>6. freeable \in Int /\ SizeMod \in Int /\ Capacity \in Int
  BY MemPoolAssumption DEF TypeInv, TypeOK
<1> HIDE DEF U, V
<1>7. p + q \in Int /\ (p + q) * SizeMod = p * SizeMod + q * SizeMod
  BY <1>5, <1>6
<1>8. p * SizeMod \in Int /\ q * SizeMod \in Int /\ (p + q) * SizeMod \in Int
  BY <1>5, <1>6
<1>x. PICK x \in Int : x = p * SizeMod
  BY <1>8
<1>y. PICK y \in Int : y = q * SizeMod
  BY <1>8
<1>z. PICK z \in Int : z = (p + q) * SizeMod
  BY <1>8
<1>9. /\ freeable + Cardinality(user) + Cardinality(U) = Capacity + x
      /\ freeable' + a + b = freeable + y /\ z = x + y
      /\ x \in Int /\ y \in Int /\ z \in Int
  BY <1>5, <1>7, <1>x, <1>y, <1>z
<1>10. freeable' + Cardinality(user') + Cardinality(V) = Capacity + z
  <2>1. PICK g \in Int : g = freeable'
    OBVIOUS
  <2>2. PICK d \in Int : d = Cardinality(user')
    BY <1>4
  <2>3. PICK v \in Int : v = Cardinality(V)
    BY <1>2
  <2>4. g + a + b = freeable + y /\ z = x + y
    BY <1>9, <2>1
  <2>5. d = Cardinality(user) + a /\ v = Cardinality(U) + b
    BY <1>2, <2>2, <2>3
  <2>6. g + d + v = Capacity + z
    BY <1>2, <1>4, <1>6, <1>9, <2>4, <2>5
  <2> QED BY <2>1, <2>2, <2>3, <2>6
<1> QED BY <1>7, <1>z, <1>10, Zenon DEF FreeableInv, V

\* A step that does not touch the list.
LEMMA PlaceStep ==
  ASSUME IndInv, NEW t \in Thread, NEW l, NEW r, Local(t, l, r),
         UNCHANGED <<mem, head, tail, user>>,
         l \notin Unlinked, l \notin Putting, pc[t] \notin Unlinked,
         l \in Holding <=> pc[t] \in Holding,
         pc[t] \in Holding => r.frag = reg[t].frag,
         TypeInv', CountInv', Seen(t)'
  PROVE  IndInv'
<1>1. TypeInv /\ Layout /\ OnePut /\ \A u \in Thread : Seen(u)
  BY Zenon DEF IndInv
<1>2. PICK own, pos : /\ Chains(own, pos) /\ Places(own)
                      /\ TailIn(own, pos)
  BY <1>1, Zenon DEF Layout
<1>3. /\ \A u \in Thread \ {t} : pc'[u] = pc[u] /\ reg'[u] = reg[u]
      /\ \A u \in Thread : pc'[u] = IF u = t THEN l ELSE pc[u]
      /\ \A u \in Thread : reg'[u] = IF u = t THEN r ELSE reg[u]
  BY <1>1, LocalMeans
<1>4. SamePlaces
  BY <1>3 DEF SamePlaces
<1>5. Chains(own, pos)' /\ Places(own)'
  BY <1>2, <1>4, ChainsKept
<1>6. TailIn(own, pos)'
  BY <1>2 DEF TailIn
<1>7. OnePut'
  BY <1>1, <1>3, OnePutKept
<1>8. head' = head /\ tail' = tail /\ mem' = mem
  OBVIOUS
<1> QED
  BY ONLY <1>1, <1>3, <1>5, <1>6, <1>7, <1>8, TypeInv', CountInv', Seen(t)',
          t \in Thread, Assemble

LEMMA NoRegIs == NoReg \in Reg /\ NoReg.frag = Null
<1>1. NoNode \in Node
  BY NoNodeType
<1> QED BY <1>1 DEF NoReg, Reg

\* What does not change keeps its type.
LEMMA TypesStay ==
  ASSUME TypeInv
  PROVE  /\ mem \in [Frag -> Node]
         /\ head \in Node /\ head.frag \in Frag
         /\ tail \in Node /\ tail.frag \in Frag
         /\ freeable \in 0 .. SizeMod - 1 /\ freeable \in Int
         /\ SizeMod \in Nat \ {0} /\ user \subseteq Frag
         /\ CallsType /\ overlap \in BOOLEAN /\ ~ overlap
         /\ \A t \in Thread : calls[t] \in Nat
BY MemPoolAssumption DEF TypeInv, TypeOK, CallsType

\* A call begins or ends at l, where a thread knows nothing of the list.
LEMMA StartSeen ==
  ASSUME NEW t \in Thread,
         pc'[t] \in {"idle", "put_init", "pick_head", "pick_count"}
  PROVE  Seen(t)'
BY DEF Seen, TailSeen, HeadSeen, PutSeen, PickSeen, TailRead, PutRead, HeadRead

LEMMA StepAlloc ==
  ASSUME NoWrap, IndInv, NEW t \in Thread, Alloc(t)
  PROVE  IndInv'
<1> DEFINE l == "pick_head"
           r == reg[t]
<1>1. /\ pc[t] = "idle" /\ Goto(t, l) /\ calls[t] < MaxCalls[t]
      /\ calls' = [calls EXCEPT ![t] = @ + 1]
      /\ mem' = mem /\ head' = head /\ tail' = tail
      /\ freeable' = freeable /\ user' = user /\ reg' = reg /\ overlap' = overlap
  BY DEF Alloc
<1>2. /\ TypeInv /\ CountInv /\ r \in Reg
  BY Facts
<1>3. Local(t, l, r)
  BY <1>1, <1>2, LocalSame
<1>4. pc'[t] = l /\ \A u \in Thread \ {t} : pc'[u] = pc[u] /\ reg'[u] = reg[u]
  BY <1>2, <1>3, LocalMeans
<1>5. l \in Label /\ Pointers(l, r)
  BY DEF Pointers, Label, HeadRead, TailRead, PutRead, Unlinked, Linked, Holding
<1>6. /\ CallsType' /\ calls'[t] = calls[t] + 1
      /\ calls'[t] >= 1
      /\ \A u \in Thread \ {t} : calls'[u] = calls[u]
  <2>1. MaxCalls[t] \in Nat
    BY MemPoolAssumption
  <2> QED BY <1>1, <1>2, <2>1, TypesStay DEF CallsType
<1>7. TypeInv'
  BY <1>1, <1>2, <1>3, <1>5, <1>6, TypeKept, TypesStay
<1>8. CountInv'
  <2>1. TakenInv'
    BY <1>1, <1>2, <1>4, <1>6, TypesStay, TakenKept DEF CountInv
  <2>2. FreeableInv'
    <3>1. pc[t] \notin Putting /\ pc'[t] \notin Putting
      BY <1>1, <1>4 DEF Putting, Unlinked, Linked
    <3>2. 0 = (IF pc'[t] \in Putting THEN 1 ELSE 0)
                - (IF pc[t] \in Putting THEN 1 ELSE 0)
      BY <3>1
    <3>3. Cardinality(user') = Cardinality(user) + 0
      <4>1. Cardinality(user) \in Nat
        BY <1>2, FragsFinite, TypesStay
      <4> QED BY <1>1, <4>1
    <3>4. freeable' + 0 + 0 = freeable + 0 * SizeMod
      BY <1>1, <1>2, TypesStay
    <3>5. user' \subseteq Frag /\ freeable' \in Int /\ 0 \in Int
      BY <1>1, <1>2, TypesStay
    <3> QED
      BY ONLY <1>2, <1>4, <3>2, <3>3, <3>4, <3>5, NoWrap, t \in Thread,
              FreeableStep
  <2>3. \A u \in Thread : pc'[u] # "idle" => calls'[u] >= 1
    BY <1>2, <1>4, <1>6 DEF CountInv
  <2> QED BY <2>1, <2>2, <2>3, CountParts
<1>9. /\ l \notin Unlinked /\ l \notin Putting /\ pc[t] \notin Unlinked
      /\ l \notin Holding /\ pc[t] \notin Holding
  BY <1>1 DEF Unlinked, Linked, Putting, Holding
<1>10. Seen(t)'
  BY <1>4, StartSeen
<1> QED BY <1>1, <1>3, <1>7, <1>8, <1>9, <1>10, PlaceStep

LEMMA StepPutCount ==
  ASSUME NoWrap, IndInv, NEW t \in Thread, PutCount(t)
  PROVE  IndInv'
<1> DEFINE l == "idle"
           r == NoReg
<1>1. /\ pc[t] = "put_count" /\ Local(t, l, r)
      /\ freeable' = (freeable + 1) % SizeMod
      /\ mem' = mem /\ head' = head /\ tail' = tail
      /\ user' = user /\ calls' = calls /\ overlap' = overlap
  BY DEF PutCount, Goto, Local
<1>2. /\ TypeInv /\ CountInv
  BY Facts
<1>4. pc'[t] = l /\ \A u \in Thread \ {t} : pc'[u] = pc[u] /\ reg'[u] = reg[u]
  BY <1>1, <1>2, LocalMeans
<1>5. l \in Label /\ r \in Reg /\ Pointers(l, r)
  BY NoRegIs
     DEF Pointers, Label, HeadRead, TailRead, PutRead, Unlinked, Linked, Holding
<1>6. /\ freeable' = IF freeable + 1 = SizeMod THEN 0 ELSE freeable + 1
      /\ freeable' \in 0 .. SizeMod - 1 /\ freeable' \in Int
  BY <1>1, <1>2, TypesStay, ModStep
<1>7. TypeInv'
  BY <1>1, <1>2, <1>5, <1>6, TypeKept, TypesStay DEF CallsType
<1>8. CountInv'
  <2>1. TakenInv'
    <3>1. pc'[t] \notin Picking
      BY <1>4 DEF Picking, HeadRead
    <3> QED BY <1>1, <1>2, <1>4, <3>1, TypesStay, TakenKept DEF CountInv
  <2>2. FreeableInv'
    <3> DEFINE q == IF freeable + 1 = SizeMod THEN -1 ELSE 0
    <3>1. pc[t] \in Putting /\ pc'[t] \notin Putting
      BY <1>1, <1>4 DEF Putting, Unlinked, Linked
    <3>2. -1 = (IF pc'[t] \in Putting THEN 1 ELSE 0)
                 - (IF pc[t] \in Putting THEN 1 ELSE 0)
      BY <3>1
    <3>3. Cardinality(user') = Cardinality(user) + 0
      <4>1. Cardinality(user) \in Nat
        BY <1>2, FragsFinite, TypesStay
      <4> QED BY <1>1, <4>1
    <3>4. freeable' + 0 + (-1) = freeable + q * SizeMod
      <4>1. freeable \in Int /\ SizeMod \in Int
        BY <1>2, TypesStay
      <4> QED BY <1>6, <4>1
    <3>5. user' \subseteq Frag /\ freeable' \in Int /\ 0 \in Int /\ q \in Int
          /\ -1 \in Int
      BY <1>1, <1>2, <1>6, TypesStay
    <3> HIDE DEF q
    <3> QED
      BY ONLY <1>2, <1>4, <3>2, <3>3, <3>4, <3>5, NoWrap, t \in Thread,
              FreeableStep
  <2>3. \A u \in Thread : pc'[u] # "idle" => calls'[u] >= 1
    BY <1>1, <1>2, <1>4 DEF CountInv
  <2> QED BY <2>1, <2>2, <2>3, CountParts
<1>9. /\ l \notin Unlinked /\ l \notin Putting /\ pc[t] \notin Unlinked
      /\ l \notin Holding /\ pc[t] \notin Holding
  BY <1>1 DEF Unlinked, Linked, Putting, Holding
<1>10. Seen(t)'
  BY <1>4, StartSeen
<1> QED BY <1>1, <1>7, <1>8, <1>9, <1>10, PlaceStep

LEMMA StepPickFail ==
  ASSUME NoWrap, IndInv, NEW t \in Thread, PickFail(t)
  PROVE  IndInv'
<1> DEFINE l == "idle"
           r == NoReg
<1>1. /\ pc[t] = "pick_fail" /\ Local(t, l, r)
      /\ mem' = mem /\ head' = head /\ tail' = tail
      /\ freeable' = freeable /\ user' = user /\ calls' = calls
      /\ overlap' = overlap
  BY DEF PickFail, Goto, Local
<1>2. /\ TypeInv /\ CountInv
  BY Facts
<1>4. pc'[t] = l /\ \A u \in Thread \ {t} : pc'[u] = pc[u] /\ reg'[u] = reg[u]
  BY <1>1, <1>2, LocalMeans
<1>5. l \in Label /\ r \in Reg /\ Pointers(l, r)
  BY NoRegIs
     DEF Pointers, Label, HeadRead, TailRead, PutRead, Unlinked, Linked, Holding
<1>7. TypeInv'
  BY <1>1, <1>2, <1>5, TypeKept, TypesStay DEF CallsType
<1>8. CountInv'
  <2>1. TakenInv'
    <3>1. pc'[t] \notin Picking
      BY <1>4 DEF Picking, HeadRead
    <3> QED BY <1>1, <1>2, <1>4, <3>1, TypesStay, TakenKept DEF CountInv
  <2>2. FreeableInv'
    <3>1. pc[t] \notin Putting /\ pc'[t] \notin Putting
      BY <1>1, <1>4 DEF Putting, Unlinked, Linked
    <3>2. 0 = (IF pc'[t] \in Putting THEN 1 ELSE 0)
                - (IF pc[t] \in Putting THEN 1 ELSE 0)
      BY <3>1
    <3>3. Cardinality(user') = Cardinality(user) + 0
      <4>1. Cardinality(user) \in Nat
        BY <1>2, FragsFinite, TypesStay
      <4> QED BY <1>1, <4>1
    <3>4. freeable' + 0 + 0 = freeable + 0 * SizeMod
      BY <1>1, <1>2, TypesStay
    <3>5. user' \subseteq Frag /\ freeable' \in Int /\ 0 \in Int
      BY <1>1, <1>2, TypesStay
    <3> QED
      BY ONLY <1>2, <1>4, <3>2, <3>3, <3>4, <3>5, NoWrap, t \in Thread,
              FreeableStep
  <2>3. \A u \in Thread : pc'[u] # "idle" => calls'[u] >= 1
    BY <1>1, <1>2, <1>4 DEF CountInv
  <2> QED BY <2>1, <2>2, <2>3, CountParts
<1>9. /\ l \notin Unlinked /\ l \notin Putting /\ pc[t] \notin Unlinked
      /\ l \notin Holding /\ pc[t] \notin Holding
  BY <1>1 DEF Unlinked, Linked, Putting, Holding
<1>10. Seen(t)'
  BY <1>4, StartSeen
<1> QED BY <1>1, <1>7, <1>8, <1>9, <1>10, PlaceStep

\* The steps that change who holds a fragment, or where it is.  First what they
\* have in common of what Layout says.
LEMMA LayoutFacts ==
  ASSUME TypeInv, NEW own, NEW pos, Chains(own, pos), Places(own),
         TailIn(own, pos)
  PROVE  /\ own \in [Frag -> Frag \cup {Null}] /\ pos \in [Frag -> Nat]
         /\ \A f \in Frag : own[f] # Null => First(own[f])
         /\ \A f \in Frag : First(f) => own[f] = f /\ pos[f] = 0
         /\ Null \notin Frag /\ head.frag \in Frag /\ tail.frag \in Frag
         /\ own[head.frag] = head.frag /\ pos[head.frag] = 0
         /\ own[tail.frag] = head.frag
         /\ \A t \in Putters :
              /\ reg[t].frag \in Frag /\ own[reg[t].frag] = reg[t].frag
              /\ pos[reg[t].frag] = 0
<1>1. /\ own \in [Frag -> Frag \cup {Null}] /\ pos \in [Frag -> Nat]
      /\ \A f \in Frag : own[f] # Null => First(own[f])
      /\ \A f \in Frag : First(f) => own[f] = f /\ pos[f] = 0
      /\ own[tail.frag] = head.frag
  BY DEF Chains, TailIn
<1>2. Null \notin Frag /\ head.frag \in Frag /\ tail.frag \in Frag
  BY FragIsNat, TypesStay
<1>3. First(head.frag)
  BY DEF First
<1>4. \A t \in Putters : First(reg[t].frag) /\ reg[t].frag \in Frag
  BY DEF First, Putters, TypeInv
<1> QED BY <1>1, <1>2, <1>3, <1>4

\* What Places says, in parts.
LEMMA PlacesIs ==
  ASSUME NEW own, Places(own)
  PROVE  /\ \A g \in Frag : own[g] = Null =>
              g \in user \/ \E u \in Thread : Holds(u, g)
         /\ \A g \in user : own[g] = Null /\ \A u \in Thread : ~ Holds(u, g)
         /\ \A u \in Thread, g \in Frag : Holds(u, g) => own[g] = Null
         /\ \A u, v \in Thread, g \in Frag : Holds(u, g) /\ Holds(v, g) => u = v
         /\ \A u \in Putters : reg[u].frag # head.frag
                               /\ mem[reg[u].frag] = NoNode
BY DEF Places

\* A user and a call exchange a fragment.
LEMMA ExchangeStep ==
  ASSUME IndInv, NEW t \in Thread, NEW l, NEW r, Local(t, l, r),
         UNCHANGED <<mem, head, tail>>,
         l \notin Unlinked, pc[t] \notin Unlinked, NEW f \in Frag,
         \/ /\ user' = user \ {f} /\ f \in user
            /\ pc[t] \notin Holding /\ l \in Holding /\ r.frag = f
         \/ /\ user' = user \cup {f}
            /\ pc[t] \in Holding /\ reg[t].frag = f /\ l \notin Holding,
         TypeInv', CountInv', OnePut', Seen(t)'
  PROVE  IndInv'
<1>1. TypeInv /\ Layout /\ OnePut /\ \A u \in Thread : Seen(u)
  BY Zenon DEF IndInv
<1>2. PICK own, pos : Chains(own, pos) /\ Places(own) /\ TailIn(own, pos)
  BY <1>1, Zenon DEF Layout
<1>3. /\ pc'[t] = l /\ reg'[t] = r
      /\ \A u \in Thread \ {t} : pc'[u] = pc[u] /\ reg'[u] = reg[u]
  BY <1>1, LocalMeans
<1>4. Putters' = Putters /\ \A u \in Putters : u # t /\ u \in Thread
  BY <1>3 DEF Putters
<1>5. \A g : First(g)' <=> First(g)
  BY <1>3, <1>4 DEF First
<1>6. Chains(own, pos)'
  BY <1>2, <1>5 DEF Chains
<1>7. /\ \A g \in Frag : own[g] = Null =>
           g \in user \/ \E u \in Thread : Holds(u, g)
      /\ \A g \in user : own[g] = Null /\ \A u \in Thread : ~ Holds(u, g)
      /\ \A u \in Thread, g \in Frag : Holds(u, g) => own[g] = Null
      /\ \A u, v \in Thread, g \in Frag : Holds(u, g) /\ Holds(v, g) => u = v
      /\ \A u \in Putters : reg[u].frag # head.frag
                            /\ mem[reg[u].frag] = NoNode
  BY <1>2, PlacesIs
<1>8. \A u \in Thread \ {t} : \A g : Holds(u, g)' <=> Holds(u, g)
  BY <1>3 DEF Holds
<1>9. \A u \in Putters' : reg'[u].frag # head'.frag /\ mem'[reg'[u].frag] = NoNode
  BY <1>3, <1>4, <1>7
<1>10. CASE /\ user' = user \ {f} /\ f \in user
            /\ pc[t] \notin Holding /\ l \in Holding /\ r.frag = f
  <2>1. \A g : ~ Holds(t, g)
    BY <1>10 DEF Holds
  <2>2. \A g : Holds(t, g)' <=> g = f
    BY <1>3, <1>10 DEF Holds
  <2>3. \A g \in Frag : own[g] = Null =>
          g \in user' \/ \E u \in Thread : Holds(u, g)'
    <3> SUFFICES ASSUME NEW g \in Frag, own[g] = Null, g \notin user'
                 PROVE  \E u \in Thread : Holds(u, g)'
      OBVIOUS
    <3>1. CASE g = f
      BY <2>2, <3>1
    <3>2. CASE g # f
      <4>1. PICK u \in Thread : Holds(u, g)
        BY <1>7, <1>10, <3>2
      <4>2. u # t
        BY <2>1, <4>1
      <4> QED BY <1>8, <4>1, <4>2
    <3> QED BY <3>1, <3>2
  <2>4. \A g \in user' : own[g] = Null /\ \A u \in Thread : ~ Holds(u, g)'
    BY <1>7, <1>8, <1>10, <2>2
  <2>5. \A u \in Thread, g \in Frag : Holds(u, g)' => own[g] = Null
    BY <1>7, <1>8, <1>10, <2>2
  <2>6. \A u, v \in Thread, g \in Frag : Holds(u, g)' /\ Holds(v, g)' => u = v
    BY <1>7, <1>8, <1>10, <2>2
  <2>7. Places(own)'
    BY <1>9, <2>3, <2>4, <2>5, <2>6 DEF Places
  <2>8. TailIn(own, pos)' /\ mem' = mem /\ head' = head /\ tail' = tail
    BY <1>2 DEF TailIn
  <2> QED
    BY ONLY <1>1, <1>3, <1>6, <2>7, <2>8, TypeInv', CountInv', OnePut',
            Seen(t)', t \in Thread, Assemble
<1>11. CASE /\ user' = user \cup {f}
            /\ pc[t] \in Holding /\ reg[t].frag = f /\ l \notin Holding
  <2>1. Holds(t, f)
    BY <1>11 DEF Holds
  <2>2. \A g : ~ Holds(t, g)'
    BY <1>3, <1>11 DEF Holds
  <2>3. \A g : Holds(t, g) => g = f
    BY <1>11 DEF Holds
  <2>4. \A g \in Frag : own[g] = Null =>
          g \in user' \/ \E u \in Thread : Holds(u, g)'
    <3> SUFFICES ASSUME NEW g \in Frag, own[g] = Null, g \notin user'
                 PROVE  \E u \in Thread : Holds(u, g)'
      OBVIOUS
    <3>1. PICK u \in Thread : Holds(u, g)
      BY <1>7, <1>11
    <3>2. u # t
      BY <1>11, <2>3, <3>1
    <3> QED BY <1>8, <3>1, <3>2
  <2>5. \A g \in user' : own[g] = Null /\ \A u \in Thread : ~ Holds(u, g)'
    <3> SUFFICES ASSUME NEW g \in user'
                 PROVE  own[g] = Null /\ \A u \in Thread : ~ Holds(u, g)'
      OBVIOUS
    <3>1. CASE g = f
      <4>1. own[g] = Null
        BY <1>7, <2>1, <3>1
      <4>2. \A u \in Thread \ {t} : ~ Holds(u, g)
        BY <1>7, <2>1, <3>1
      <4> QED BY <1>8, <2>2, <4>1, <4>2
    <3>2. CASE g # f
      <4>1. g \in user
        BY <1>11, <3>2
      <4> QED BY <1>7, <1>8, <2>2, <4>1
    <3> QED BY <3>1, <3>2
  <2>6. \A u \in Thread, g \in Frag : Holds(u, g)' => own[g] = Null
    BY <1>7, <1>8, <2>2
  <2>7. \A u, v \in Thread, g \in Frag : Holds(u, g)' /\ Holds(v, g)' => u = v
    BY <1>7, <1>8, <2>2
  <2>8. Places(own)'
    BY <1>9, <2>4, <2>5, <2>6, <2>7 DEF Places
  <2>9. TailIn(own, pos)' /\ mem' = mem /\ head' = head /\ tail' = tail
    BY <1>2 DEF TailIn
  <2> QED
    BY ONLY <1>1, <1>3, <1>6, <2>8, <2>9, TypeInv', CountInv', OnePut',
            Seen(t)', t \in Thread, Assemble
<1> QED BY <1>10, <1>11

LEMMA StepPickCount ==
  ASSUME NoWrap, IndInv, NEW t \in Thread, PickCount(t)
  PROVE  IndInv'
<1> DEFINE l == "idle"
           r == NoReg
           f == reg[t].frag
<1>1. /\ pc[t] = "pick_count" /\ Local(t, l, r)
      /\ freeable' = (freeable - 1) % SizeMod
      /\ mem' = mem /\ head' = head /\ tail' = tail
      /\ user' = user \cup {f} /\ calls' = calls /\ overlap' = overlap
  BY DEF PickCount, Goto, Local
<1>2. /\ TypeInv /\ CountInv /\ Layout /\ OnePut /\ Pointers(pc[t], reg[t])
      /\ f \in Frag
  <2>1. TypeInv /\ CountInv /\ Layout /\ OnePut
    BY Zenon DEF IndInv
  <2>2. Pointers(pc[t], reg[t])
    BY Facts
  <2> QED BY <1>1, <2>1, <2>2 DEF Pointers, Holding
<1> HIDE DEF f
<1>4. pc'[t] = l /\ \A u \in Thread \ {t} : pc'[u] = pc[u] /\ reg'[u] = reg[u]
  BY <1>1, <1>2, LocalMeans
<1>5. l \in Label /\ r \in Reg /\ Pointers(l, r)
  BY NoRegIs
     DEF Pointers, Label, HeadRead, TailRead, PutRead, Unlinked, Linked, Holding
<1>6. /\ freeable' = IF freeable = 0 THEN SizeMod - 1 ELSE freeable - 1
      /\ freeable' \in 0 .. SizeMod - 1 /\ freeable' \in Int
  BY <1>1, <1>2, TypesStay, ModStep
<1>7. TypeInv'
  BY <1>1, <1>2, <1>5, <1>6, TypeKept, TypesStay DEF CallsType
<1>8. CountInv'
  <2>1. TakenInv'
    <3>1. pc'[t] \notin Picking
      BY <1>4 DEF Picking, HeadRead
    <3> QED BY <1>1, <1>2, <1>4, <3>1, TypesStay, TakenKept DEF CountInv
  <2>2. FreeableInv'
    <3> DEFINE q == IF freeable = 0 THEN 1 ELSE 0
    <3>1. pc[t] \notin Putting /\ pc'[t] \notin Putting
      BY <1>1, <1>4 DEF Putting, Unlinked, Linked
    <3>2. 0 = (IF pc'[t] \in Putting THEN 1 ELSE 0)
                - (IF pc[t] \in Putting THEN 1 ELSE 0)
      BY <3>1
    <3>3. Cardinality(user') = Cardinality(user) + 1
      <4>1. IsFiniteSet(user)
        BY <1>2, FragsFinite, TypesStay
      <4>2. f \notin user
        <5>1. PICK own : Places(own)
          BY <1>2, Zenon DEF Layout
        <5>2. Holds(t, f)
          BY <1>1 DEF Holds, Holding, f
        <5> QED BY <5>1, <5>2, PlacesIs
      <4> QED BY <1>1, <4>1, <4>2, FS_AddElement
    <3>4. freeable' + 1 + 0 = freeable + q * SizeMod
      <4>1. freeable \in Int /\ SizeMod \in Int
        BY <1>2, TypesStay
      <4> QED BY <1>6, <4>1
    <3>5. user' \subseteq Frag /\ freeable' \in Int /\ 0 \in Int /\ q \in Int
          /\ 1 \in Int
      BY <1>1, <1>2, <1>6, TypesStay
    <3> HIDE DEF q
    <3> QED
      BY ONLY <1>2, <1>4, <3>2, <3>3, <3>4, <3>5, NoWrap, t \in Thread,
              FreeableStep
  <2>3. \A u \in Thread : pc'[u] # "idle" => calls'[u] >= 1
    BY <1>1, <1>2, <1>4 DEF CountInv
  <2> QED BY <2>1, <2>2, <2>3, CountParts
<1>9. /\ l \notin Unlinked /\ l \notin Putting /\ pc[t] \notin Unlinked
      /\ l \notin Holding /\ pc[t] \in Holding
  BY <1>1 DEF Unlinked, Linked, Putting, Holding
<1>10. Seen(t)'
  BY <1>4, StartSeen
<1>11. OnePut'
  BY <1>2, <1>4, <1>9, OnePutKept
<1>12. reg[t].frag = f
  BY DEF f
<1> QED BY <1>1, <1>2, <1>7, <1>8, <1>9, <1>10, <1>11, <1>12, ExchangeStep

\* A call of mempool_free begins while there is no other.
LEMMA StepFree ==
  ASSUME NoWrap, IndInv, NEW t \in Thread, NEW f \in user, FreeAt(t, f),
         ~ overlap'
  PROVE  IndInv'
<1> DEFINE l == "put_init"
           r == [reg[t] EXCEPT !.frag = f]
<1>2. /\ pc[t] = "idle" /\ Local(t, l, r) /\ calls[t] < MaxCalls[t]
      /\ calls' = [calls EXCEPT ![t] = @ + 1] /\ user' = user \ {f}
      /\ mem' = mem /\ head' = head /\ tail' = tail /\ freeable' = freeable
      /\ overlap' \in BOOLEAN /\ \A u \in Thread : pc[u] \notin Putting
  BY DEF FreeAt, Goto, Local
<1>3. TypeInv /\ CountInv /\ reg[t] \in Reg /\ f \in Frag
  <2>1. TypeInv /\ CountInv
    BY Zenon DEF IndInv
  <2> QED BY <2>1, Facts, TypesStay
<1>4. r \in Reg /\ r.frag = f
  BY <1>3 DEF Reg
<1> HIDE DEF r
<1>5. /\ pc'[t] = l /\ reg'[t] = r
      /\ \A u \in Thread \ {t} : pc'[u] = pc[u] /\ reg'[u] = reg[u]
  BY <1>2, <1>3, LocalMeans
<1>6. l \in Label /\ Pointers(l, r)
  BY <1>3, <1>4
     DEF Pointers, Label, HeadRead, TailRead, PutRead, Unlinked, Linked, Holding,
         Putting
<1>7. /\ CallsType' /\ calls'[t] = calls[t] + 1
      /\ calls'[t] >= 1
      /\ \A u \in Thread \ {t} : calls'[u] = calls[u]
  <2>1. MaxCalls[t] \in Nat
    BY MemPoolAssumption
  <2> QED BY <1>2, <1>3, <2>1, TypesStay DEF CallsType
<1>8. user' \subseteq Frag /\ user \subseteq Frag
  BY <1>2, <1>3, TypesStay
<1>9. TypeInv'
  BY <1>2, <1>3, <1>4, <1>6, <1>7, <1>8, TypeKept, TypesStay
<1>10. CountInv'
  <2>1. TakenInv'
    BY <1>2, <1>3, <1>5, <1>7, TypesStay, TakenKept DEF CountInv
  <2>2. FreeableInv'
    <3>1. pc[t] \notin Putting /\ pc'[t] \in Putting
      BY <1>2, <1>5 DEF Putting
    <3>2. 1 = (IF pc'[t] \in Putting THEN 1 ELSE 0)
                - (IF pc[t] \in Putting THEN 1 ELSE 0)
      BY <3>1
    <3>3. Cardinality(user') = Cardinality(user) + (-1)
      <4>1. IsFiniteSet(user) /\ Cardinality(user) \in Nat
        BY <1>8, FragsFinite
      <4>2. Cardinality(user \ {f}) = Cardinality(user) - 1
        BY <4>1, FS_RemoveElement
      <4> QED BY <1>2, <4>1, <4>2
    <3>4. freeable' + (-1) + 1 = freeable + 0 * SizeMod
      BY <1>2, <1>3, TypesStay
    <3>5. freeable' \in Int /\ 0 \in Int /\ 1 \in Int /\ -1 \in Int
      BY <1>2, <1>3, TypesStay
    <3> QED
      BY ONLY <1>3, <1>5, <1>8, <3>2, <3>3, <3>4, <3>5, NoWrap, t \in Thread,
              FreeableStep
  <2>3. \A u \in Thread : pc'[u] # "idle" => calls'[u] >= 1
    BY <1>3, <1>5, <1>7 DEF CountInv
  <2> QED BY <2>1, <2>2, <2>3, CountParts
<1>11. Seen(t)'
  BY <1>5, StartSeen
<1>12. OnePut'
  BY <1>2, <1>5 DEF OnePut
<1>13. /\ l \notin Unlinked /\ pc[t] \notin Unlinked
       /\ pc[t] \notin Holding /\ l \in Holding
  BY <1>2 DEF Unlinked, Holding
<1> QED BY <1>2, <1>3, <1>4, <1>9, <1>10, <1>11, <1>12, <1>13, ExchangeStep

\* Whatever users store in their fragments, the list is not there.
LEMMA StepStore ==
  ASSUME IndInv, NEW f \in user, NEW d \in Node, Store(f, d)
  PROVE  IndInv'
<1>1. /\ mem' = [mem EXCEPT ![f] = d] /\ head' = head /\ tail' = tail
      /\ freeable' = freeable /\ pc' = pc /\ reg' = reg /\ user' = user
      /\ calls' = calls /\ overlap' = overlap
  BY DEF Store
<1>2. /\ TypeInv /\ CountInv /\ Layout /\ OnePut /\ \A u \in Thread : Seen(u)
      /\ f \in Frag /\ mem \in [Frag -> Node]
  <2>1. TypeInv /\ CountInv /\ Layout /\ OnePut /\ \A u \in Thread : Seen(u)
    BY Zenon DEF IndInv
  <2> QED BY <2>1, TypesStay
<1>3. mem' \in [Frag -> Node] /\ \A g \in Frag \ {f} : mem'[g] = mem[g]
  BY <1>1, <1>2
<1>4. TypeInv'
  BY <1>1, <1>2, <1>3 DEF TypeInv, TypeOK
<1>5. CountInv'
  <2>1. SameCounts
    BY <1>1 DEF SameCounts
  <2> QED BY <1>2, <2>1, CountKept
<1>6. OnePut'
  BY <1>1, <1>2 DEF OnePut
<1>7. PICK own, pos : Chains(own, pos) /\ Places(own) /\ TailIn(own, pos)
  BY <1>2, Zenon DEF Layout
<1>8. own[f] = Null
  BY <1>7, PlacesIs
<1>9. /\ own[head.frag] = head.frag /\ own[tail.frag] = head.frag
      /\ head.frag \in Frag /\ tail.frag \in Frag /\ Null \notin Frag
      /\ \A u \in Putters : reg[u].frag \in Frag
                            /\ own[reg[u].frag] = reg[u].frag
  BY <1>2, <1>7, LayoutFacts
<1>10. \A g \in Frag : own[g] # Null => mem'[g] = mem[g]
  BY <1>3, <1>8
<1>11. Putters' = Putters /\ \A g : First(g)' <=> First(g)
  BY <1>1 DEF Putters, First
<1>12. Chains(own, pos)'
  <2>1. /\ own \in [Frag -> Frag \cup {Null}] /\ pos \in [Frag -> Nat]
        /\ \A g \in Frag : own[g] # Null => First(own[g])
        /\ \A g \in Frag : First(g) => own[g] = g /\ pos[g] = 0
        /\ \A g, h \in Frag :
             own[g] # Null /\ own[g] = own[h] /\ pos[g] = pos[h] => g = h
    BY <1>7 DEF Chains
  <2>2. \A g \in Frag : own[g] # Null /\ pos[g] # 0 =>
          \E e \in Frag : own[e] = own[g] /\ mem'[e].frag = g
    <3>1. \A g \in Frag : own[g] # Null /\ pos[g] # 0 =>
            \E e \in Frag : own[e] = own[g] /\ mem[e].frag = g
      BY <1>7 DEF Chains
    <3> QED BY <1>10, <3>1
  <2>3. \A g \in Frag : own[g] # Null =>
          \/ mem'[g] = NoNode
          \/ /\ mem'[g].count # 0 /\ mem'[g].frag \in Frag
             /\ own[mem'[g].frag] = own[g] /\ pos[mem'[g].frag] = pos[g] + 1
    <3>1. \A g \in Frag : own[g] # Null =>
            \/ mem[g] = NoNode
            \/ /\ mem[g].count # 0 /\ mem[g].frag \in Frag
               /\ own[mem[g].frag] = own[g] /\ pos[mem[g].frag] = pos[g] + 1
      BY <1>7 DEF Chains
    <3> QED BY <1>10, <3>1
  <2> QED BY <1>11, <2>1, <2>2, <2>3 DEF Chains
<1>13. \A u : \A g : Holds(u, g)' <=> Holds(u, g)
  BY <1>1 DEF Holds
<1>14. Places(own)'
  <2>1. \A u \in Putters : reg[u].frag # head.frag
                           /\ mem'[reg[u].frag] = NoNode
    <3>1. \A u \in Putters : reg[u].frag # head.frag
                             /\ mem[reg[u].frag] = NoNode
      BY <1>7, PlacesIs
    <3> QED BY <1>9, <1>10, <3>1
  <2> QED BY <1>1, <1>7, <1>11, <1>13, <2>1 DEF Places
<1>15. TailIn(own, pos)'
  BY <1>1, <1>7 DEF TailIn
<1>16. mem'[tail.frag] = mem[tail.frag] /\ mem'[head.frag] = mem[head.frag]
  BY <1>9, <1>10
<1>17. ASSUME NEW u \in Thread PROVE Seen(u)'
  <2>1. head' \in Node /\ tail' \in Node
    BY <1>1, <1>2, TypesStay
  <2> QED BY <1>1, <1>2, <1>16, <2>1, SeenKept
<1>18. Layout'
  BY <1>12, <1>14, <1>15, Zenon DEF Layout
<1> QED BY <1>4, <1>5, <1>6, <1>17, <1>18, Zenon DEF IndInv

LEMMA StepPutInit ==
  ASSUME IndInv, NEW t \in Thread, PutInit(t)
  PROVE  IndInv'
<1> DEFINE l == "put_tail"
           r == reg[t]
           f == reg[t].frag
<1>1. mem' = [mem EXCEPT ![f] = NoNode]
  BY DEF PutInit
<1>2. /\ pc[t] = "put_init" /\ Goto(t, l) /\ user' = user /\ reg' = reg
      /\ calls' = calls /\ head' = head /\ tail' = tail /\ freeable' = freeable
      /\ overlap' = overlap
  BY DEF PutInit
<1>3. /\ TypeInv /\ CountInv /\ Layout /\ OnePut /\ \A u \in Thread : Seen(u)
  BY Zenon DEF IndInv
<1>4. f \in Frag /\ r \in Reg /\ NoNode \in Node
  <2>1. Pointers(pc[t], reg[t]) /\ r \in Reg
    BY Facts
  <2> QED BY <1>2, <2>1, NoNodeType DEF Pointers, Holding
<1>l. Local(t, l, r)
  BY <1>2, <1>3, LocalSame
<1>5. /\ pc'[t] = l /\ reg'[t] = reg[t]
      /\ \A u \in Thread \ {t} : pc'[u] = pc[u] /\ reg'[u] = reg[u]
  BY <1>l, <1>3, LocalMeans
<1>6. l \in Label /\ Pointers(l, r)
  BY <1>4
     DEF Pointers, Label, Putting, HeadRead, TailRead, PutRead, Unlinked, Linked,
         Holding
<1>7. /\ mem' \in [Frag -> Node] /\ mem'[f] = NoNode
      /\ \A g \in Frag \ {f} : mem'[g] = mem[g]
  BY <1>1, <1>3, <1>4, TypesStay
<1>9. TypeInv'
  BY <1>2, <1>l, <1>3, <1>4, <1>6, <1>7, TypeKept, TypesStay DEF CallsType
<1>10. CountInv'
  <2>1. SameCounts
    BY <1>2, <1>5 DEF SameCounts, Picking, HeadRead, Putting, Unlinked, Linked
  <2> QED BY <1>3, <2>1, CountKept
<1>11. Seen(t)'
  BY <1>5 DEF Seen, TailSeen, HeadSeen, PutSeen, PickSeen, TailRead, PutRead,
              HeadRead
<1>12. PICK own, pos : /\ Chains(own, pos) /\ Places(own)
                       /\ TailIn(own, pos)
  BY <1>3, Zenon DEF Layout
<1> HIDE DEF f
<1>13. /\ \A g \in Frag : own[g] = Null =>
            g \in user \/ \E u \in Thread : Holds(u, g)
       /\ \A g \in user : own[g] = Null /\ \A u \in Thread : ~ Holds(u, g)
       /\ \A u \in Thread, g \in Frag : Holds(u, g) => own[g] = Null
       /\ \A u, v \in Thread, g \in Frag : Holds(u, g) /\ Holds(v, g) => u = v
  BY <1>12, PlacesIs
<1>14. Holds(t, f) /\ own[f] = Null /\ f \notin user
  <2>1. Holds(t, f)
    BY <1>2 DEF Holds, Holding, f
  <2> QED BY <1>4, <1>13, <2>1
<1>15. Putters = {} /\ Putters' = {t} /\ reg'[t].frag = f
  <2>1. \A u \in Thread \ {t} : pc[u] \notin Unlinked
    BY <1>2, <1>3 DEF OnePut, Putting
  <2> QED BY <1>2, <1>5, <2>1 DEF Putters, Unlinked, f
<1>16. \A g : First(g)' <=> (First(g) \/ g = f)
  BY <1>2, <1>15 DEF First
<1>17. /\ own[head.frag] = head.frag /\ own[tail.frag] = head.frag
       /\ head.frag \in Frag /\ tail.frag \in Frag /\ Null \notin Frag
       /\ own \in [Frag -> Frag \cup {Null}] /\ pos \in [Frag -> Nat]
       /\ \A g \in Frag : own[g] # Null => First(own[g])
       /\ \A g \in Frag : First(g) => own[g] = g /\ pos[g] = 0
  BY <1>3, <1>12, LayoutFacts
<1>18. \A g \in Frag : own[g] # Null => g # f /\ mem'[g] = mem[g] /\ own[g] # f
  BY <1>4, <1>7, <1>14, <1>17
<1>o. PICK own2, pos2 :
        /\ own2 \in [Frag -> Frag \cup {Null}] /\ pos2 \in [Frag -> Nat]
        /\ own2[f] = f /\ pos2[f] = 0
        /\ \A g \in Frag : g # f => own2[g] = own[g] /\ pos2[g] = pos[g]
  <2> DEFINE o == [own EXCEPT ![f] = f]
             p == [pos EXCEPT ![f] = 0]
  <2>1. /\ o \in [Frag -> Frag \cup {Null}] /\ p \in [Frag -> Nat]
        /\ o[f] = f /\ p[f] = 0
        /\ \A g \in Frag : g # f => o[g] = own[g] /\ p[g] = pos[g]
    BY <1>4, <1>17
  <2> HIDE DEF o, p
  <2> QED BY <2>1
<1>n. f # Null
  BY <1>4, <1>17
<1>19. Chains(own2, pos2)'
  <2>1. \A g \in Frag : own2[g] # Null => First(own2[g])'
    BY <1>16, <1>17, <1>o, <1>n
  <2>2. \A g \in Frag : First(g)' => own2[g] = g /\ pos2[g] = 0
    BY <1>16, <1>17, <1>o, <1>n
  <2>3. \A g \in Frag : own2[g] # Null /\ pos2[g] # 0 =>
          \E e \in Frag : own2[e] = own2[g] /\ mem'[e].frag = g
    <3>1. \A g \in Frag : own[g] # Null /\ pos[g] # 0 =>
            \E e \in Frag : own[e] = own[g] /\ mem[e].frag = g
      BY <1>12 DEF Chains
    <3> QED BY <1>18, <1>o, <1>n, <3>1
  <2>4. \A g \in Frag : own2[g] # Null =>
          \/ mem'[g] = NoNode
          \/ /\ mem'[g].count # 0 /\ mem'[g].frag \in Frag
             /\ own2[mem'[g].frag] = own2[g]
             /\ pos2[mem'[g].frag] = pos2[g] + 1
    <3>1. \A g \in Frag : own[g] # Null =>
            \/ mem[g] = NoNode
            \/ /\ mem[g].count # 0 /\ mem[g].frag \in Frag
               /\ own[mem[g].frag] = own[g] /\ pos[mem[g].frag] = pos[g] + 1
      BY <1>12 DEF Chains
    <3> SUFFICES ASSUME NEW g \in Frag, own2[g] # Null, g # f
                 PROVE  \/ mem'[g] = NoNode
                        \/ /\ mem'[g].count # 0 /\ mem'[g].frag \in Frag
                           /\ own2[mem'[g].frag] = own2[g]
                           /\ pos2[mem'[g].frag] = pos2[g] + 1
      BY <1>7
    <3>2. own[g] # Null /\ own2[g] = own[g] /\ pos2[g] = pos[g]
      BY <1>o, <1>n
    <3>3. mem'[g] = mem[g]
      BY <1>18, <3>2
    <3>4. CASE mem[g] = NoNode
      BY <3>3, <3>4
    <3>5. CASE /\ mem[g].count # 0 /\ mem[g].frag \in Frag
               /\ own[mem[g].frag] = own[g] /\ pos[mem[g].frag] = pos[g] + 1
      <4>1. mem[g].frag # f
        BY <1>18, <3>2, <3>5
      <4> QED BY <1>o, <1>n, <3>2, <3>3, <3>5, <4>1
    <3> QED BY <3>1, <3>2, <3>4, <3>5
  <2>5. \A g, h \in Frag :
          own2[g] # Null /\ own2[g] = own2[h] /\ pos2[g] = pos2[h] => g = h
    <3>1. \A g, h \in Frag :
            own[g] # Null /\ own[g] = own[h] /\ pos[g] = pos[h] => g = h
      BY <1>12 DEF Chains
    <3> QED BY <1>18, <1>o, <1>n, <3>1
  <2> QED BY <1>o, <1>n, <2>1, <2>2, <2>3, <2>4, <2>5 DEF Chains
<1>20. \A u \in Thread : \A g : Holds(u, g)' <=> (u # t /\ Holds(u, g))
  BY <1>5 DEF Holds, Holding
<1>21. Places(own2)'
  <2>1. \A g \in Frag : own2[g] = Null =>
          g \in user' \/ \E u \in Thread : Holds(u, g)'
    <3> SUFFICES ASSUME NEW g \in Frag, own2[g] = Null
                 PROVE  g \in user' \/ \E u \in Thread : Holds(u, g)'
      OBVIOUS
    <3>1. g # f /\ own[g] = Null
      BY <1>o, <1>n
    <3>2. g \in user \/ \E u \in Thread : Holds(u, g)
      BY <1>13, <3>1
    <3>3. ~ Holds(t, g)
      BY <3>1 DEF Holds, f
    <3> QED BY <1>2, <1>20, <3>2, <3>3
  <2>2. \A g \in user' : own2[g] = Null /\ \A u \in Thread : ~ Holds(u, g)'
    <3>1. user \subseteq Frag
      BY <1>3, TypesStay
    <3> QED BY <1>2, <1>13, <1>14, <1>20, <1>o, <1>n, <3>1
  <2>3. \A u \in Thread, g \in Frag : Holds(u, g)' => own2[g] = Null
    <3>1. \A u \in Thread : u # t => ~ Holds(u, f)
      BY <1>4, <1>13, <1>14
    <3> QED BY <1>13, <1>20, <1>o, <1>n, <3>1
  <2>4. \A u, v \in Thread, g \in Frag : Holds(u, g)' /\ Holds(v, g)' => u = v
    BY <1>13, <1>20
  <2>5. \A u \in Putters' : reg'[u].frag # head'.frag
                            /\ mem'[reg'[u].frag] = NoNode
    BY <1>2, <1>7, <1>14, <1>15, <1>17
  <2> QED BY <2>1, <2>2, <2>3, <2>4, <2>5 DEF Places
<1>22. TailIn(own2, pos2)'
  <2>1. tail.frag # f
    BY <1>14, <1>17
  <2> QED BY <1>2, <1>12, <1>17, <1>o, <1>n, <2>1 DEF TailIn
<1>23. OnePut' /\ pc[t] \in Putting
  BY <1>2, <1>3, <1>5, OnePutKept DEF Putting
<1>24. /\ mem'[tail.frag].frag = mem[tail.frag].frag
       /\ mem'[head.frag].frag = mem[head.frag].frag
  BY <1>17, <1>18
<1> QED
  BY ONLY <1>2, <1>3, <1>5, <1>9, <1>10, <1>11, <1>19, <1>21, <1>22, <1>23,
          <1>24, t \in Thread, Assemble

\* The compare-and-swap of a link.  As no other call of mempool_free is in
\* progress, the tail that it has read is the last fragment of the list.
LEMMA StepPutLink ==
  ASSUME IndInv, NEW t \in Thread, PutLink(t)
  PROVE  IndInv'
<1> DEFINE T == reg[t].tail.frag
           f == reg[t].frag
           r == reg[t]
<1>1. /\ pc[t] = "put_link" /\ user' = user /\ reg' = reg /\ calls' = calls
      /\ head' = head /\ tail' = tail /\ freeable' = freeable
      /\ overlap' = overlap
  BY DEF PutLink
<1>2. /\ TypeInv /\ CountInv /\ Layout /\ OnePut /\ \A u \in Thread : Seen(u)
  BY Zenon DEF IndInv
<1>3. /\ f \in Frag /\ T \in Frag /\ r \in Reg /\ Pointers(pc[t], r)
      /\ reg[t].next = NoNode /\ reg[t].tail = tail
  <2>1. Pointers(pc[t], reg[t]) /\ r \in Reg /\ Seen(t)
    BY Facts
  <2>2. reg[t].next = NoNode /\ reg[t].tail = tail
    BY <1>1, <2>1 DEF Seen, PutSeen
  <2> QED BY <1>1, <2>1, <2>2 DEF Pointers, Unlinked, TailRead, PutRead
<1>4. CASE Goto(t, "put_tail") /\ UNCHANGED mem
  <2> DEFINE l == "put_tail"
  <2>1. Local(t, l, r)
    BY <1>1, <1>2, <1>4, LocalSame
  <2>2. pc'[t] = l
    BY <1>2, <2>1, LocalMeans
  <2>3. l \in Label /\ Pointers(l, r)
    BY <1>3 DEF Pointers, Label, Putting, HeadRead, TailRead, PutRead, Unlinked, Linked,
                Holding
  <2>4. Seen(t)'
    BY <2>2 DEF Seen, TailSeen, HeadSeen, PutSeen, PickSeen, TailRead, PutRead,
                HeadRead
  <2>5. /\ l \in Unlinked <=> pc[t] \in Unlinked
        /\ l \in Holding <=> pc[t] \in Holding
        /\ l \in Picking <=> pc[t] \in Picking
        /\ l \in Putting <=> pc[t] \in Putting
        /\ pc[t] # "idle"
    BY <1>1 DEF Unlinked, Linked, Holding, Picking, Putting, HeadRead
  <2>6. UNCHANGED <<mem, head, tail, freeable, user, calls, overlap>>
    BY <1>1, <1>4
  <2> QED BY <1>3, <2>1, <2>3, <2>4, <2>5, <2>6, LocalStep
<1>5. CASE /\ mem[T] = NoNode
           /\ mem' = [mem EXCEPT ![T] = NodeOf(mem[T].count + 1, f)]
           /\ Goto(t, "put_end")
  <2> DEFINE l == "put_end"
  <2>1. Local(t, l, r)
    BY <1>1, <1>2, <1>5, LocalSame
  <2>2. /\ pc'[t] = l /\ reg'[t] = reg[t]
        /\ \A u \in Thread \ {t} : pc'[u] = pc[u] /\ reg'[u] = reg[u]
        /\ \A u \in Thread : reg'[u] = reg[u]
    BY <1>1, <1>2, <2>1, LocalMeans
  <2>3. l \in Label /\ Pointers(l, r)
    BY <1>1, <1>3
       DEF Pointers, Label, Putting, HeadRead, TailRead, PutRead, Unlinked, Linked,
           Holding
  <2>4. /\ NodeOf(mem[T].count + 1, f) \in Node
        /\ NodeOf(mem[T].count + 1, f).frag = f
        /\ NodeOf(mem[T].count + 1, f).count = 1
    <3>1. mem[T].count + 1 = 1
      BY <1>5, NoNodeType
    <3>2. 1 < CountMod /\ 1 \in Nat
      BY MemPoolAssumption
    <3> QED BY <1>3, <3>1, <3>2, NodeType
  <2>5. /\ mem' \in [Frag -> Node] /\ mem'[T].frag = f /\ mem'[T].count = 1
        /\ \A g \in Frag \ {T} : mem'[g] = mem[g]
    <3>1. mem \in [Frag -> Node]
      BY <1>2, TypesStay
    <3> HIDE DEF T, f
    <3> QED BY <1>3, <1>5, <2>4, <3>1
  <2>6. TypeInv'
    BY <1>1, <1>2, <1>3, <2>1, <2>3, <2>5, TypeKept, TypesStay DEF CallsType
  <2>7. CountInv'
    <3>1. SameCounts
      BY <1>1, <2>2
         DEF SameCounts, Picking, HeadRead, Putting, Unlinked, Linked
    <3> QED BY <1>2, <3>1, CountKept
  <2>8. Seen(t)'
    <3>1. TailSeen(t)
      BY <1>2 DEF Seen
    <3>2. TailSeen(t)'
      BY <1>1, <2>2, <3>1 DEF TailSeen, TailRead, PutRead
    <3>3. PutSeen(t)'
      BY <1>1, <2>2, <2>5 DEF PutSeen
    <3> QED BY <2>2, <3>2, <3>3 DEF Seen, HeadSeen, PickSeen, HeadRead
  <2>9. PICK own, pos : /\ Chains(own, pos) /\ Places(own)
                        /\ TailIn(own, pos)
    BY <1>2, Zenon DEF Layout
  <2>10. t \in Putters /\ t \in Thread
    BY <1>1 DEF Putters, Unlinked
  <2>11. /\ own \in [Frag -> Frag \cup {Null}] /\ pos \in [Frag -> Nat]
         /\ \A g \in Frag : own[g] # Null => First(own[g])
         /\ \A g \in Frag : First(g) => own[g] = g /\ pos[g] = 0
         /\ Null \notin Frag /\ head.frag \in Frag /\ tail.frag \in Frag
         /\ own[tail.frag] = head.frag
         /\ own[f] = f /\ pos[f] = 0 /\ First(f)
    <3>1. First(f)
      BY <2>10 DEF First
    <3> QED BY <1>2, <2>9, <2>10, <3>1, LayoutFacts
  <2>12. /\ \A g \in Frag : own[g] = Null =>
              g \in user \/ \E u \in Thread : Holds(u, g)
         /\ \A g \in user : own[g] = Null /\ \A u \in Thread : ~ Holds(u, g)
         /\ \A u \in Thread, g \in Frag : Holds(u, g) => own[g] = Null
         /\ \A u, v \in Thread, g \in Frag : Holds(u, g) /\ Holds(v, g) => u = v
         /\ \A u \in Putters : reg[u].frag # head.frag
    BY <2>9, PlacesIs
  <2>13. own[T] # Null /\ own[T] \in Frag /\ own[T] # f
    BY <1>3, <2>10, <2>11, <2>12
  <2>14. f # head.frag /\ Putters = {t}
    <3>1. \A u \in Thread \ {t} : pc[u] \notin Unlinked
      BY <1>1, <1>2 DEF OnePut, Putting, Unlinked
    <3> QED BY <2>10, <2>12, <3>1 DEF Putters
  <2> HIDE DEF T, f
  <2>15. PICK own2, pos2 :
           /\ own2 \in [Frag -> Frag \cup {Null}] /\ pos2 \in [Frag -> Nat]
           /\ \A g \in Frag : IF own[g] = f
                              THEN /\ own2[g] = own[T]
                                   /\ pos2[g] = pos[g] + pos[T] + 1
                              ELSE own2[g] = own[g] /\ pos2[g] = pos[g]
    <3> DEFINE o == [g \in Frag |-> IF own[g] = f THEN own[T] ELSE own[g]]
               p == [g \in Frag |-> IF own[g] = f THEN pos[g] + pos[T] + 1
                                    ELSE pos[g]]
    <3>1. /\ o \in [Frag -> Frag \cup {Null}] /\ p \in [Frag -> Nat]
          /\ \A g \in Frag : IF own[g] = f
                             THEN o[g] = own[T] /\ p[g] = pos[g] + pos[T] + 1
                             ELSE o[g] = own[g] /\ p[g] = pos[g]
      BY <1>3, <2>11
    <3> HIDE DEF o, p
    <3> QED BY <3>1
  <2>16. Putters' = {}
    BY <2>2, <2>14 DEF Putters, Unlinked
  <2>17. \A g : First(g)' <=> (First(g) /\ g # f)
    <3>1. \A g : First(g)' <=> g = head.frag
      BY <1>1, <2>16 DEF First
    <3>2. reg[t].frag = f
      BY DEF f
    <3> QED BY <2>14, <3>1, <3>2 DEF First
  <2>18. \A g \in Frag : own[g] # Null =>
            \/ mem[g] = NoNode
            \/ /\ mem[g].count # 0 /\ mem[g].frag \in Frag
               /\ own[mem[g].frag] = own[g] /\ pos[mem[g].frag] = pos[g] + 1
    BY <2>9 DEF Chains
  <2>19. \A g, h \in Frag :
            own[g] # Null /\ own[g] = own[h] /\ pos[g] = pos[h] => g = h
    BY <2>9 DEF Chains
  <2>20. pos[T] \in Nat /\ f # Null /\ mem[T].frag = Null
    BY <1>3, <1>5, <2>11, NoNodeType
  <2>21. Chains(own2, pos2)'
    <3>1. \A g \in Frag : own2[g] # Null => First(own2[g])'
      BY <1>3, <2>11, <2>13, <2>15, <2>17
    <3>2. \A g \in Frag : First(g)' => own2[g] = g /\ pos2[g] = 0
      BY <2>11, <2>15, <2>17
    <3>3. \A g \in Frag : own2[g] # Null /\ pos2[g] # 0 =>
            \E e \in Frag : own2[e] = own2[g] /\ mem'[e].frag = g
      <4> SUFFICES ASSUME NEW g \in Frag, own2[g] # Null, pos2[g] # 0
                   PROVE  \E e \in Frag : own2[e] = own2[g] /\ mem'[e].frag = g
        OBVIOUS
      <4>1. CASE g = f
        <5>1. own2[g] = own[T] /\ own2[T] = own[T]
          BY <1>3, <2>11, <2>13, <2>15, <4>1
        <5> QED BY <1>3, <2>5, <4>1, <5>1
      <4>2. CASE g # f
        <5>1. own[g] # Null /\ pos[g] # 0
          <6>1. CASE own[g] = f
            <7>1. pos[g] # 0
              BY <1>3, <2>11, <2>19, <2>20, <4>2, <6>1
            <7> QED BY <2>20, <6>1, <7>1
          <6>2. CASE own[g] # f
            BY <2>15, <6>2
          <6> QED BY <6>1, <6>2
        <5>2. PICK e \in Frag : own[e] = own[g] /\ mem[e].frag = g
          BY <2>9, <5>1 DEF Chains
        <5>3. e # T
          BY <2>11, <2>20, <5>2
        <5>4. mem'[e].frag = g /\ own2[e] = own2[g]
          BY <2>5, <2>15, <5>2, <5>3
        <5> QED BY <5>4
      <4> QED BY <4>1, <4>2
    <3>4. \A g \in Frag : own2[g] # Null =>
            \/ mem'[g] = NoNode
            \/ /\ mem'[g].count # 0 /\ mem'[g].frag \in Frag
               /\ own2[mem'[g].frag] = own2[g]
               /\ pos2[mem'[g].frag] = pos2[g] + 1
      <4> SUFFICES ASSUME NEW g \in Frag, own2[g] # Null
                   PROVE  \/ mem'[g] = NoNode
                          \/ /\ mem'[g].count # 0 /\ mem'[g].frag \in Frag
                             /\ own2[mem'[g].frag] = own2[g]
                             /\ pos2[mem'[g].frag] = pos2[g] + 1
        OBVIOUS
      <4>1. CASE g = T
        <5>1. own2[f] = own[T] /\ own2[T] = own[T]
          BY <1>3, <2>11, <2>13, <2>15
        <5>2. pos2[f] = pos[T] + 1 /\ pos2[T] = pos[T]
          BY <1>3, <2>11, <2>13, <2>15, <2>20
        <5> QED BY <1>3, <2>5, <4>1, <5>1, <5>2
      <4>2. CASE g # T
        <5>1. mem'[g] = mem[g]
          BY <2>5, <4>2
        <5>2. own[g] # Null
          BY <2>15, <2>20
        <5>3. CASE mem[g] = NoNode
          BY <5>1, <5>3
        <5>4. CASE /\ mem[g].count # 0 /\ mem[g].frag \in Frag
                   /\ own[mem[g].frag] = own[g]
                   /\ pos[mem[g].frag] = pos[g] + 1
          <6> DEFINE h == mem[g].frag
          <6>1. h \in Frag /\ own[h] = own[g] /\ pos[h] = pos[g] + 1
            BY <5>4
          <6> HIDE DEF h
          <6>2. pos[g] \in Nat
            BY <2>11
          <6>3. own2[h] = own2[g] /\ pos2[h] = pos2[g] + 1
            BY <2>15, <2>20, <6>1, <6>2
          <6> QED BY <5>1, <5>4, <6>3 DEF h
        <5> QED BY <2>18, <5>2, <5>3, <5>4
      <4> QED BY <4>1, <4>2
    <3>5. \A g, h \in Frag :
            own2[g] # Null /\ own2[g] = own2[h] /\ pos2[g] = pos2[h] => g = h
      <4>1. ASSUME NEW g \in Frag, NEW h \in Frag, own[g] = f, own[h] = own[T],
                   pos2[g] = pos2[h]
            PROVE  FALSE
        <5>1. pos2[g] = pos[g] + pos[T] + 1 /\ pos2[h] = pos[h]
          BY <2>13, <2>15, <4>1
        <5>2. pos[g] \in Nat /\ pos[h] \in Nat
          BY <2>11
        <5>x. pos[h] = pos[g] + pos[T] + 1
          BY ONLY <4>1, <5>1
        <5>3. pos[h] > pos[T]
          <6>1. pos[T] \in Nat
            BY <2>20
          <6> QED BY ONLY <5>x, <5>2, <6>1
        <5>4. mem[T].frag # Null
          BY <1>2, <1>3, <2>9, <2>13, <4>1, <5>3, Follow
        <5> QED BY <2>20, <5>4
      <4> SUFFICES ASSUME NEW g \in Frag, NEW h \in Frag, own2[g] # Null,
                          own2[g] = own2[h], pos2[g] = pos2[h]
                   PROVE  g = h
        OBVIOUS
      <4>2. pos[g] \in Nat /\ pos[h] \in Nat
        BY <2>11
      <4>3. CASE own[g] = f /\ own[h] = f
        <5>1. pos[g] = pos[h]
          BY <2>15, <2>20, <4>2, <4>3
        <5> QED BY <2>19, <2>20, <4>3, <5>1
      <4>4. CASE own[g] # f /\ own[h] # f
        BY <2>15, <2>19, <4>4
      <4>5. CASE own[g] = f /\ own[h] # f
        BY <2>15, <4>1, <4>5
      <4>6. CASE own[g] # f /\ own[h] = f
        BY <2>15, <4>1, <4>6
      <4> QED BY <4>3, <4>4, <4>5, <4>6
    <3> QED BY <2>15, <3>1, <3>2, <3>3, <3>4, <3>5 DEF Chains
  <2>22. \A u \in Thread : \A g : Holds(u, g)' <=> Holds(u, g)
    BY <1>1, <2>2 DEF Holds, Holding
  <2>23. \A g \in Frag : own2[g] = Null <=> own[g] = Null
    BY <2>13, <2>15, <2>20
  <2>24. Places(own2)'
    <3>1. \A g \in Frag : own2[g] = Null =>
            g \in user' \/ \E u \in Thread : Holds(u, g)'
      BY <1>1, <2>12, <2>22, <2>23
    <3>2. \A g \in user' : own2[g] = Null /\ \A u \in Thread : ~ Holds(u, g)'
      <4>1. user \subseteq Frag
        BY <1>2, TypesStay
      <4> QED BY <1>1, <2>12, <2>22, <2>23, <4>1
    <3>3. \A u \in Thread, g \in Frag : Holds(u, g)' => own2[g] = Null
      BY <2>12, <2>22, <2>23
    <3>4. \A u, v \in Thread, g \in Frag : Holds(u, g)' /\ Holds(v, g)' => u = v
      BY <2>12, <2>22
    <3> QED BY <2>16, <3>1, <3>2, <3>3, <3>4 DEF Places
  <2>25. TailIn(own2, pos2)'
    BY <1>1, <2>9, <2>11, <2>14, <2>15 DEF TailIn
  <2>26. OnePut' /\ pc[t] \in Putting
    <3>1. pc[t] \in Putting
      BY <1>1 DEF Putting, Unlinked
    <3> QED BY <1>2, <2>2, <3>1, OnePutKept
  <2>27. /\ \/ mem[tail.frag].frag = Null
            \/ mem'[tail.frag].frag = mem[tail.frag].frag
         /\ \/ mem[head.frag].frag = Null
            \/ mem'[head.frag].frag = mem[head.frag].frag
    BY <2>5, <2>11, <2>20
  <2> QED
    BY ONLY <1>1, <1>2, <2>2, <2>6, <2>7, <2>8, <2>21, <2>24, <2>25, <2>26,
            <2>27, t \in Thread, Assemble
<1> QED BY <1>3, <1>4, <1>5 DEF PutLink


\* The list after mempool_alloc has taken its dummy.
LEMMA TakeLayout ==
  ASSUME TypeInv, NEW t \in Thread, pc[t] = "pick_take",
         NEW own, NEW pos, Chains(own, pos), Places(own), TailIn(own, pos),
         mem' = mem, tail' = tail, user' = user,
         NEW h, h = head.frag, NEW n \in Frag, n = mem[h].frag,
         tail.frag # h, head'.frag = n, head'.count = head.count + 1,
         pc'[t] = "pick_count", reg'[t].frag = h,
         \A u \in Thread \ {t} : pc'[u] = pc[u] /\ reg'[u] = reg[u]
  PROVE  Layout'
<1>1. /\ own \in [Frag -> Frag \cup {Null}] /\ pos \in [Frag -> Nat]
      /\ \A g \in Frag : own[g] # Null => First(own[g])
      /\ \A g \in Frag : First(g) => own[g] = g /\ pos[g] = 0
      /\ Null \notin Frag /\ h \in Frag /\ tail.frag \in Frag
      /\ own[h] = h /\ pos[h] = 0 /\ own[tail.frag] = h /\ h # Null
  BY LayoutFacts
<1>2. own[n] = h /\ pos[n] = 1 /\ n # h
  <2>1. n # Null
    BY <1>1
  <2>2. mem[h] # NoNode /\ own[n] = h /\ pos[n] = pos[h] + 1
    BY <1>1, <2>1, Follow
  <2> QED BY <1>1, <2>2
<1>3. /\ \A g \in Frag : own[g] # Null /\ pos[g] # 0 =>
           \E e \in Frag : own[e] = own[g] /\ mem[e].frag = g
      /\ \A g \in Frag : own[g] # Null =>
           \/ mem[g] = NoNode
           \/ /\ mem[g].count # 0 /\ mem[g].frag \in Frag
              /\ own[mem[g].frag] = own[g] /\ pos[mem[g].frag] = pos[g] + 1
      /\ \A g, k \in Frag :
           own[g] # Null /\ own[g] = own[k] /\ pos[g] = pos[k] => g = k
  BY DEF Chains
<1>4. /\ \A g \in Frag : own[g] = Null =>
           g \in user \/ \E u \in Thread : Holds(u, g)
      /\ \A g \in user : own[g] = Null /\ \A u \in Thread : ~ Holds(u, g)
      /\ \A u \in Thread, g \in Frag : Holds(u, g) => own[g] = Null
      /\ \A u, v \in Thread, g \in Frag : Holds(u, g) /\ Holds(v, g) => u = v
      /\ \A u \in Putters : reg[u].frag # h /\ mem[reg[u].frag] = NoNode
  BY PlacesIs
<1>5. PICK own2, pos2 :
        /\ own2 \in [Frag -> Frag \cup {Null}] /\ pos2 \in [Frag -> Nat]
        /\ own2[h] = Null
        /\ \A g \in Frag \ {h} :
             IF own[g] = h THEN own2[g] = n /\ pos2[g] = pos[g] - 1
             ELSE own2[g] = own[g] /\ pos2[g] = pos[g]
  <2> DEFINE o == [g \in Frag |-> IF g = h THEN Null
                                  ELSE IF own[g] = h THEN n ELSE own[g]]
             p == [g \in Frag |-> IF own[g] = h /\ g # h THEN pos[g] - 1
                                  ELSE pos[g]]
  <2>1. \A g \in Frag \ {h} : own[g] = h => pos[g] # 0
    BY <1>1, <1>3
  <2>2. o \in [Frag -> Frag \cup {Null}] /\ p \in [Frag -> Nat]
    BY <1>1, <2>1
  <2>3. /\ o[h] = Null
        /\ \A g \in Frag \ {h} :
             IF own[g] = h THEN o[g] = n /\ p[g] = pos[g] - 1
             ELSE o[g] = own[g] /\ p[g] = pos[g]
    BY <1>1
  <2> HIDE DEF o, p
  <2> QED BY <2>2, <2>3
<1>6. \A g \in Frag \ {h} : own[g] = h => pos[g] \in Nat /\ pos[g] # 0
  BY <1>1, <1>3
<1>7. \A g \in Frag : own[g] # n
  BY <1>1, <1>2
<1>8. /\ Putters' = Putters /\ \A u \in Putters : reg'[u].frag = reg[u].frag
      /\ \A u \in Putters : reg[u].frag # n
  <2>1. \A u \in Putters : u # t /\ u \in Thread /\ First(reg[u].frag)
    BY DEF Putters, Unlinked, First
  <2>2. \A u \in Putters : reg[u].frag # n
    BY <1>1, <1>2, <2>1
  <2> QED BY <2>1, <2>2 DEF Putters, Unlinked
<1>9. \A g : First(g)' <=> (g = n \/ (First(g) /\ g # h))
  BY <1>4, <1>8 DEF First
<1>10. Chains(own2, pos2)'
  <2>1. \A g \in Frag : own2[g] # Null => First(own2[g])'
    BY <1>1, <1>5, <1>9
  <2>2. \A g \in Frag : First(g)' => own2[g] = g /\ pos2[g] = 0
    <3>1. own2[n] = n /\ pos2[n] = 0
      BY <1>2, <1>5
    <3> QED BY <1>1, <1>5, <1>9, <3>1
  <2>3. \A g \in Frag : own2[g] # Null /\ pos2[g] # 0 =>
          \E e \in Frag : own2[e] = own2[g] /\ mem[e].frag = g
    <3> SUFFICES ASSUME NEW g \in Frag, own2[g] # Null, pos2[g] # 0
                 PROVE  \E e \in Frag : own2[e] = own2[g] /\ mem[e].frag = g
      OBVIOUS
    <3>1. g # h
      BY <1>5
    <3>2. own[g] # Null /\ pos[g] # 0
      BY <1>1, <1>5, <1>6, <3>1
    <3>3. PICK e \in Frag : own[e] = own[g] /\ mem[e].frag = g
      BY <1>3, <3>2
    <3>4. e # h
      <4>1. CASE own[g] = h
        <5>1. g # n
          BY <1>2, <1>5, <3>1, <4>1
        <5> QED BY <3>3, <5>1
      <4>2. CASE own[g] # h
        BY <1>1, <3>3, <4>2
      <4> QED BY <4>1, <4>2
    <3>5. own2[e] = own2[g]
      BY <1>5, <3>1, <3>3, <3>4
    <3> QED BY <3>3, <3>5
  <2>4. \A g \in Frag : own2[g] # Null =>
          \/ mem[g] = NoNode
          \/ /\ mem[g].count # 0 /\ mem[g].frag \in Frag
             /\ own2[mem[g].frag] = own2[g]
             /\ pos2[mem[g].frag] = pos2[g] + 1
    <3> SUFFICES ASSUME NEW g \in Frag, own2[g] # Null, mem[g] # NoNode
                 PROVE  /\ mem[g].count # 0 /\ mem[g].frag \in Frag
                        /\ own2[mem[g].frag] = own2[g]
                        /\ pos2[mem[g].frag] = pos2[g] + 1
      OBVIOUS
    <3>1. g # h
      BY <1>5
    <3>2. own[g] # Null
      BY <1>1, <1>5, <3>1
    <3>3. /\ mem[g].count # 0 /\ mem[g].frag \in Frag
          /\ own[mem[g].frag] = own[g] /\ pos[mem[g].frag] = pos[g] + 1
      BY <1>3, <3>2
    <3> DEFINE k == mem[g].frag
    <3>4. k \in Frag /\ own[k] = own[g] /\ pos[k] = pos[g] + 1
      BY <3>3
    <3> HIDE DEF k
    <3>5. pos[g] \in Nat
      BY <1>1
    <3>6. k # h
      BY <1>1, <3>4, <3>5
    <3>7. own2[k] = own2[g] /\ pos2[k] = pos2[g] + 1
      BY <1>5, <3>1, <3>4, <3>5, <3>6
    <3> QED BY <3>3, <3>7 DEF k
  <2>5. \A g, k \in Frag :
          own2[g] # Null /\ own2[g] = own2[k] /\ pos2[g] = pos2[k] => g = k
    <3> SUFFICES ASSUME NEW g \in Frag, NEW k \in Frag, own2[g] # Null,
                        own2[g] = own2[k], pos2[g] = pos2[k]
                 PROVE  g = k
      OBVIOUS
    <3>1. g # h /\ k # h
      BY <1>5
    <3>2. own[g] = own[k] /\ own[g] # Null
      BY <1>1, <1>5, <1>7, <3>1
    <3>3. pos[g] \in Nat /\ pos[k] \in Nat
      BY <1>1
    <3>4. pos[g] = pos[k]
      BY <1>5, <3>1, <3>2, <3>3
    <3> QED BY <1>3, <3>2, <3>4
  <2> QED BY <1>5, <2>1, <2>2, <2>3, <2>4, <2>5 DEF Chains
<1>11. \A u \in Thread : \A g :
         Holds(u, g)' <=> (u = t /\ g = h) \/ (u # t /\ Holds(u, g))
  BY DEF Holds, Holding
<1>12. \A g : ~ Holds(t, g)
  BY DEF Holds, Holding
<1>13. \A g \in Frag : own2[g] = Null <=> own[g] = Null \/ g = h
  BY <1>1, <1>5
<1>14. Places(own2)'
  <2>0. user \subseteq Frag
    BY TypesStay
  <2>1. \A g \in Frag : own2[g] = Null =>
          g \in user \/ \E u \in Thread : Holds(u, g)'
    BY <1>4, <1>11, <1>12, <1>13
  <2>2. \A g \in user : own2[g] = Null /\ \A u \in Thread : ~ Holds(u, g)'
    BY <1>1, <1>4, <1>11, <1>13, <2>0
  <2>3. \A u \in Thread, g \in Frag : Holds(u, g)' => own2[g] = Null
    BY <1>4, <1>11, <1>13
  <2>4. \A u, v \in Thread, g \in Frag : Holds(u, g)' /\ Holds(v, g)' => u = v
    BY <1>1, <1>4, <1>11
  <2>5. \A u \in Putters' : reg'[u].frag # head'.frag
                            /\ mem[reg'[u].frag] = NoNode
    BY <1>4, <1>8
  <2> QED BY <2>1, <2>2, <2>3, <2>4, <2>5 DEF Places
<1>15. TailIn(own2, pos2)'
  <2>1. own2[tail.frag] = n /\ pos2[tail.frag] = pos[tail.frag] - 1
    BY <1>1, <1>5
  <2>2. tail.count = head.count + pos[tail.frag]
    BY DEF TailIn
  <2>3. head.count \in Nat /\ pos[tail.frag] \in Nat
    BY <1>1, NodeIs, TypesStay
  <2>4. tail.count = head'.count + pos2[tail.frag]
    <3>1. PICK c \in Nat : c = head.count
      BY <2>3
    <3>2. head'.count = c + 1 /\ tail.count = c + pos[tail.frag]
      BY <2>2, <3>1
    <3> QED BY <2>1, <2>3, <3>1, <3>2
  <2> QED BY <2>1, <2>4 DEF TailIn
<1> QED BY <1>10, <1>14, <1>15 DEF Layout

LEMMA StepPickTake ==
  ASSUME NoWrap, IndInv, NEW t \in Thread, PickTake(t)
  PROVE  IndInv'
<1> DEFINE h == head.frag
           n == reg[t].next.frag
<1>1. /\ pc[t] = "pick_take" /\ mem' = mem /\ tail' = tail
      /\ freeable' = freeable /\ user' = user /\ calls' = calls
      /\ overlap' = overlap
      /\ overlap' = overlap
  BY DEF PickTake
<1>2. /\ TypeInv /\ CountInv /\ Layout /\ OnePut /\ \A u \in Thread : Seen(u)
  BY Zenon DEF IndInv
<1>3. /\ reg[t] \in Reg /\ Pointers(pc[t], reg[t]) /\ h \in Frag /\ Seen(t)
  BY Facts
<1>4. CASE Goto(t, "pick_head") /\ UNCHANGED <<head, reg>>
  <2> DEFINE l == "pick_head"
             r == reg[t]
  <2>1. Local(t, l, r)
    BY <1>2, <1>4, LocalSame
  <2>2. pc'[t] = l
    BY <1>2, <2>1, LocalMeans
  <2>3. l \in Label /\ Pointers(l, r)
    BY DEF Pointers, Label, HeadRead, TailRead, PutRead, Unlinked, Linked,
           Holding
  <2>4. Seen(t)'
    BY <2>2, StartSeen
  <2>5. /\ l \in Unlinked <=> pc[t] \in Unlinked
        /\ l \in Holding <=> pc[t] \in Holding
        /\ l \in Picking <=> pc[t] \in Picking
        /\ l \in Putting <=> pc[t] \in Putting
        /\ pc[t] # "idle"
    BY <1>1 DEF Unlinked, Linked, Holding, Picking, Putting, HeadRead
  <2>6. UNCHANGED <<mem, head, tail, freeable, user, calls, overlap>>
    BY <1>1, <1>4
  <2> QED BY <1>3, <2>1, <2>3, <2>4, <2>5, <2>6, LocalStep
<1>5. CASE /\ head = reg[t].head
           /\ head' = NodeOf(head.count + 1, n)
           /\ reg' = [reg EXCEPT ![t].frag = h]
           /\ Goto(t, "pick_count")
  <2> DEFINE l == "pick_count"
             r == [reg[t] EXCEPT !.frag = h]
  <2>1. Local(t, l, r)
    BY <1>5 DEF Local, Goto
  <2>2. r \in Reg /\ r.frag = h
    BY <1>3 DEF Reg
  <2> HIDE DEF r
  <2>3. /\ pc'[t] = l /\ reg'[t] = r
        /\ \A u \in Thread \ {t} : pc'[u] = pc[u] /\ reg'[u] = reg[u]
    BY <1>2, <2>1, LocalMeans
  <2>4. l \in Label /\ Pointers(l, r)
    BY <1>3, <2>2
       DEF Pointers, Label, HeadRead, TailRead, PutRead, Unlinked, Linked,
           Holding
  <2>5. n \in Frag /\ n = mem[h].frag /\ tail.frag # h
    <3>1. PickSeen(t)
      BY <1>3 DEF Seen
    <3> QED BY <1>1, <1>5, <3>1 DEF PickSeen
  <2> HIDE DEF n, h
  <2>6. /\ head.count \in Nat /\ head.count + 1 < CountMod
        /\ head.count + 1 \in Nat
    BY <1>2, HeadBound, TypesStay DEF CountInv
  <2>7. /\ head' \in Node /\ head'.frag = n /\ head'.count = head.count + 1
        /\ head'.frag \in Frag
    BY <1>5, <2>5, <2>6, NodeType
  <2>8. TypeInv'
    BY <1>1, <1>2, <2>1, <2>2, <2>4, <2>7, TypeKept, TypesStay DEF CallsType
  <2>9. TakenInv'
    <3>1. calls[t] \in 1 .. MaxCalls[t]
      <4>1. calls[t] \in Nat /\ calls[t] <= MaxCalls[t] /\ calls[t] >= 1
        BY <1>1, <1>2, TypesStay DEF CountInv, CallsType
      <4>2. MaxCalls[t] \in Nat
        BY MemPoolAssumption
      <4> QED BY <4>1, <4>2
    <3>2. pc[t] \in Picking /\ pc'[t] \notin Picking
      BY <1>1, <2>3 DEF Picking, HeadRead
    <3> QED BY <1>1, <1>2, <2>3, <2>6, <2>7, <3>1, <3>2, TakenStep DEF CountInv
  <2>10. FreeableInv'
    <3>1. \A u \in Thread : pc'[u] \in Putting <=> pc[u] \in Putting
      BY <1>1, <2>3 DEF Putting, Unlinked, Linked
    <3>2. {u \in Thread : pc'[u] \in Putting}
            = {u \in Thread : pc[u] \in Putting}
      BY <3>1
    <3> QED BY <1>1, <1>2, <3>2, Zenon DEF FreeableInv, CountInv
  <2>11. CountInv'
    <3>1. \A u \in Thread : pc'[u] # "idle" => calls'[u] >= 1
      BY <1>1, <1>2, <2>3 DEF CountInv
    <3> QED BY <2>9, <2>10, <3>1, CountParts
  <2>12. Seen(t)'
    BY <2>3, StartSeen
  <2>13. Layout'
    <3>1. PICK own, pos : /\ Chains(own, pos) /\ Places(own)
                          /\ TailIn(own, pos)
      BY <1>2, Zenon DEF Layout
    <3>2. reg'[t].frag = h /\ h = head.frag
      BY <2>2, <2>3 DEF h
    <3> QED BY <1>1, <1>2, <2>3, <2>5, <2>7, <3>1, <3>2, TakeLayout
  <2>14. head'.count > head.count
    BY <2>6, <2>7
  <2>15. PICK own, pos : /\ Chains(own, pos)' /\ Places(own)'
                         /\ TailIn(own, pos)'
    BY <2>13, Zenon DEF Layout
  <2>16. OnePut'
    <3>1. pc'[t] \notin Putting
      BY <2>3 DEF Putting, Unlinked, Linked
    <3> QED BY <1>2, <2>3, <3>1, OnePutKept
  <2> QED
    BY ONLY <1>1, <1>2, <2>3, <2>8, <2>11, <2>12, <2>14, <2>15, <2>16,
            t \in Thread, Assemble
<1> QED BY <1>1, <1>4, <1>5 DEF PickTake

-----------------------------------------------------------------------------
\* The pool with its first k fragments allocated, the others behind each other
\* as internal_mempool_setup has linked them, and no call in progress.
FreshAt(k) ==
  /\ mem = [i \in Frag |-> IF i < k THEN NoNode ELSE Setup(i)]
  /\ head = NodeOf(k, k) /\ tail = NodeOf(Capacity, Capacity)
  /\ freeable = Capacity - k /\ user = 0 .. k - 1
  /\ pc \in [Thread -> Label] /\ reg \in [Thread -> Reg]
  /\ CallsType /\ overlap \in BOOLEAN
  /\ \A t \in Thread : pc[t] = "idle"
Fresh == \E k \in 0 .. InUse : FreshAt(k)

LEMMA SetupType ==
  ASSUME NEW k \in Nat, NEW i \in Frag
  PROVE  (IF i < k THEN NoNode ELSE Setup(i)) \in Node
<1>1. /\ Capacity \in Nat /\ 1 \in Nat
  BY MemPoolAssumption
<1>2. CASE i < Capacity
  <2>1. i + 1 \in Frag
    BY <1>1, <1>2 DEF Frag
  <2>2. NodeOf(1, i + 1) \in Node
    BY <1>1, <2>1, NodeType
  <2> QED BY <1>2, <2>2, NoNodeType DEF Setup
<1>3. CASE ~ (i < Capacity)
  BY <1>3, NoNodeType DEF Setup
<1> QED BY <1>2, <1>3

LEMMA FreshTypes ==
  ASSUME NoWrap, ~ overlap, NEW k \in 0 .. InUse, FreshAt(k)
  PROVE  /\ TypeInv /\ CountInv
         /\ head.frag = k /\ head.count = k
         /\ tail.frag = Capacity /\ tail.count = Capacity
<1>1. /\ Capacity \in Nat \ {0} /\ Capacity < CountMod /\ 0 \in Nat
      /\ k \in Nat /\ k <= Capacity /\ k <= InUse /\ InUse \in Nat
      /\ CountMod \in Nat /\ k < CountMod
      /\ Capacity \in Frag /\ k \in Frag
      /\ Capacity - k \in 0 .. SizeMod - 1
  BY MemPoolAssumption DEF Frag
<1>2. /\ head \in Node /\ head.frag = k /\ head.count = k
      /\ tail \in Node /\ tail.frag = Capacity /\ tail.count = Capacity
  BY <1>1, NodeType DEF FreshAt
<1>3. mem \in [Frag -> Node]
  BY <1>1, SetupType DEF FreshAt
<1>4. user \subseteq Frag
  BY <1>1 DEF FreshAt, Frag
<1>5. TypeOK
  BY <1>1, <1>2, <1>3, <1>4 DEF FreshAt, TypeOK, Reg, CallsType
<1>6. TypeInv
  <2>1. \A t \in Thread : /\ pc[t] \notin Holding \cup Unlinked \cup Linked
                          /\ pc[t] \notin TailRead /\ pc[t] \notin HeadRead
    BY DEF FreshAt, Holding, Unlinked, Linked, TailRead, PutRead, HeadRead
  <2> QED BY <1>5, <2>1 DEF TypeInv
<1>7. TakenInv
  <2>1. Begun \ Open \in SUBSET AllCalls
    BY DEF Begun
  <2>2. Cardinality(Begun \ Open) \in Nat
    BY <2>1, CallsFinite
  <2> QED BY <1>1, <1>2, <2>2 DEF TakenInv
<1>8. FreeableInv
  <2>1. user = 0 .. k - 1 /\ {t \in Thread : pc[t] \in Putting} = {}
    BY DEF FreshAt, Putting, Unlinked, Linked
  <2>2. Cardinality({}) = 0
    BY FS_EmptySet
  <2>3. Cardinality(0 .. k - 1) = k
    <3>1. 0 \in Int /\ k - 1 \in Int
      BY <1>1
    <3>2. Cardinality(0 .. k - 1)
            = IF 0 > k - 1 THEN 0 ELSE k - 1 - 0 + 1
      BY <3>1, FS_Interval
    <3> QED BY <1>1, <3>2
  <2>4. freeable = Capacity - k /\ SizeMod \in Int
    BY MemPoolAssumption DEF FreshAt
  <2>5. freeable + k + 0 = Capacity + 0 * SizeMod /\ 0 \in Int
    BY <1>1, <2>4
  <2> QED BY <2>1, <2>2, <2>3, <2>5 DEF FreeableInv
<1> QED BY <1>2, <1>6, <1>7, <1>8 DEF CountInv, FreshAt

LEMMA FreshInv == ASSUME NoWrap, ~ overlap, Fresh PROVE IndInv
<1> PICK k \in 0 .. InUse : FreshAt(k)
  BY DEF Fresh
<1>1. /\ TypeInv /\ CountInv
      /\ head.frag = k /\ head.count = k
      /\ tail.frag = Capacity /\ tail.count = Capacity
  BY FreshTypes
<1>2. \A t \in Thread : Seen(t)
  BY DEF FreshAt, Seen, TailSeen, HeadSeen, PutSeen, PickSeen, TailRead, PutRead,
         HeadRead
<1> DEFINE own == [f \in Frag |-> IF f < k THEN Null ELSE k]
           pos == [f \in Frag |-> IF f < k THEN 0 ELSE f - k]
<1>3. /\ Capacity \in Nat \ {0} /\ k \in Nat /\ k <= Capacity
      /\ 1 \in Nat /\ 1 < CountMod
      /\ Capacity \in Frag /\ k \in Frag /\ Null \notin Frag /\ k # Null
  BY MemPoolAssumption, FragIsNat DEF Frag
<1>4. Putters = {} /\ \A t \in Thread : \A f : ~ Holds(t, f)
  BY DEF FreshAt, Putters, Unlinked, Holds, Holding
<1>5. \A f : First(f) <=> f = k
  BY <1>1, <1>4 DEF First
<1>6. \A f \in Frag : f >= k /\ f < Capacity =>
        mem[f].frag = f + 1 /\ mem[f].count = 1 /\ f + 1 \in Frag
  <2> SUFFICES ASSUME NEW f \in Frag, f >= k, f < Capacity
               PROVE  mem[f].frag = f + 1 /\ mem[f].count = 1 /\ f + 1 \in Frag
    OBVIOUS
  <2>1. f + 1 \in Frag
    BY <1>3 DEF Frag
  <2>2. mem[f] = NodeOf(1, f + 1)
    BY <1>3 DEF FreshAt, Setup, Frag
  <2>3. NodeOf(1, f + 1).frag = f + 1 /\ NodeOf(1, f + 1).count = 1
    BY ONLY <1>3, <2>1, NodeType
  <2> QED BY ONLY <2>1, <2>2, <2>3
<1>7. mem[Capacity] = NoNode
  BY <1>3 DEF FreshAt, Setup
<1>8. \A f \in Frag : /\ own[f] = IF f < k THEN Null ELSE k
                      /\ pos[f] = IF f < k THEN 0 ELSE f - k
  OBVIOUS
<1>9. own \in [Frag -> Frag \cup {Null}] /\ pos \in [Frag -> Nat]
  BY <1>3, FragIsNat DEF Frag
<1> HIDE DEF own, pos
<1>10. Chains(own, pos)
  <2>1. \A f \in Frag : own[f] # Null => First(own[f])
    BY <1>5, <1>8
  <2>2. \A f \in Frag : First(f) => own[f] = f /\ pos[f] = 0
    BY <1>3, <1>5, <1>8
  <2>3. \A f \in Frag : own[f] # Null /\ pos[f] # 0 =>
          \E g \in Frag : own[g] = own[f] /\ mem[g].frag = f
    <3> SUFFICES ASSUME NEW f \in Frag, f > k
                 PROVE  \E g \in Frag : own[g] = own[f] /\ mem[g].frag = f
      BY <1>3, <1>8 DEF Frag
    <3>1. f - 1 \in Frag /\ f - 1 >= k /\ f - 1 < Capacity /\ f - 1 + 1 = f
      BY <1>3 DEF Frag
    <3>2. mem[f - 1].frag = f
      BY <1>6, <3>1
    <3>3. own[f - 1] = own[f]
      BY <1>3, <1>8, <3>1 DEF Frag
    <3> QED BY <3>1, <3>2, <3>3
  <2>4. \A f \in Frag : own[f] # Null =>
          \/ mem[f] = NoNode
          \/ /\ mem[f].count # 0 /\ mem[f].frag \in Frag
             /\ own[mem[f].frag] = own[f] /\ pos[mem[f].frag] = pos[f] + 1
    <3> SUFFICES ASSUME NEW f \in Frag, f >= k
                 PROVE  \/ mem[f] = NoNode
                        \/ /\ mem[f].count # 0 /\ mem[f].frag \in Frag
                           /\ own[mem[f].frag] = own[f]
                           /\ pos[mem[f].frag] = pos[f] + 1
      BY <1>3, <1>8 DEF Frag
    <3>1. CASE f < Capacity
      <4>1. mem[f].frag = f + 1 /\ mem[f].count = 1 /\ f + 1 \in Frag
        BY <1>6, <3>1
      <4>2. own[f + 1] = own[f] /\ pos[f + 1] = pos[f] + 1
        BY <1>3, <1>8, <4>1 DEF Frag
      <4> QED BY <4>1, <4>2
    <3>2. CASE ~ (f < Capacity)
      <4>1. f = Capacity
        BY <1>3, <3>2 DEF Frag
      <4> QED BY <1>7, <4>1
    <3> QED BY <3>1, <3>2
  <2>5. \A f, g \in Frag :
          own[f] # Null /\ own[f] = own[g] /\ pos[f] = pos[g] => f = g
    BY <1>3, <1>8 DEF Frag
  <2> QED BY <1>9, <2>1, <2>2, <2>3, <2>4, <2>5 DEF Chains
<1>11. Places(own)
  <2>1. user = 0 .. k - 1
    BY DEF FreshAt
  <2>2. \A f \in Frag : own[f] = Null => f \in user
    BY <1>3, <1>8, <2>1 DEF Frag
  <2>3. \A f \in user : own[f] = Null
    BY <1>3, <1>8, <2>1 DEF Frag
  <2> QED BY <1>4, <2>2, <2>3 DEF Places
<1>12. TailIn(own, pos)
  BY <1>1, <1>3, <1>8 DEF TailIn
<1>13. OnePut
  BY DEF FreshAt, OnePut, Putting, Unlinked, Linked
<1> QED BY <1>1, <1>2, <1>10, <1>11, <1>12, <1>13, Zenon DEF IndInv, Layout

LEMMA InitFresh == Init => Fresh /\ ~ overlap
<1>1. NoReg \in Reg /\ InUse \in 0 .. InUse
  BY NoRegIs, MemPoolAssumption
<1>2. \A t \in Thread : MaxCalls[t] \in Nat
  BY MemPoolAssumption
<1>3. ASSUME Init PROVE FreshAt(InUse) /\ ~ overlap
  <2>1. CallsType /\ overlap \in BOOLEAN /\ ~ overlap
    <3>1. calls = [t \in Thread |-> 0] /\ overlap = FALSE
      BY <1>3 DEF Init
    <3>2. \A t \in Thread : calls[t] = 0 /\ calls[t] <= MaxCalls[t]
      BY <1>2, <3>1
    <3>3. calls \in [Thread -> Nat]
      BY <3>1
    <3>4. CallsType
      BY <3>2, <3>3, Zenon DEF CallsType
    <3> QED BY <3>1, <3>4
  <2>2. pc \in [Thread -> Label] /\ reg \in [Thread -> Reg]
    BY <1>1, <1>3 DEF Init, Label
  <2> QED BY <1>3, <2>1, <2>2 DEF Init, FreshAt
<1> QED BY <1>1, <1>3 DEF Fresh

LEMMA StepClear ==
  ASSUME TypeInv, NEW t \in Thread, Clear(t)
  PROVE  Fresh'
<1>1. pc \in [Thread -> Label] /\ reg \in [Thread -> Reg]
  BY DEF TypeInv, TypeOK, Reg
<1>2. CallsType'
  <2>1. MaxCalls[t] \in Nat
    BY MemPoolAssumption
  <2> QED BY <2>1, TypesStay DEF Clear, CallsType
<1>3. 0 \in 0 .. InUse /\ \A i \in Frag : ~ (i < 0)
  BY MemPoolAssumption DEF Frag
<1>4. mem' = [i \in Frag |-> IF i < 0 THEN NoNode ELSE Setup(i)]
  BY <1>3 DEF Clear
<1>5. user' = 0 .. 0 - 1
  BY DEF Clear
<1>6. freeable' = Capacity - 0
  BY MemPoolAssumption DEF Clear
<1>7. FreshAt(0)'
  <2>1. /\ head' = NodeOf(0, 0) /\ tail' = NodeOf(Capacity, Capacity)
        /\ pc' = pc /\ reg' = reg /\ overlap' = overlap
        /\ \A u \in Thread : pc[u] = "idle"
    BY DEF Clear
  <2>2. overlap \in BOOLEAN
    BY TypesStay
  <2> QED BY <1>1, <1>2, <1>4, <1>5, <1>6, <2>1, <2>2 DEF FreshAt
<1> QED BY <1>3, <1>7 DEF Fresh

\* The invariant is preserved until calls of mempool_free overlap;
\* mempool_clear makes the pool fresh.
LEMMA NextInv ==
  ASSUME NoWrap, IndInv, [Next]_vars, ~ overlap'
  PROVE  IndInv' \/ Fresh'
<1>1. CASE UNCHANGED vars
  <2>1. /\ mem' = mem /\ head' = head /\ tail' = tail /\ freeable' = freeable
        /\ pc' = pc /\ reg' = reg /\ user' = user /\ calls' = calls
        /\ overlap' = overlap
    BY <1>1 DEF vars
  <2>2. TypeInv /\ CountInv /\ Layout /\ OnePut /\ \A t \in Thread : Seen(t)
    BY Zenon DEF IndInv
  <2>3. TypeInv'
    BY <2>1, <2>2 DEF TypeInv, TypeOK
  <2>4. CountInv'
    <3>1. SameCounts
      BY <2>1 DEF SameCounts
    <3> QED BY <2>2, <3>1, CountKept
  <2>5. \A t \in Thread : Seen(t)'
    BY <2>1, <2>2, Zenon DEF Seen, TailSeen, HeadSeen, PutSeen, PickSeen
  <2>6. PICK own, pos : /\ Chains(own, pos) /\ Places(own)
                        /\ TailIn(own, pos)
    BY <2>2, Zenon DEF Layout
  <2>7. SamePlaces
    BY <2>1 DEF SamePlaces
  <2>8. Chains(own, pos)' /\ Places(own)'
    BY <2>6, <2>7, ChainsKept
  <2>9. TailIn(own, pos)'
    BY <2>1, <2>6 DEF TailIn
  <2>10. Layout'
    BY <2>8, <2>9, Zenon DEF Layout
  <2>11. OnePut'
    BY <2>1, <2>2, OnePutKept
  <2> QED BY <2>3, <2>4, <2>5, <2>10, <2>11, Zenon DEF IndInv
<1>2. ASSUME NEW t \in Thread, Free(t) \/ Alloc(t)
      PROVE  IndInv'
  BY <1>2, StepFree, StepAlloc DEF Free
<1>3. ASSUME NEW t \in Thread, Put(t) PROVE IndInv'
  BY <1>3, StepPutInit, StepPutTail, StepPutNextCount, StepPutNextFrag,
     StepPutCheck, StepPutLink, StepPutSwing, StepPutEnd, StepPutCount DEF Put
<1>4. ASSUME NEW t \in Thread, Pick(t) PROVE IndInv'
  BY <1>4, StepPickHead, StepPickTail, StepPickNext, StepPickCheck,
     StepPickFail, StepPickSwing, StepPickTake, StepPickCount
     DEF Pick
<1>5. ASSUME NEW t \in Thread, Clear(t) PROVE Fresh'
  <2>1. TypeInv
    BY Zenon DEF IndInv
  <2> QED BY <1>5, <2>1, StepClear
<1>6. ASSUME NEW f \in user, NEW d \in UserData, Store(f, d) PROVE IndInv'
  <2>1. d \in Node
    BY MemPoolAssumption
  <2> QED BY <1>6, <2>1, StepStore
<1> QED BY <1>1, <1>2, <1>3, <1>4, <1>5, <1>6 DEF Next, Done

\* An overlap is not forgotten.
LEMMA OverlapStays == ASSUME overlap, [Next]_vars PROVE overlap'
<1>1. ASSUME NEW t \in Thread, Free(t) \/ Alloc(t) \/ Clear(t) PROVE overlap'
  BY <1>1 DEF Free, FreeAt, Alloc, Clear
<1>2. ASSUME NEW t \in Thread, Put(t) PROVE overlap'
  BY <1>2 DEF Put, PutInit, PutTail, PutNextCount, PutNextFrag, PutCheck, PutLink,
              PutSwing, PutEnd, PutCount
<1>3. ASSUME NEW t \in Thread, Pick(t) PROVE overlap'
  BY <1>3 DEF Pick, PickHead, PickTail, PickNext, PickCheck, PickFail, PickSwing,
              PickTake, PickCount
<1>4. CASE UNCHANGED vars
  BY <1>4 DEF vars
<1> QED BY <1>1, <1>2, <1>3, <1>4 DEF Next, Done, Store

LEMMA Inductive == ASSUME NoWrap PROVE Spec => [](overlap \/ IndInv)
<1>1. Init => Fresh /\ ~ overlap
  BY InitFresh
<1>2. IndInv /\ [Next]_vars /\ ~ overlap' => IndInv' \/ Fresh'
  BY NextInv
<1>3. Fresh /\ ~ overlap => IndInv
  BY FreshInv
<1>4. overlap /\ [Next]_vars => overlap'
  BY OverlapStays
<1> QED BY <1>1, <1>2, <1>3, <1>4, PTL DEF Spec

-----------------------------------------------------------------------------
(***************************************************************************)
(* What holds whether or not calls of mempool_free overlap: the types, and *)
(* what mempool_alloc knows when it finds the list empty.                  *)
(***************************************************************************)
\* A call at l with the local variables r, the thread's n-th, when the head is h.
KnownAt(l, r, n, h) ==
  /\ l # "idle" => n >= 1
  /\ l = "pick_count" => r.frag \in Frag
  /\ l \in {"pick_check", "pick_take"} => r.head.frag \in Frag
  /\ l \in HeadRead => /\ r.head.count <= h.count
                       /\ r.head.count = h.count => r.head = h
  /\ l = "pick_check" /\ r.head = h /\ r.next.frag = Null => r.empty
  /\ l = "pick_fail" => r.empty

BasicType ==
  /\ mem \in [Frag -> Node] /\ head \in Node /\ tail \in Node
  /\ freeable \in 0 .. SizeMod - 1 /\ user \subseteq Frag
  /\ CallsType /\ overlap \in BOOLEAN

Basic ==
  /\ BasicType /\ TakenInv
  /\ pc \in [Thread -> Label] /\ reg \in [Thread -> Reg]
  /\ \A t \in Thread : KnownAt(pc[t], reg[t], calls[t], head)

\* The list is empty when its dummy has no successor.
LEMMA LoneDummy ==
  ASSUME mem[head.frag].frag = Null, head.frag \in Frag
  PROVE  Cardinality(Chain) = 1
<1> DEFINE step(S) == S \cup ({mem[g].frag : g \in S \cap Frag} \ {Null})
           h == [k \in Frag |-> {head.frag}]
           R(e) == e = [k \in Frag |-> IF k = 0 THEN {head.frag} ELSE step(e[k - 1])]
           link == CHOOSE e : R(e)
<1>1. Capacity \in Nat /\ Capacity \in Frag
  BY MemPoolAssumption DEF Frag
<1>2. step({head.frag}) = {head.frag}
  OBVIOUS
<1>3. R(h)
  <2> SUFFICES ASSUME NEW k \in Frag
               PROVE  h[k] = IF k = 0 THEN {head.frag} ELSE step(h[k - 1])
    OBVIOUS
  <2>1. CASE k = 0
    BY <2>1
  <2>2. CASE k # 0
    <3>1. k - 1 \in Frag
      BY <1>1, <2>2 DEF Frag
    <3>2. h[k - 1] = {head.frag} /\ h[k] = {head.frag}
      BY <3>1
    <3> HIDE DEF h, step
    <3> QED BY <1>2, <2>2, <3>2
  <2> QED BY <2>1, <2>2
<1>4. R(link)
  BY <1>3
<1>5. Chain = link[Capacity]
  BY DEF Chain, From, link
<1> HIDE DEF link, h
<1>6. \A k \in Frag : link[k] = IF k = 0 THEN {head.frag} ELSE step(link[k - 1])
  BY <1>4
<1>7. \A k \in Frag : link[k] = {head.frag}
  <2> HIDE DEF step
  <2> DEFINE T == {k \in Frag : link[k] # {head.frag}}
  <2>1. SUFFICES ASSUME T # {} PROVE FALSE
    OBVIOUS
  <2>2. T \in SUBSET Nat
    BY DEF Frag
  <2>3. PICK k \in T : \A n \in T : k <= n
    BY <2>1, <2>2, NatMin
  <2>4. k \in Frag /\ k \in Nat
    BY DEF Frag
  <2>5. k # 0
    BY <1>6, <2>4
  <2>6. k - 1 \in Frag /\ ~ (k - 1 \in T)
    <3> HIDE DEF T
    <3>1. k - 1 \in Frag /\ ~ (k <= k - 1)
      BY <1>1, <2>4, <2>5 DEF Frag
    <3> QED BY <2>3, <3>1
  <2>7. link[k - 1] = {head.frag}
    BY <2>6
  <2>8. link[k] = step(link[k - 1])
    BY <1>6, <2>4, <2>5
  <2> QED BY <1>2, <2>7, <2>8
<1> QED BY <1>1, <1>5, <1>7, FS_Singleton

\* A step of one thread, which goes on at l with the local variables r.
LEMMA BasicStep ==
  ASSUME NoWrap, Basic, NEW t \in Thread, NEW l \in Label, NEW r \in Reg,
         Local(t, l, r), BasicType',
         \A u \in Thread \ {t} : calls'[u] = calls[u],
         head' = head \/ head'.count > head.count,
         KnownAt(l, r, calls'[t], head'),
         \/ TakenInv'
         \/ /\ head' = head
            /\ \/ calls'[t] = calls[t] /\ l \notin Picking
               \/ calls'[t] = calls[t] /\ pc[t] \in Picking
               \/ calls'[t] = calls[t] + 1
  PROVE  Basic'
<1>1. /\ pc \in [Thread -> Label] /\ reg \in [Thread -> Reg]
      /\ head \in Node /\ TakenInv /\ CallsType
  BY DEF Basic, BasicType
<1>2. /\ pc' \in [Thread -> Label] /\ reg' \in [Thread -> Reg]
      /\ pc'[t] = l /\ reg'[t] = r
      /\ \A u \in Thread \ {t} : pc'[u] = pc[u] /\ reg'[u] = reg[u]
  BY <1>1 DEF Local
<1>3. head' \in Node
  BY DEF BasicType
<1>4. TakenInv'
  <2>1. calls[t] \in Nat
    BY <1>1 DEF CallsType
  <2> QED BY <1>1, <1>2, <2>1, TakenKept
<1>5. ASSUME NEW u \in Thread
      PROVE  KnownAt(pc'[u], reg'[u], calls'[u], head')
  <2>1. CASE u = t
    BY <1>2, <2>1
  <2>2. CASE u # t
    <3>1. KnownAt(pc[u], reg[u], calls[u], head)
      BY DEF Basic
    <3>2. reg[u] \in Reg /\ reg[u].head \in Node
      BY <1>1 DEF Reg
    <3>3. head.count \in Nat /\ head'.count \in Nat /\ reg[u].head.count \in Nat
      BY <1>1, <1>3, <3>2, NodeIs
    <3>4. pc'[u] = pc[u] /\ reg'[u] = reg[u] /\ calls'[u] = calls[u]
      BY <1>2, <2>2
    <3>5. CASE head' = head
      BY <3>1, <3>4, <3>5
    <3>6. CASE head'.count > head.count
      <4>1. "pick_check" \in HeadRead
        BY DEF HeadRead
      <4>2. pc[u] \in HeadRead => reg[u].head.count < head'.count
        BY <3>1, <3>3, <3>6 DEF KnownAt
      <4>3. pc[u] \in HeadRead => reg[u].head # head'
        BY <3>3, <4>2
      <4> QED BY <3>1, <3>3, <3>4, <4>1, <4>2, <4>3 DEF KnownAt
    <3> QED BY <3>5, <3>6
  <2> QED BY <2>1, <2>2
<1> QED BY <1>2, <1>4, <1>5 DEF Basic

\* What Basic says of one thread.
LEMMA BasicFacts ==
  ASSUME Basic, NEW t \in Thread
  PROVE  /\ pc[t] \in Label /\ reg[t] \in Reg
         /\ KnownAt(pc[t], reg[t], calls[t], head)
         /\ reg[t].head \in Node /\ reg[t].tail \in Node
         /\ reg[t].next \in Node /\ reg[t].frag \in Frag \cup {Null}
         /\ BasicType /\ TakenInv
         /\ pc \in [Thread -> Label] /\ reg \in [Thread -> Reg]
         /\ calls[t] \in Nat
         /\ freeable \in Nat /\ SizeMod \in Nat \ {0}
BY MemPoolAssumption DEF Basic, BasicType, Reg, CallsType

\* A call of mempool_free in progress goes on, or a call ends, at l.
LEMMA BasicPut ==
  ASSUME NoWrap, Basic, NEW t \in Thread, NEW l \in Label, NEW r \in Reg,
         Local(t, l, r), BasicType', pc[t] # "idle",
         UNCHANGED <<head, calls>>, l \in Putting \cup {"idle"}
  PROVE  Basic'
<1>1. l \notin Picking /\ l \notin HeadRead /\ l # "pick_count" /\ l # "pick_fail"
      /\ l # "pick_check" /\ l # "pick_take"
  BY DEF Picking, HeadRead, Putting, Unlinked, Linked
<1>2. KnownAt(pc[t], reg[t], calls[t], head)
  BY BasicFacts
<1>3. KnownAt(l, r, calls'[t], head')
  BY <1>1, <1>2 DEF KnownAt
<1> QED BY <1>1, <1>3, BasicStep

\* A step that changes local variables only keeps the types of the others.
LEMMA BasicTypeSame ==
  ASSUME BasicType,
         UNCHANGED <<mem, head, tail, freeable, user, calls, overlap>>
  PROVE  BasicType'
BY DEF BasicType, CallsType

LEMMA SwingType ==
  ASSUME Basic, NEW t \in Thread, NEW f \in Frag \cup {Null, Junk},
         SwingTail(t, f)
  PROVE  tail' \in Node
<1>1. tail \in Node /\ tail.count + 1 \in Nat
  BY NodeIs DEF Basic, BasicType
<1>2. NodeOf(tail.count + 1, f) \in Node
  BY <1>1, NodeType
<1> QED BY <1>1, <1>2 DEF SwingTail

LEMMA BasicPutStep ==
  ASSUME NoWrap, Basic, NEW t \in Thread, Put(t)
  PROVE  Basic'
<1>1. /\ reg[t] \in Reg /\ reg[t].tail \in Node /\ reg[t].next \in Node
      /\ reg[t].frag \in Frag \cup {Null} /\ BasicType
      /\ reg \in [Thread -> Reg] /\ freeable \in Nat /\ SizeMod \in Nat \ {0}
  BY BasicFacts
<1>2. /\ mem \in [Frag -> Node] /\ tail \in Node /\ NoNode \in Node
      /\ NoReg \in Reg
  BY <1>1, NoNodeType, NoRegIs DEF BasicType
<1>3. "idle" \in Label /\ Putting \subseteq Label
  BY DEF Label
<1>4. CASE PutInit(t)
  <2>1. /\ Local(t, "put_tail", reg[t]) /\ pc[t] # "idle"
        /\ mem' \in [Frag -> Node]
        /\ UNCHANGED <<head, tail, freeable, user, calls, overlap>>
    BY <1>1, <1>2, <1>4 DEF PutInit, Local, Goto
  <2>2. BasicType' /\ "put_tail" \in Putting
    BY <1>1, <2>1 DEF BasicType, CallsType, Putting, Unlinked
  <2> QED BY <1>1, <1>3, <2>1, <2>2, BasicPut
<1>5. CASE PutTail(t)
  <2> DEFINE r == [reg[t] EXCEPT !.tail = tail]
  <2>1. /\ Local(t, "put_next_count", r) /\ pc[t] # "idle"
        /\ UNCHANGED <<mem, head, tail, freeable, user, calls, overlap>>
    BY <1>5 DEF PutTail, Local, Goto
  <2>2. r \in Reg
    BY <1>1, <1>2 DEF Reg
  <2>3. BasicType' /\ "put_next_count" \in Putting
    BY <1>1, <2>1, BasicTypeSame DEF Putting, Unlinked
  <2> QED BY <1>3, <2>1, <2>2, <2>3, BasicPut
<1>6. CASE PutNextCount(t)
  <2> DEFINE r == [reg[t] EXCEPT !.next.count = mem[reg[t].tail.frag].count]
  <2>1. /\ Local(t, "put_next_frag", r) /\ pc[t] # "idle"
        /\ reg[t].tail.frag \in Frag
        /\ UNCHANGED <<mem, head, tail, freeable, user, calls, overlap>>
    BY <1>6 DEF PutNextCount, Local, Goto
  <2>2. mem[reg[t].tail.frag] \in Node
    BY <1>2, <2>1
  <2>3. [reg[t].next EXCEPT !.count = mem[reg[t].tail.frag].count] \in Node
    BY <1>1, <2>2 DEF Node
  <2>4. r \in Reg
    BY <1>1, <2>3 DEF Reg
  <2>5. BasicType' /\ "put_next_frag" \in Putting
    BY <1>1, <2>1, BasicTypeSame DEF Putting, Unlinked
  <2> QED BY <1>3, <2>1, <2>4, <2>5, BasicPut
<1>7. CASE PutNextFrag(t)
  <2> DEFINE r == [reg[t] EXCEPT !.next.frag = mem[reg[t].tail.frag].frag]
  <2>1. /\ Local(t, "put_check", r) /\ pc[t] # "idle"
        /\ reg[t].tail.frag \in Frag
        /\ UNCHANGED <<mem, head, tail, freeable, user, calls, overlap>>
    BY <1>7 DEF PutNextFrag, Local, Goto
  <2>2. mem[reg[t].tail.frag] \in Node
    BY <1>2, <2>1
  <2>3. [reg[t].next EXCEPT !.frag = mem[reg[t].tail.frag].frag] \in Node
    BY <1>1, <2>2 DEF Node
  <2>4. r \in Reg
    BY <1>1, <2>3 DEF Reg
  <2>5. BasicType' /\ "put_check" \in Putting
    BY <1>1, <2>1, BasicTypeSame DEF Putting, Unlinked
  <2> QED BY <1>3, <2>1, <2>4, <2>5, BasicPut
<1>8. CASE PutCheck(t)
  <2> DEFINE l == IF reg[t].tail # tail THEN "put_tail"
                  ELSE IF reg[t].next.frag = Null THEN "put_link" ELSE "put_swing"
  <2>1. /\ pc' = [pc EXCEPT ![t] = l] /\ reg' = reg /\ pc[t] # "idle"
        /\ UNCHANGED <<mem, head, tail, freeable, user, calls, overlap>>
    BY <1>8 DEF PutCheck, Goto
  <2>2. l \in Putting
    BY DEF Putting, Unlinked
  <2> HIDE DEF l
  <2>3. Local(t, l, reg[t])
    BY <1>1, <2>1 DEF Local
  <2>4. BasicType'
    BY <1>1, <2>1, BasicTypeSame
  <2> QED BY <1>1, <1>3, <2>1, <2>2, <2>3, <2>4, BasicPut
<1>9. CASE PutLink(t)
  <2>1. PICK l \in {"put_end", "put_tail"} : pc' = [pc EXCEPT ![t] = l]
    BY <1>9 DEF PutLink, Goto
  <2>2. /\ reg' = reg /\ pc[t] # "idle"
        /\ UNCHANGED <<head, tail, freeable, user, calls, overlap>>
    BY <1>9 DEF PutLink
  <2>3. mem' \in [Frag -> Node]
    <3> DEFINE f == reg[t].tail.frag
    <3>1. CASE f \in Frag
      <4>1. mem[f].count + 1 \in Nat
        BY <1>2, <3>1, NodeIs
      <4>2. NodeOf(mem[f].count + 1, reg[t].frag) \in Node
        BY <1>1, <4>1, NodeType
      <4> QED BY <1>2, <1>9, <4>2 DEF PutLink
    <3>2. CASE f \notin Frag
      BY <1>2, <1>9, <3>2 DEF PutLink
    <3> QED BY <3>1, <3>2
  <2>4. BasicType' /\ l \in Putting
    BY <1>1, <2>2, <2>3 DEF BasicType, CallsType, Putting, Unlinked, Linked
  <2>5. Local(t, l, reg[t])
    BY <1>1, <2>1, <2>2 DEF Local
  <2> QED BY <1>1, <1>3, <2>2, <2>4, <2>5, BasicPut
<1>10. CASE PutSwing(t)
  <2>1. /\ Local(t, "put_tail", reg[t]) /\ pc[t] # "idle"
        /\ SwingTail(t, reg[t].next.frag)
        /\ UNCHANGED <<mem, head, freeable, user, calls, overlap>>
    BY <1>1, <1>10 DEF PutSwing, Local, Goto
  <2>2. tail' \in Node
    BY <1>1, <2>1, SwingType, NodeIs
  <2>3. BasicType' /\ "put_tail" \in Putting
    BY <1>1, <2>1, <2>2 DEF BasicType, CallsType, Putting, Unlinked
  <2> QED BY <1>1, <1>3, <2>1, <2>3, BasicPut
<1>11. CASE PutEnd(t)
  <2>1. /\ Local(t, "put_count", reg[t]) /\ pc[t] # "idle"
        /\ SwingTail(t, reg[t].frag)
        /\ UNCHANGED <<mem, head, freeable, user, calls, overlap>>
    BY <1>1, <1>11 DEF PutEnd, Local, Goto
  <2>2. tail' \in Node
    BY <1>1, <2>1, SwingType
  <2>3. BasicType' /\ "put_count" \in Putting
    BY <1>1, <2>1, <2>2 DEF BasicType, CallsType, Putting, Linked
  <2> QED BY <1>1, <1>3, <2>1, <2>3, BasicPut
<1>12. CASE PutCount(t)
  <2>1. /\ Local(t, "idle", NoReg) /\ pc[t] # "idle"
        /\ freeable' = (freeable + 1) % SizeMod
        /\ UNCHANGED <<mem, head, tail, user, calls, overlap>>
    BY <1>12 DEF PutCount, Local, Goto
  <2>2. freeable' \in 0 .. SizeMod - 1
    BY <1>1, <2>1
  <2>3. BasicType'
    BY <1>1, <2>1, <2>2 DEF BasicType, CallsType
  <2> QED BY <1>2, <1>3, <2>1, <2>3, BasicPut
<1> QED BY <1>4, <1>5, <1>6, <1>7, <1>8, <1>9, <1>10, <1>11, <1>12 DEF Put

\* A call of mempool_alloc that has not taken a fragment yet goes on.
LEMMA BasicPick ==
  ASSUME NoWrap, Basic, NEW t \in Thread, NEW l \in Label, NEW r \in Reg,
         Local(t, l, r), BasicType', pc[t] \in Picking,
         UNCHANGED <<head, calls>>, KnownAt(l, r, calls[t], head)
  PROVE  Basic'
BY BasicStep

LEMMA BasicPickStep ==
  ASSUME NoWrap, Basic, NEW t \in Thread, Pick(t)
  PROVE  Basic'
<1>1. /\ reg[t] \in Reg /\ reg[t].head \in Node /\ reg[t].tail \in Node
      /\ reg[t].next \in Node /\ reg[t].frag \in Frag \cup {Null} /\ BasicType
      /\ KnownAt(pc[t], reg[t], calls[t], head) /\ TakenInv
      /\ reg \in [Thread -> Reg] /\ freeable \in Nat /\ SizeMod \in Nat \ {0}
      /\ calls[t] \in Nat
  BY BasicFacts
<1>2. /\ mem \in [Frag -> Node] /\ tail \in Node /\ head \in Node
      /\ NoReg \in Reg /\ user \subseteq Frag
  BY <1>1, NoRegIs DEF BasicType
<1>3. /\ "idle" \in Label /\ Picking \subseteq Label /\ "pick_count" \in Label
  BY DEF Label, Picking, HeadRead
<1>4. CASE PickHead(t)
  <2> DEFINE r == [reg[t] EXCEPT !.head = head]
  <2>1. /\ Local(t, "pick_tail", r) /\ pc[t] = "pick_head"
        /\ UNCHANGED <<mem, head, tail, freeable, user, calls, overlap>>
    BY <1>4 DEF PickHead, Local, Goto
  <2>2. r \in Reg /\ r.head = head
    BY <1>1, <1>2 DEF Reg
  <2>3. BasicType' /\ pc[t] \in Picking /\ "pick_tail" \in Picking
    BY <1>1, <2>1, BasicTypeSame DEF Picking, HeadRead
  <2> HIDE DEF r
  <2>4. KnownAt("pick_tail", r, calls[t], head)
    <3>1. head.count <= head.count
      BY <1>2, NodeIs
    <3> QED BY <1>1, <2>1, <2>2, <3>1 DEF KnownAt
  <2> QED BY <1>3, <2>1, <2>2, <2>3, <2>4, BasicPick
<1>5. CASE PickTail(t)
  <2> DEFINE r == [reg[t] EXCEPT !.tail = tail]
  <2>1. /\ Local(t, "pick_next", r) /\ pc[t] = "pick_tail"
        /\ UNCHANGED <<mem, head, tail, freeable, user, calls, overlap>>
    BY <1>5 DEF PickTail, Local, Goto
  <2>2. r \in Reg /\ r.head = reg[t].head
    BY <1>1, <1>2 DEF Reg
  <2>3. /\ BasicType' /\ pc[t] \in Picking /\ "pick_next" \in Picking
        /\ pc[t] \in HeadRead
    BY <1>1, <2>1, BasicTypeSame DEF Picking, HeadRead
  <2> HIDE DEF r
  <2>4. KnownAt("pick_next", r, calls[t], head)
    BY <1>1, <2>1, <2>2, <2>3 DEF KnownAt
  <2> QED BY <1>3, <2>1, <2>2, <2>3, <2>4, BasicPick
<1>6. CASE PickNext(t)
  <2> DEFINE n == [reg[t].next EXCEPT !.frag = mem[reg[t].head.frag].frag]
             e == Cardinality(Chain) = 1
             r == [reg[t] EXCEPT !.next = n, !.empty = e]
  <2>1. /\ pc[t] = "pick_next" /\ reg[t].head.frag \in Frag
        /\ pc' = [pc EXCEPT ![t] = "pick_check"]
        /\ UNCHANGED <<mem, head, tail, freeable, user, calls, overlap>>
    BY <1>6 DEF PickNext, Goto
  <2>2. reg' = [reg EXCEPT ![t].next.frag = mem[reg[t].head.frag].frag,
                           ![t].empty = e]
    BY <1>6 DEF PickNext
  <2>3. mem[reg[t].head.frag] \in Node
    BY <1>2, <2>1
  <2>4. n \in Node /\ n.frag = mem[reg[t].head.frag].frag
    BY <1>1, <2>3 DEF Node
  <2>5. e \in BOOLEAN
    OBVIOUS
  <2> HIDE DEF e
  <2>6. reg' = [reg EXCEPT ![t] = r]
    BY <1>1, <2>2 DEF Reg
  <2> HIDE DEF n
  <2>7. r \in Reg /\ r.head = reg[t].head /\ r.next = n /\ r.empty = e
    BY <1>1, <2>4, <2>5 DEF Reg
  <2> HIDE DEF r
  <2>8. /\ BasicType' /\ pc[t] \in Picking /\ "pick_check" \in Picking
        /\ pc[t] \in HeadRead
    BY <1>1, <2>1, BasicTypeSame DEF Picking, HeadRead
  <2>9. r.head = head /\ r.next.frag = Null => r.empty
    BY <2>1, <2>4, <2>7, LoneDummy DEF e
  <2>10. KnownAt("pick_check", r, calls[t], head)
    BY <1>1, <2>1, <2>7, <2>8, <2>9 DEF KnownAt
  <2>11. Local(t, "pick_check", r)
    BY <2>1, <2>6 DEF Local
  <2> QED BY <1>3, <2>1, <2>7, <2>8, <2>10, <2>11, BasicPick
<1>7. CASE PickCheck(t)
  <2> DEFINE l == IF reg[t].head # head THEN "pick_head" ELSE PickBranch(t)
  <2>1. /\ pc[t] = "pick_check" /\ pc' = [pc EXCEPT ![t] = l] /\ reg' = reg
        /\ UNCHANGED <<mem, head, tail, freeable, user, calls, overlap>>
    BY <1>7 DEF PickCheck, Goto
  <2>2. /\ l \in {"pick_head", "pick_take", "pick_fail", "pick_swing"}
        /\ l = "pick_fail" => reg[t].head = head /\ reg[t].next.frag = Null
    BY DEF PickBranch
  <2> HIDE DEF l
  <2>3. Local(t, l, reg[t])
    BY <1>1, <2>1 DEF Local
  <2>4. /\ BasicType' /\ pc[t] \in Picking /\ l \in Picking /\ pc[t] \in HeadRead
    BY <1>1, <2>1, <2>2, BasicTypeSame DEF Picking, HeadRead
  <2>5. KnownAt(l, reg[t], calls[t], head)
    BY <1>1, <2>1, <2>2, <2>4 DEF KnownAt
  <2> QED BY <1>1, <1>3, <2>1, <2>3, <2>4, <2>5, BasicPick
<1>8. CASE PickFail(t)
  <2>1. /\ Local(t, "idle", NoReg) /\ pc[t] # "idle"
        /\ UNCHANGED <<mem, head, tail, freeable, user, calls, overlap>>
    BY <1>8 DEF PickFail, Local, Goto
  <2>2. BasicType'
    BY <1>1, <2>1, BasicTypeSame
  <2> QED BY <1>2, <1>3, <2>1, <2>2, BasicPut
<1>9. CASE PickSwing(t)
  <2>1. /\ Local(t, "pick_head", reg[t]) /\ pc[t] = "pick_swing"
        /\ SwingTail(t, reg[t].next.frag)
        /\ UNCHANGED <<mem, head, freeable, user, calls, overlap>>
    BY <1>1, <1>9 DEF PickSwing, Local, Goto
  <2>2. tail' \in Node
    BY <1>1, <2>1, SwingType, NodeIs
  <2>3. BasicType' /\ pc[t] \in Picking /\ "pick_head" \in Picking
    BY <1>1, <2>1, <2>2 DEF BasicType, CallsType, Picking, HeadRead
  <2>4. KnownAt("pick_head", reg[t], calls[t], head)
    BY <1>1, <2>1 DEF KnownAt, HeadRead
  <2> QED BY <1>1, <1>3, <2>1, <2>3, <2>4, BasicPick
<1>10. CASE PickTake(t) /\ head = reg[t].head /\ head' # head
  <2> DEFINE r == [reg[t] EXCEPT !.frag = head.frag]
  <2>1. /\ pc[t] = "pick_take" /\ head' = NodeOf(head.count + 1, reg[t].next.frag)
        /\ Local(t, "pick_count", r)
        /\ UNCHANGED <<mem, tail, freeable, user, calls, overlap>>
    BY <1>10 DEF PickTake, Local, Goto
  <2>2. head.frag \in Frag
    BY <1>1, <1>10, <2>1 DEF KnownAt
  <2>3. r \in Reg /\ r.frag \in Frag
    BY <1>1, <2>2 DEF Reg
  <2>4. head.count \in Nat /\ head.count + 1 < CountMod
    BY <1>1, <1>2, HeadBound
  <2>5. /\ head' \in Node /\ head'.count = head.count + 1
    <3>1. reg[t].next.frag \in Frag \cup {Null, Junk} /\ head.count + 1 \in Nat
      BY <1>1, <2>4, NodeIs
    <3> QED BY <2>1, <2>4, <3>1, NodeType
  <2>6. BasicType'
    BY <1>1, <2>1, <2>5 DEF BasicType, CallsType
  <2> HIDE DEF r
  <2>7. KnownAt("pick_count", r, calls'[t], head')
    BY <1>1, <2>1, <2>3 DEF KnownAt, HeadRead
  <2>8. TakenInv'
    <3>1. calls[t] \in 1 .. MaxCalls[t]
      <4>1. calls[t] >= 1 /\ calls[t] <= MaxCalls[t]
        BY <1>1, <2>1 DEF KnownAt, BasicType, CallsType
      <4>2. MaxCalls[t] \in Nat
        BY MemPoolAssumption
      <4> QED BY <1>1, <4>1, <4>2
    <3>2. /\ pc'[t] = "pick_count"
          /\ \A u \in Thread \ {t} : pc'[u] = pc[u]
      BY <2>1, BasicFacts DEF Local
    <3>3. pc[t] \in Picking /\ pc'[t] \notin Picking
      BY <2>1, <3>2 DEF Picking, HeadRead
    <3> QED BY <1>1, <2>1, <2>4, <2>5, <3>1, <3>2, <3>3, TakenStep
  <2>9. head'.count > head.count
    BY <2>4, <2>5
  <2> QED BY <1>3, <2>1, <2>3, <2>6, <2>7, <2>8, <2>9, BasicStep
<1>11. CASE PickTake(t) /\ ~ (head = reg[t].head /\ head' # head)
  <2>1. /\ pc[t] = "pick_take" /\ head' = head /\ Local(t, "pick_head", reg[t])
        /\ UNCHANGED <<mem, tail, freeable, user, calls, overlap>>
    <3>1. CASE head = reg[t].head /\ head' = NodeOf(head.count + 1, reg[t].next.frag)
      <4>1. head.count \in Nat /\ head.count + 1 < CountMod
        BY <1>1, <1>2, HeadBound
      <4>2. reg[t].next.frag \in Frag \cup {Null, Junk} /\ head.count + 1 \in Nat
        BY <1>1, <4>1, NodeIs
      <4>3. head'.count = head.count + 1
        BY <3>1, <4>1, <4>2, NodeType
      <4> QED BY <1>11, <3>1, <4>1, <4>3
    <3>2. CASE ~ (head = reg[t].head
                    /\ head' = NodeOf(head.count + 1, reg[t].next.frag))
      BY <1>1, <1>11, <3>2 DEF PickTake, Local, Goto
    <3> QED BY <3>1, <3>2
  <2>2. BasicType' /\ pc[t] \in Picking /\ "pick_head" \in Picking
    BY <1>1, <2>1, BasicTypeSame DEF Picking, HeadRead
  <2>3. KnownAt("pick_head", reg[t], calls[t], head)
    BY <1>1, <2>1 DEF KnownAt, HeadRead
  <2> QED BY <1>1, <1>3, <2>1, <2>2, <2>3, BasicPick
<1>12. CASE PickCount(t)
  <2>1. /\ Local(t, "idle", NoReg) /\ pc[t] = "pick_count"
        /\ freeable' = (freeable - 1) % SizeMod
        /\ user' = user \cup {reg[t].frag}
        /\ UNCHANGED <<mem, head, tail, calls, overlap>>
    BY <1>12 DEF PickCount, Local, Goto
  <2>2. freeable' \in 0 .. SizeMod - 1
    BY <1>1, <2>1
  <2>3. user' \subseteq Frag
    BY <1>1, <1>2, <2>1 DEF KnownAt
  <2>4. BasicType'
    BY <1>1, <2>1, <2>2, <2>3 DEF BasicType, CallsType
  <2> QED BY <1>2, <1>3, <2>1, <2>4, BasicPut
<1> QED BY <1>4, <1>5, <1>6, <1>7, <1>8, <1>9, <1>10, <1>11, <1>12 DEF Pick

\* Calls that begin.
LEMMA BasicCall ==
  ASSUME NoWrap, Basic, NEW t \in Thread, NEW l \in {"put_init", "pick_head"},
         NEW r \in Reg, Local(t, l, r), calls[t] < MaxCalls[t],
         calls' = [calls EXCEPT ![t] = @ + 1], user' \subseteq Frag,
         overlap' \in BOOLEAN, UNCHANGED <<mem, head, tail, freeable>>
  PROVE  Basic'
<1>1. BasicType /\ calls[t] \in Nat /\ MaxCalls[t] \in Nat
  BY BasicFacts, MemPoolAssumption
<1>2. /\ CallsType' /\ calls'[t] = calls[t] + 1
      /\ \A u \in Thread \ {t} : calls'[u] = calls[u]
  BY <1>1 DEF BasicType, CallsType
<1>3. BasicType'
  BY <1>1, <1>2 DEF BasicType
<1>4. KnownAt(l, r, calls'[t], head')
  BY <1>1, <1>2 DEF KnownAt, HeadRead
<1>5. l \in Label
  BY DEF Label, Putting
<1> QED BY <1>2, <1>3, <1>4, <1>5, BasicStep

LEMMA BasicNext == ASSUME NoWrap, Basic, [Next]_vars PROVE Basic'
<1>1. /\ BasicType /\ TakenInv /\ pc \in [Thread -> Label]
      /\ reg \in [Thread -> Reg]
      /\ \A t \in Thread : KnownAt(pc[t], reg[t], calls[t], head)
  BY DEF Basic
<1>2. ASSUME NEW t \in Thread, Free(t) PROVE Basic'
  <2>1. PICK f \in user : FreeAt(t, f)
    BY <1>2 DEF Free
  <2> DEFINE r == [reg[t] EXCEPT !.frag = f]
  <2>2. r \in Reg
    BY <1>1 DEF Reg, BasicType
  <2>3. /\ Local(t, "put_init", r) /\ user' \subseteq Frag /\ overlap' \in BOOLEAN
    BY <1>1, <2>1 DEF FreeAt, Local, Goto, BasicType
  <2> QED BY <2>1, <2>2, <2>3, BasicCall DEF FreeAt
<1>3. ASSUME NEW t \in Thread, Alloc(t) PROVE Basic'
  <2>1. Local(t, "pick_head", reg[t])
    BY <1>1, <1>3 DEF Alloc, Local, Goto
  <2>2. reg[t] \in Reg /\ user \subseteq Frag /\ overlap \in BOOLEAN
    BY <1>1 DEF BasicType
  <2> QED BY <1>3, <2>1, <2>2, BasicCall DEF Alloc
<1>4. ASSUME NEW t \in Thread, Clear(t) PROVE Basic'
  <2>1. /\ head' = NodeOf(0, 0) /\ tail' = NodeOf(Capacity, Capacity)
        /\ mem' = [i \in Frag |-> Setup(i)] /\ freeable' = Capacity /\ user' = {}
        /\ pc' = pc /\ reg' = reg /\ overlap' = overlap
        /\ \A u \in Thread : pc[u] = "idle"
        /\ calls' = [calls EXCEPT ![t] = @ + 1] /\ calls[t] < MaxCalls[t]
    BY <1>4 DEF Clear
  <2>2. /\ Capacity \in Nat /\ 0 \in Nat /\ 0 \in Frag /\ Capacity \in Frag
        /\ 0 < CountMod /\ CountMod \in Nat /\ Capacity \in 0 .. SizeMod - 1
        /\ MaxCalls[t] \in Nat /\ InUse \in Nat
    BY MemPoolAssumption DEF Frag
  <2>3. /\ head' \in Node /\ head'.count = 0 /\ tail' \in Node
    BY <2>1, <2>2, NodeType
  <2>4. mem' \in [Frag -> Node]
    <3>1. \A i \in Frag : ~ (i < 0)
      BY <2>2 DEF Frag
    <3>2. \A i \in Frag : Setup(i) \in Node
      BY <2>2, <3>1, SetupType
    <3> QED BY <2>1, <3>2
  <2>5. CallsType'
    BY <1>1, <2>1, <2>2 DEF BasicType, CallsType
  <2>6. BasicType'
    BY <1>1, <2>1, <2>2, <2>3, <2>4, <2>5 DEF BasicType
  <2>7. TakenInv'
    <3>1. Begun' \ Open' \in SUBSET AllCalls
      BY DEF Begun
    <3>2. Cardinality(Begun' \ Open') \in Nat
      BY <3>1, CallsFinite
    <3> QED BY <2>2, <2>3, <3>2 DEF TakenInv
  <2>8. \A u \in Thread : KnownAt(pc'[u], reg'[u], calls'[u], head')
    BY <2>1 DEF KnownAt, HeadRead
  <2> QED BY <1>1, <2>1, <2>6, <2>7, <2>8 DEF Basic
<1>5. ASSUME NEW f \in user, NEW d \in UserData, Store(f, d) PROVE Basic'
  <2>1. d \in Node
    BY MemPoolAssumption
  <2>2. /\ mem' = [mem EXCEPT ![f] = d]
        /\ UNCHANGED <<head, tail, freeable, pc, reg, user, calls, overlap>>
    BY <1>5 DEF Store
  <2>3. BasicType'
    BY <1>1, <2>1, <2>2 DEF BasicType, CallsType
  <2>4. TakenInv'
    BY <1>1, <2>2 DEF TakenInv, Begun, Open
  <2> QED BY <1>1, <2>2, <2>3, <2>4 DEF Basic
<1>6. CASE UNCHANGED vars
  <2>1. UNCHANGED <<mem, head, tail, freeable, pc, reg, user, calls, overlap>>
    BY <1>6 DEF vars
  <2>2. BasicType'
    BY <1>1, <2>1, BasicTypeSame
  <2>3. TakenInv'
    BY <1>1, <2>1 DEF TakenInv, Begun, Open
  <2> QED BY <1>1, <2>1, <2>2, <2>3 DEF Basic
<1>7. ASSUME NEW t \in Thread, Put(t) PROVE Basic'
  BY <1>7, BasicPutStep
<1>8. ASSUME NEW t \in Thread, Pick(t) PROVE Basic'
  BY <1>8, BasicPickStep
<1> QED BY <1>2, <1>3, <1>4, <1>5, <1>6, <1>7, <1>8 DEF Next, Done

LEMMA BasicInit == ASSUME NoWrap, Init PROVE Basic
<1>1. PICK k \in 0 .. InUse : FreshAt(k)
  BY InitFresh DEF Fresh
<1>2. TypeInv /\ CountInv
  BY <1>1, InitFresh, FreshTypes
<1>3. BasicType
  BY <1>2, TypesStay DEF BasicType
<1>4. \A t \in Thread : KnownAt(pc[t], reg[t], calls[t], head)
  BY <1>1 DEF FreshAt, KnownAt, HeadRead
<1>5. pc \in [Thread -> Label] /\ reg \in [Thread -> Reg]
  BY <1>1 DEF FreshAt
<1> QED BY <1>2, <1>3, <1>4, <1>5 DEF Basic, CountInv

LEMMA BasicHolds == ASSUME NoWrap PROVE Spec => []Basic
<1>1. Init => Basic
  BY BasicInit
<1>2. Basic /\ [Next]_vars => Basic'
  BY BasicNext
<1> QED BY <1>1, <1>2, PTL DEF Spec

-----------------------------------------------------------------------------
\* The types, for whatever users store; head and tail point to fragments, so
\* that no thread follows a pointer that is none, until calls of mempool_free
\* overlap (collections.c:123-213).
THEOREM TypeCorrect == ASSUME NoWrap PROVE Spec => []TypeOK
<1>1. Basic /\ (overlap \/ IndInv) => TypeOK
  <2>1. ASSUME Basic, overlap PROVE TypeOK
    BY <2>1 DEF Basic, BasicType, TypeOK, Reg, CallsType
  <2>2. ASSUME IndInv PROVE TypeOK
    BY <2>2, Zenon DEF IndInv, TypeInv
  <2> QED BY <2>1, <2>2
<1> QED BY <1>1, BasicHolds, Inductive, PTL

\* mempool_alloc returns NULL only if the list was empty at some moment of the
\* call, whatever the other calls are and whatever users store
\* (collections.c:179-183).
THEOREM NoSpuriousENOMEMHolds == ASSUME NoWrap PROVE Spec => []NoSpuriousENOMEM
<1>1. Basic => NoSpuriousENOMEM
  BY DEF Basic, KnownAt, NoSpuriousENOMEM
<1> QED BY <1>1, BasicHolds, PTL

\* A call on the pool never writes to memory that a user owns, whatever is in
\* it, until calls of mempool_free overlap (collections.c:131-137, 205-213).
THEOREM UserMemSafeHolds == ASSUME NoWrap PROVE Spec => UserMemSafe
<1>1. (overlap \/ IndInv) /\ [Next]_vars =>
        [pc' # pc /\ ~ overlap' =>
           \A f \in user \cap user' : mem'[f] = mem[f]]_vars
  <2> SUFFICES ASSUME overlap \/ IndInv, Next, pc' # pc, ~ overlap',
                      NEW f \in user, f \in user'
               PROVE  mem'[f] = mem[f]
    BY Zenon
  <2>1. IndInv
    BY OverlapStays
  <2>2. TypeInv /\ Layout
    BY <2>1, Zenon DEF IndInv
  <2>3. PICK own, pos : Chains(own, pos) /\ Places(own) /\ TailIn(own, pos)
    BY <2>2, Zenon DEF Layout
  <2>4. /\ \A t \in Thread : ~ Holds(t, f)
        /\ own[f] = Null /\ f \in Frag
        /\ mem \in [Frag -> Node]
    BY <2>2, <2>3, TypesStay DEF Places
  <2>5. own[tail.frag] # Null
    BY <2>2, <2>3, LayoutFacts
  <2>6. ASSUME NEW t \in Thread, PutInit(t) PROVE mem'[f] = mem[f]
    <3>1. reg[t].frag # f
      BY <2>4, <2>6 DEF PutInit, Holds, Holding
    <3> QED BY <2>4, <2>6, <3>1 DEF PutInit
  <2>7. ASSUME NEW t \in Thread, PutLink(t) PROVE mem'[f] = mem[f]
    <3>1. Seen(t)
      BY <2>1, Facts
    <3>2. reg[t].tail = tail
      BY <2>7, <3>1 DEF PutLink, Seen, PutSeen
    <3>3. reg[t].tail.frag # f
      BY <2>4, <2>5, <3>2
    <3> QED BY <2>4, <2>7, <3>3 DEF PutLink
  <2>8. ASSUME NEW g \in user, NEW d \in UserData, Store(g, d) PROVE FALSE
    BY <2>8 DEF Store
  <2>9. ASSUME NEW t \in Thread, Clear(t) PROVE FALSE
    BY <2>9 DEF Clear
  <2>10. CASE mem' = mem
    BY <2>10
  <2> QED BY <2>6, <2>7, <2>8, <2>9, <2>10
       DEF Next, Free, FreeAt, Alloc, Put, Pick, Done, vars, PutTail,
           PutNextCount, PutNextFrag, PutCheck, PutSwing, PutEnd, PutCount,
           PickHead, PickTail, PickNext, PickCheck, PickFail, PickSwing,
           PickTake, PickCount
<1> QED BY <1>1, Inductive, PTL DEF Spec, UserMemSafe

-----------------------------------------------------------------------------
InHand == Holding \cup Unlinked

\* Where each fragment is, in terms of the operators of the properties.
LEMMA Where ==
  ASSUME IndInv
  PROVE  /\ tail.frag \in Chain /\ head.frag \in Chain /\ Chain \subseteq Frag
         /\ user \subseteq Frag /\ user \cap Chain = {}
         /\ \A t \in Thread : pc[t] \in InHand =>
              reg[t].frag \in Frag /\ reg[t].frag \notin Chain \cup user
         /\ \A t, u \in Thread :
              /\ pc[t] \in InHand /\ pc[u] \in InHand
              /\ reg[t].frag = reg[u].frag
              => t = u
         /\ \A f \in Frag :
              \/ f \in Chain \cup user
              \/ \E t \in Thread : pc[t] \in InHand /\ reg[t].frag = f
<1>1. TypeInv /\ Layout /\ OnePut
  BY Zenon DEF IndInv
<1>2. PICK own, pos : Chains(own, pos) /\ Places(own) /\ TailIn(own, pos)
  BY <1>1, Zenon DEF Layout
<1>3. /\ own[head.frag] = head.frag /\ own[tail.frag] = head.frag
      /\ head.frag \in Frag /\ tail.frag \in Frag /\ Null \notin Frag
      /\ \A u \in Putters : reg[u].frag \in Frag
                            /\ own[reg[u].frag] = reg[u].frag
  BY <1>1, <1>2, LayoutFacts
<1>4. Chain = {g \in Frag : own[g] = head.frag}
  <2>1. First(head.frag)
    BY DEF First
  <2> QED BY <1>1, <1>2, <1>3, <2>1, FromChain DEF Chain
<1>5. /\ \A g \in Frag : own[g] = Null =>
           g \in user \/ \E u \in Thread : Holds(u, g)
      /\ \A g \in user : own[g] = Null /\ \A u \in Thread : ~ Holds(u, g)
      /\ \A u \in Thread, g \in Frag : Holds(u, g) => own[g] = Null
      /\ \A u, v \in Thread, g \in Frag : Holds(u, g) /\ Holds(v, g) => u = v
      /\ \A u \in Putters : reg[u].frag # head.frag /\ mem[reg[u].frag] = NoNode
  BY <1>2 DEF Places
<1>6. user \subseteq Frag
  BY <1>1, TypesStay
<1>7. \A t \in Thread : pc[t] \in InHand =>
        /\ reg[t].frag \in Frag
        /\ t \in Putters \/ Holds(t, reg[t].frag)
  BY <1>1 DEF TypeInv, InHand, Putters, Holds
<1>8. \A t \in Thread : pc[t] \in InHand =>
        reg[t].frag \in Frag /\ reg[t].frag \notin Chain \cup user
  BY <1>3, <1>4, <1>5, <1>7
<1>9. ASSUME NEW t \in Thread, NEW u \in Thread,
             pc[t] \in InHand, pc[u] \in InHand, reg[t].frag = reg[u].frag
      PROVE  t = u
  <2>1. \A a, b \in Putters : a = b
    BY <1>1 DEF OnePut, Putting, Putters
  <2> QED BY <1>3, <1>5, <1>7, <1>9, <2>1
<1>10. ASSUME NEW f \in Frag, f \notin Chain \cup user
       PROVE  \E t \in Thread : pc[t] \in InHand /\ reg[t].frag = f
  <2>1. CASE own[f] = Null
    <3>1. PICK t \in Thread : Holds(t, f)
      BY <1>5, <1>10, <2>1
    <3> QED BY <3>1 DEF Holds, InHand
  <2>2. CASE own[f] # Null
    <3>1. own[f] # head.frag /\ First(own[f])
      BY <1>2, <1>4, <1>10, <2>2 DEF Chains
    <3>2. PICK t \in Putters : reg[t].frag = own[f]
      BY <3>1 DEF First
    <3>3. /\ mem[reg[t].frag].frag = Null /\ reg[t].frag \in Frag
          /\ own[reg[t].frag] = reg[t].frag
      BY <1>3, <1>5, NoNodeType
    <3>4. ~ (pos[f] > pos[reg[t].frag])
      BY <1>1, <1>2, <1>3, <3>2, <3>3, Follow
    <3>5. pos[reg[t].frag] = 0 /\ pos[f] \in Nat
      BY <1>2, <3>3 DEF Chains, First
    <3>6. pos[f] = pos[reg[t].frag]
      BY <3>4, <3>5
    <3>7. f = reg[t].frag
      BY <1>2, <2>2, <3>2, <3>3, <3>6 DEF Chains
    <3> QED BY <3>7 DEF Putters, InHand
  <2> QED BY <2>1, <2>2
<1> QED BY <1>3, <1>4, <1>5, <1>6, <1>8, <1>9, <1>10

\* Every fragment is in exactly one place, and the tail is in the list,
\* whatever users store and however many calls of mempool_alloc there are, until
\* calls of mempool_free overlap (collections.c:123-213).
THEOREM FreeListSoundHolds == ASSUME NoWrap PROVE Spec => []FreeListSound
<1>1. ASSUME IndInv PROVE FreeListSound
  <2>1. ASSUME NEW f \in Frag
        PROVE  Cardinality({f} \cap Chain) + Cardinality({f} \cap user)
                 + Cardinality(Holders(f)) = 1
    <3>1. \A t : t \in Holders(f)
                   <=> t \in Thread /\ pc[t] \in InHand /\ reg[t].frag = f
      BY DEF Holders, InHand, Holding
    <3>2. Cardinality({}) = 0 /\ \A x : Cardinality({x}) = 1
      BY FS_EmptySet, FS_Singleton
    <3>3. CASE f \in Chain
      <4>1. {f} \cap Chain = {f} /\ {f} \cap user = {} /\ Holders(f) = {}
        BY <1>1, <3>1, <3>3, Where
      <4> QED BY <3>2, <4>1
    <3>4. CASE f \in user
      <4>1. {f} \cap Chain = {} /\ {f} \cap user = {f} /\ Holders(f) = {}
        <5>1. f \notin Chain
          BY <1>1, <3>4, Where
        <5>2. \A t \in Thread : ~ (pc[t] \in InHand /\ reg[t].frag = f)
          BY <1>1, <3>4, Where
        <5>3. Holders(f) = {}
          BY ONLY <3>1, <5>2
        <5>4. {f} \cap Chain = {} /\ {f} \cap user = {f}
          BY ONLY <3>4, <5>1
        <5> QED BY <5>3, <5>4
      <4>2. /\ Cardinality({f} \cap Chain) = 0 /\ Cardinality({f} \cap user) = 1
            /\ Cardinality(Holders(f)) = 0
        BY <3>2, <4>1, Zenon
      <4> QED BY <4>2
    <3>5. CASE f \notin Chain \cup user
      <4>1. PICK t \in Thread : pc[t] \in InHand /\ reg[t].frag = f
        BY <1>1, <3>5, Where
      <4>2. {f} \cap Chain = {} /\ {f} \cap user = {}
        BY <3>5
      <4>3. Holders(f) = {t}
        BY <1>1, <3>1, <4>1, Where
      <4> QED BY <3>2, <4>2, <4>3
    <3> QED BY <3>3, <3>4, <3>5
  <2> QED BY <1>1, <2>1, Where DEF FreeListSound
<1>2. overlap => FreeListSound
  BY DEF FreeListSound
<1> QED BY <1>1, <1>2, Inductive, PTL

-----------------------------------------------------------------------------
\* Multiples of the modulus do not count.
LEMMA Times ==
  ASSUME NEW k \in Int, NEW m \in Nat \ {0}, k >= 1 PROVE k * m >= m
OBVIOUS

LEMMA Distribute ==
  ASSUME NEW k \in Int, NEW j \in Int, NEW m \in Int
  PROVE  /\ k * m - j * m = (k - j) * m
         /\ (k - j) * m = -((j - k) * m)
OBVIOUS

LEMMA Divide ==
  ASSUME NEW a \in Int, NEW m \in Nat \ {0}
  PROVE  /\ a % m \in 0 .. m - 1 /\ a \div m \in Int
         /\ a = (a \div m) * m + (a % m)
OBVIOUS

LEMMA ModIs ==
  ASSUME NEW m \in Nat \ {0}, NEW n \in 0 .. m - 1, NEW q \in Int,
         NEW a \in Int, a = n + q * m
  PROVE  a % m = n
<1>1. PICK d \in Int : d = a \div m
  BY Divide
<1>2. PICK r \in 0 .. m - 1 : r = a % m
  BY Divide
<1>3. a = d * m + r
  BY Divide, <1>1, <1>2
<1>4. PICK x \in Int : x = q * m
  OBVIOUS
<1>5. PICK y \in Int : y = d * m
  OBVIOUS
<1>6. PICK z \in Int : z = (q - d) * m
  OBVIOUS
<1>7. z = x - y /\ z = r - n
  BY <1>3, <1>4, <1>5, <1>6, Distribute
<1>8. q - d = 0
  <2>1. ~ (q - d >= 1)
    BY <1>6, <1>7, Times
  <2>2. ~ (d - q >= 1)
    <3>1. (d - q) * m = -z
      BY <1>6, Distribute
    <3>2. d - q >= 1 => (d - q) * m >= m
      BY Times
    <3> QED BY <1>7, <3>1, <3>2
  <2> QED BY <2>1, <2>2
<1>9. z = 0
  BY <1>6, <1>8
<1> QED BY <1>2, <1>7, <1>9

\* A set in two parts.
LEMMA TwoParts ==
  ASSUME NEW S, NEW A, NEW B, IsFiniteSet(S), S = A \cup B, A \cap B = {}
  PROVE  /\ IsFiniteSet(A) /\ IsFiniteSet(B)
         /\ Cardinality(A) \in Nat /\ Cardinality(B) \in Nat
         /\ Cardinality(S) \in Nat
         /\ Cardinality(S) = Cardinality(A) + Cardinality(B)
<1>1. IsFiniteSet(A) /\ IsFiniteSet(B)
  BY FS_Subset
<1>2. /\ Cardinality(A) \in Nat /\ Cardinality(B) \in Nat
      /\ Cardinality(S) \in Nat
  BY <1>1, FS_CardinalityType
<1>3. Cardinality(A \cup B)
        = Cardinality(A) + Cardinality(B) - Cardinality(A \cap B)
  BY <1>1, FS_Union
<1>4. Cardinality(A \cap B) = 0
  BY FS_EmptySet
<1> QED BY <1>1, <1>2, <1>3, <1>4

\* Threads that stand for different fragments.
LEMMA AsMany ==
  ASSUME IsFiniteSet(Thread), NEW A \in SUBSET Thread,
         \A x, y \in A : reg[x].frag = reg[y].frag => x = y
  PROVE  /\ IsFiniteSet(A) /\ Cardinality(A) \in Nat
         /\ Cardinality({reg[x].frag : x \in A}) = Cardinality(A)
<1> DEFINE S == {reg[x].frag : x \in A}
           f == [x \in A |-> reg[x].frag]
<1>1. IsFiniteSet(A)
  BY FS_Subset
<1>2. f \in Bijection(A, S)
  BY DEF Bijection, Injection, IsInjective, Surjection
<1> HIDE DEF S, f
<1>3. Cardinality(S) = Cardinality(A)
  <2>1. ExistsBijection(A, S)
    BY <1>2 DEF ExistsBijection
  <2> QED BY ONLY <1>1, <2>1, FS_Bijection
<1> QED BY <1>1, <1>3, FS_CardinalityType DEF S

\* The number of free fragments, of those with users and of those in the hands
\* of calls.
LEMMA Counting ==
  ASSUME NoWrap, IndInv,
         NEW hand, hand = {t \in Thread : pc[t] \in InHand}
  PROVE  /\ Cardinality(Chain) \in Nat /\ Cardinality(user) \in Nat
         /\ Cardinality(hand) \in Nat /\ Cardinality(Chain) >= 1
         /\ Cardinality(Chain) + Cardinality(user) + Cardinality(hand)
              = Capacity + 1
<1> DEFINE rest == Frag \ Chain
           held == {reg[t].frag : t \in hand}
<1>1. IsFiniteSet(Thread)
  BY DEF NoWrap
<1>2. /\ Chain \subseteq Frag /\ head.frag \in Chain
      /\ user \subseteq Frag /\ user \cap Chain = {}
      /\ \A t \in hand : reg[t].frag \in Frag /\ reg[t].frag \notin Chain \cup user
      /\ \A t, u \in hand : reg[t].frag = reg[u].frag => t = u
      /\ \A f \in Frag : f \in Chain \cup user \/ f \in held
  BY Where
<1>3. rest = user \cup held /\ user \cap held = {}
  BY <1>2
<1>4. Cardinality(hand) \in Nat /\ Cardinality(held) = Cardinality(hand)
  <2>1. hand \in SUBSET Thread
    OBVIOUS
  <2> QED BY <1>1, <1>2, <2>1, AsMany
<1> HIDE DEF held
<1>5. IsFiniteSet(Frag) /\ Cardinality(Frag) = Capacity + 1
  <2>1. 0 \in Int /\ Capacity \in Int /\ ~ (0 > Capacity)
    BY MemPoolAssumption
  <2>2. /\ IsFiniteSet(0 .. Capacity)
        /\ Cardinality(0 .. Capacity)
             = IF 0 > Capacity THEN 0 ELSE Capacity - 0 + 1
    BY <2>1, FS_Interval
  <2> QED BY <2>1, <2>2 DEF Frag
<1>6. Frag = Chain \cup rest /\ Chain \cap rest = {}
  BY <1>2
<1> HIDE DEF rest
<1>7. /\ IsFiniteSet(Chain) /\ IsFiniteSet(rest)
      /\ Cardinality(Chain) \in Nat /\ Cardinality(rest) \in Nat
      /\ Capacity + 1 = Cardinality(Chain) + Cardinality(rest)
  <2>1. Cardinality(Frag) = Cardinality(Chain) + Cardinality(rest)
    BY ONLY <1>5, <1>6, TwoParts
  <2> QED BY ONLY <1>5, <1>6, <2>1, TwoParts
<1>8. /\ Cardinality(user) \in Nat /\ Cardinality(held) \in Nat
      /\ Cardinality(rest) = Cardinality(user) + Cardinality(held)
  BY ONLY <1>3, <1>7, TwoParts
<1>9. Cardinality(Chain) >= 1
  <2>1. Cardinality(Chain) # 0
    BY <1>2, <1>7, FS_EmptySet
  <2> QED BY <1>7, <2>1
<1>10. Cardinality(Chain) + Cardinality(user) + Cardinality(hand) = Capacity + 1
  BY <1>4, <1>7, <1>8, MemPoolAssumption
<1> QED BY <1>4, <1>7, <1>8, <1>9, <1>10

\* The counter is exact, but for calls that are about to update it, until calls
\* of mempool_free overlap (collections.c:159, 197).
THEOREM FreeableExactHolds == ASSUME NoWrap PROVE Spec => []FreeableExact
<1>1. ASSUME IndInv PROVE FreeableExact
  <2>1. TypeInv /\ CountInv /\ IsFiniteSet(Thread)
    BY <1>1, Zenon DEF IndInv, NoWrap
  <2> DEFINE linked == {t \in Thread : pc[t] \in Linked}
             taken == {t \in Thread : pc[t] = "pick_count"}
             out == {t \in Thread : pc[t] \in {"put_init"} \cup Unlinked}
             hand == {t \in Thread : pc[t] \in InHand}
             gone == {t \in Thread : pc[t] \in Putting}
  <2>2. /\ Cardinality(Chain) \in Nat /\ Cardinality(user) \in Nat
        /\ Cardinality(hand) \in Nat /\ Cardinality(Chain) >= 1
        /\ Cardinality(Chain) + Cardinality(user) + Cardinality(hand)
             = Capacity + 1
    BY <1>1, Counting
  <2>3. hand = out \cup taken /\ out \cap taken = {}
    BY DEF InHand, Holding, Unlinked
  <2>4. gone = out \cup linked /\ out \cap linked = {}
    BY DEF Putting, Unlinked, Linked
  <2>5. hand \in SUBSET Thread /\ gone \in SUBSET Thread
    OBVIOUS
  <2>6. PICK q \in Int : freeable + Cardinality(user) + Cardinality(gone)
                           = Capacity + q * SizeMod
    BY <2>1, Zenon DEF CountInv, FreeableInv
  <2>7. /\ freeable \in Int /\ SizeMod \in Nat \ {0} /\ Capacity \in Nat
        /\ Capacity < SizeMod
    BY <2>1, TypesStay, MemPoolAssumption
  <2> SUFFICES (freeable + Cardinality(linked) - Cardinality(taken)) % SizeMod
                 = Cardinality(Chain) - 1
    BY DEF FreeableExact
  <2> HIDE DEF linked, taken, out, hand, gone
  <2>8. IsFiniteSet(hand) /\ IsFiniteSet(gone)
    BY <2>1, <2>5, FS_Subset
  <2>9. /\ Cardinality(out) \in Nat /\ Cardinality(taken) \in Nat
        /\ Cardinality(hand) = Cardinality(out) + Cardinality(taken)
    <3>1. IsFiniteSet(hand) /\ hand = out \cup taken /\ out \cap taken = {}
      BY <2>3, <2>8
    <3>2. Cardinality(out) \in Nat /\ Cardinality(taken) \in Nat
      BY ONLY <3>1, TwoParts
    <3>3. Cardinality(hand) = Cardinality(out) + Cardinality(taken)
      BY ONLY <3>1, TwoParts
    <3> QED BY <3>2, <3>3
  <2>10. /\ Cardinality(out) \in Nat /\ Cardinality(linked) \in Nat
        /\ Cardinality(gone) = Cardinality(out) + Cardinality(linked)
    <3>1. IsFiniteSet(gone) /\ gone = out \cup linked /\ out \cap linked = {}
      BY <2>4, <2>8
    <3>2. Cardinality(out) \in Nat /\ Cardinality(linked) \in Nat
      BY ONLY <3>1, TwoParts
    <3>3. Cardinality(gone) = Cardinality(out) + Cardinality(linked)
      BY ONLY <3>1, TwoParts
    <3> QED BY <3>2, <3>3
  <2>11. PICK n \in Int : n = Cardinality(Chain) - 1
    BY <2>2
  <2>12. n \in 0 .. SizeMod - 1
    BY <2>2, <2>7, <2>11
  <2>13. PICK a \in Int :
           a = freeable + Cardinality(linked) - Cardinality(taken)
    BY <2>7, <2>9, <2>10
  <2>14. PICK x \in Int : x = q * SizeMod
    BY <2>6, <2>7
  <2>15. a = n + x
    <3>1. freeable + Cardinality(user) + Cardinality(gone) = Capacity + x
      BY <2>6, <2>14
    <3>2. a = Capacity + x - Cardinality(user) - Cardinality(hand)
      BY ONLY <2>2, <2>7, <2>9, <2>10, <2>13, <2>14, <3>1
    <3> QED BY ONLY <2>2, <2>7, <2>11, <2>13, <2>14, <3>2
  <2>16. a % SizeMod = n
    BY <2>6, <2>7, <2>12, <2>14, <2>15, ModIs
  <2> QED BY <2>11, <2>13, <2>16
<1>2. overlap => FreeableExact
  BY DEF FreeableExact
<1> QED BY <1>1, <1>2, Inductive, PTL

-----------------------------------------------------------------------------
\* A fragment has room for the user's data and for the link of the free list,
\* and its size is a multiple of 16 (collections.c:221-229).
LEMMA AlignedBytesProperties ==
  ASSUME HeaderBytes \in Nat \ {0}, NEW b \in Nat \ {0}
  PROVE  /\ AlignedBytes(b) \in Nat \ {0}
         /\ AlignedBytes(b) >= b /\ AlignedBytes(b) >= HeaderBytes
         /\ AlignedBytes(b) % 16 = 0
<1> DEFINE n == Larger(b, HeaderBytes)
<1>1. n \in Nat /\ n >= b /\ n >= HeaderBytes /\ n > 0
  BY DEF Larger
<1> HIDE DEF n
<1>2. AlignedBytes(b) = IF n % 16 # 0 THEN n + (16 - (n % 16)) ELSE n
  BY DEF AlignedBytes, n
<1> QED
  BY <1>1, <1>2

\* The fragments of a pool start at multiples of 16 bytes, as the atomic
\* operations on their links need, do not overlap, and lie in the allocated
\* bytes, the last one included (collections.c:247-260, 288-294).
THEOREM FragmentsFit ==
  ASSUME HeaderBytes \in Nat \ {0},
         NEW b \in Nat \ {0}, NEW c \in Nat, NEW i \in 0 .. c
  PROVE  /\ FragAt(b, i) % 16 = 0
         /\ FragAt(b, i) + AlignedBytes(b) <= PoolBytes(b, c)
         /\ \A j \in 0 .. c :
              j < i => FragAt(b, j) + AlignedBytes(b) <= FragAt(b, i)
<1> DEFINE n == AlignedBytes(b)
<1>1. n \in Nat \ {0} /\ n % 16 = 0
  BY AlignedBytesProperties
<1> HIDE DEF n
<1>2. PICK k \in Nat : n = 16 * k
  BY <1>1
<1>3. \A x, y \in Nat : x < y => n * x + n <= n * y
  <2> SUFFICES ASSUME NEW x \in Nat, NEW y \in Nat, x < y
               PROVE  n * x + n <= n * y
    OBVIOUS
  <2>1. PICK d \in Nat : y = x + 1 + d
    OBVIOUS
  <2>2. n * y = n * x + n + n * d /\ n * d >= 0
    BY <1>1, <2>1
  <2> QED BY <1>1, <2>2
<1>4. (n * i) % 16 = 0
  <2>1. n * i = 16 * (k * i) /\ k * i \in Nat
    BY <1>2
  <2> QED BY <2>1
<1>5. n * i + n <= (c + 1) * n
  <2>1. i < c + 1 /\ n * (c + 1) = (c + 1) * n
    BY <1>1
  <2> QED BY <1>1, <1>3, <2>1
<1> QED
  BY <1>3, <1>4, <1>5 DEF FragAt, PoolBytes, n

\* mempool_contains accepts what mempool_alloc returns, whatever fragment it
\* is, and nothing outside of the allocated bytes (collections.c:441-458).
THEOREM AcceptsFragments ==
  ASSUME HeaderBytes \in Nat \ {0}, NEW b \in Nat \ {0}, NEW c \in Nat
  PROVE  /\ \A i \in 0 .. c : Contains(b, c, FragAt(b, i))
         /\ \A p \in Int : Contains(b, c, p) => p < PoolBytes(b, c)
<1> DEFINE n == AlignedBytes(b)
<1>1. n \in Nat \ {0}
  BY AlignedBytesProperties
<1> HIDE DEF n
<1>2. (c + 1) * n = n * c + n
  BY <1>1
<1>3. ASSUME NEW i \in 0 .. c PROVE n * i >= 0 /\ n * i < n * c + 1
  <2>1. PICK d \in Nat : c = i + d
    OBVIOUS
  <2>2. n * c = n * i + n * d /\ n * d >= 0 /\ n * i >= 0
    BY <1>1, <2>1
  <2> QED BY <1>1, <2>2
<1>4. ASSUME NEW p \in Int, p < n * c + 1 PROVE p < (c + 1) * n
  BY <1>1, <1>2, <1>4
<1> QED
  BY <1>3, <1>4 DEF Contains, FragAt, PoolBytes, n

\* mempool_contains is not exact: of the last fragment it accepts the first
\* byte only, as it leaves the dummy out of the pool's size (line 452).
THEOREM RejectsLastFragmentData ==
  ASSUME HeaderBytes \in Nat \ {0}, NEW b \in Nat \ {0}, NEW c \in Nat,
         NEW p \in Int, FragAt(b, c) < p, p < PoolBytes(b, c)
  PROVE  ~Contains(b, c, p)
  BY AlignedBytesProperties DEF Contains, FragAt
=============================================================================
