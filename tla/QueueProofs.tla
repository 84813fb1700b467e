----------------------------- MODULE QueueProofs -----------------------------
(***************************************************************************)
(* Proofs about Queue when one thread enqueues, however many dequeue: no   *)
(* fragment and no value is lost, the queue uses its pool as it should,    *)
(* and it implements Fifo, until calls of mempool_free overlap.            *)
(*                                                                         *)
(* The pool's own invariant comes from MemPoolProofs: as long as the queue *)
(* frees and writes to fragments that it owns, its steps are steps of the  *)
(* pool.  The invariant of the queue says which of these fragments are     *)
(* linked and which are in the hands of a call, that the count of head is  *)
(* the number of values taken and that of tail follows from its place, and *)
(* what a call that has read head, tail or a link may still rely on.  With *)
(* two threads that enqueue it does not hold: a compare-and-swap of a link *)
(* may then succeed on a fragment that has been freed and used again.      *)
(***************************************************************************)
EXTENDS Queue, MemPoolProofs

\* One thread enqueues, and its calls are fewer than a count can hold.
Writer == CHOOSE t \in Enqueuer : TRUE
OneEnqueuer == Enqueuer = {Writer} /\ MaxCalls[Writer] < CountMod

-----------------------------------------------------------------------------
\* The path through links m from fragment f on, as Path computes it.
PathIn(m, f) ==
  LET link == [x \in Frag \cup {Null, Junk} |->
                 IF x \in Frag THEN m[x].frag ELSE Null]
      at[n \in Frag] == IF n = 0 THEN f ELSE link[at[n - 1]]
  IN  [i \in 1 .. Cardinality({n \in Frag : at[n] # Null}) |-> at[i - 1]]

\* Path looks at the memory as it is.
LEMMA PathIsPathIn == \A f : Path(f) = PathIn(mem, f)
BY DEF Path, PathIn

\* s leads through links m from f to the end.
IsPath(m, s, f) ==
  /\ s \in Seq(Frag) /\ IsInjective(s)
  /\ Len(s) >= 1 /\ s[1] = f
  /\ \A i \in 1 .. Len(s) - 1 : m[s[i]].frag = s[i + 1]
  /\ m[s[Len(s)]].frag = Null

\* Path finds what is there.
LEMMA PathOf ==
  ASSUME NEW m, NEW s, NEW f, IsPath(m, s, f)
  PROVE  PathIn(m, f) = s
<1>0. /\ Capacity \in Nat /\ Null \notin Frag
      /\ s \in Seq(Frag) /\ IsInjective(s)
      /\ Len(s) >= 1 /\ s[1] = f
      /\ \A i \in 1 .. Len(s) - 1 : m[s[i]].frag = s[i + 1]
      /\ m[s[Len(s)]].frag = Null
  BY MemPoolAssumption DEF IsPath
<1>p. Len(s) <= Capacity + 1
  <2>1. /\ Len(s) \in Nat /\ s \in [1 .. Len(s) -> 0 .. Capacity]
        /\ \A i, j \in 1 .. Len(s) : s[i] = s[j] => i = j
    BY <1>0 DEF Frag, IsInjective
  <2> QED BY <1>0, <2>1, Pigeonhole
<1> USE <1>0, <1>p
<1> DEFINE link == [x \in Frag \cup {Null, Junk} |->
                      IF x \in Frag THEN m[x].frag ELSE Null]
           h == [n \in Frag |-> IF n < Len(s) THEN s[n + 1] ELSE Null]
           R(g) == g = [n \in Frag |-> IF n = 0 THEN s[1] ELSE link[g[n - 1]]]
           at == CHOOSE g : R(g)
<1>1. R(h)
  <2> SUFFICES ASSUME NEW n \in Frag
               PROVE  h[n] = IF n = 0 THEN s[1] ELSE link[h[n - 1]]
    OBVIOUS
  <2>1. CASE n = 0
    BY <2>1 DEF Frag
  <2>2. CASE n # 0
    <3>1. n - 1 \in Frag /\ n \in Nat
      BY <2>2 DEF Frag
    <3>2. CASE n < Len(s)
      <4>1. n \in 1 .. Len(s) - 1 /\ h[n - 1] = s[n] /\ h[n] = s[n + 1]
        BY <3>1, <3>2, <2>2 DEF Frag
      <4>2. s[n] \in Frag
        BY <4>1
      <4> QED BY <4>1, <4>2, <2>2
    <3>3. CASE n = Len(s)
      <4>1. h[n - 1] = s[Len(s)] /\ h[n] = Null
        BY <3>1, <3>3, <2>2 DEF Frag
      <4>2. s[Len(s)] \in Frag
        BY <3>3, <3>1
      <4> QED BY <4>1, <4>2, <2>2
    <3>4. CASE n > Len(s)
      BY <3>1, <3>4, <2>2
    <3> QED BY <3>1, <3>2, <3>3, <3>4
  <2> QED BY <2>1, <2>2
<1>2. R(at)
  BY <1>1
<1> HIDE DEF at
<1>a. \A n \in Frag : at[n] = IF n = 0 THEN s[1] ELSE link[at[n - 1]]
  BY <1>2
<1>h. \A n \in Frag : h[n] = IF n = 0 THEN s[1] ELSE link[h[n - 1]]
  BY <1>1
<1>3. \A n \in Frag : at[n] = h[n]
  <2> HIDE DEF h, link
  <2> DEFINE T == {n \in Frag : at[n] # h[n]}
  <2>1. SUFFICES ASSUME T # {} PROVE FALSE
    OBVIOUS
  <2>2. T \in SUBSET Nat
    BY DEF Frag
  <2>3. PICK k \in T : \A n \in T : k <= n
    BY <2>1, <2>2, NatMin
  <2>4. k \in Frag /\ k \in Nat
    BY DEF Frag
  <2>5. k # 0
    BY <1>a, <1>h, <2>4
  <2>6. k - 1 \in Frag /\ ~ (k - 1 \in T)
    <3>1. k - 1 \in Frag /\ ~ (k <= k - 1)
      BY <2>4, <2>5 DEF Frag
    <3> HIDE DEF T
    <3> QED BY <2>3, <3>1
  <2>7. at[k - 1] = h[k - 1]
    BY <2>6
  <2>8. at[k] = link[at[k - 1]] /\ h[k] = link[h[k - 1]]
    BY <1>a, <1>h, <2>4, <2>5
  <2> QED BY <2>7, <2>8
<1>4. {n \in Frag : at[n] # Null} = 0 .. Len(s) - 1
  <2>1. \A n \in Frag : h[n] # Null <=> n < Len(s)
    <3>1. ASSUME NEW n \in Frag, n < Len(s) PROVE h[n] # Null
      <4>1. n + 1 \in 1 .. Len(s) /\ h[n] = s[n + 1]
        BY <3>1 DEF Frag
      <4>2. s[n + 1] \in Frag
        BY <4>1
      <4> QED BY <4>1, <4>2
    <3> QED BY <3>1
  <2>2. \A n : n \in 0 .. Len(s) - 1 <=> n \in Frag /\ n < Len(s)
    BY DEF Frag
  <2> HIDE DEF h
  <2> QED BY <1>3, <2>1, <2>2
<1>5. Cardinality(0 .. Len(s) - 1) = Len(s)
  <2>1. /\ 0 \in Int /\ Len(s) - 1 \in Int /\ ~ (0 > Len(s) - 1)
        /\ Len(s) - 1 - 0 + 1 = Len(s)
    OBVIOUS
  <2>2. Cardinality(0 .. Len(s) - 1)
          = IF 0 > Len(s) - 1 THEN 0 ELSE Len(s) - 1 - 0 + 1
    BY <2>1, FS_Interval
  <2> QED BY <2>1, <2>2
<1>6. PathIn(m, s[1]) =
        [i \in 1 .. Cardinality({n \in Frag : at[n] # Null}) |-> at[i - 1]]
  BY DEF PathIn, at
<1>7. \A i \in 1 .. Len(s) : at[i - 1] = s[i]
  <2> SUFFICES ASSUME NEW i \in 1 .. Len(s) PROVE at[i - 1] = s[i]
    OBVIOUS
  <2>1. i - 1 \in Frag /\ i - 1 < Len(s) /\ (i - 1) + 1 = i
    BY DEF Frag
  <2>2. h[i - 1] = s[i]
    BY <2>1
  <2> HIDE DEF h
  <2> QED BY <1>3, <2>1, <2>2
<1>8. s = [i \in 1 .. Len(s) |-> s[i]]
  OBVIOUS
<1> HIDE DEF h
<1>9. PathIn(m, s[1]) = [i \in 1 .. Len(s) |-> at[i - 1]]
  BY <1>4, <1>5, <1>6
<1> QED BY <1>7, <1>8, <1>9

\* The queue, its dummy first.
Q == PathIn(mem, qhead.frag)

\* A queue_enqueue that holds a fragment which is not in the queue.
Carries  == {"enq_init", "enq_data", "enq_tail", "enq_next_count",
             "enq_next_val", "enq_check", "enq_link", "enq_swing"}
\* One that has begun and still holds no fragment, or holds one.
Opened   == Carries \cup {"enq_alloc"}
EnqPc    == Carries \cup {"enq_end"}
\* Calls that have loaded head, or tail, or the link of the fragment at head.
QHeadRead == {"deq_tail", "deq_next", "deq_check", "deq_copy", "deq_swing",
             "deq_take"}
NextRead == {"deq_check", "deq_copy", "deq_swing", "deq_take"}
QTailRead == {"enq_next_count", "enq_next_val", "enq_check", "enq_link",
             "enq_swing", "enq_end"} \cup NextRead \cup {"deq_next"}

\* A link: the queue and its pool never store junk.
QNode == [count : 0 .. CountMod - 1, frag : Frag \cup {Null}]

QReg == [head : QNode, tail : QNode, next : QNode, frag : Frag \cup {Null},
        copy : Value \cup {Null}, empty : BOOLEAN]

QTypeInv ==
  /\ mem \in [Frag -> QNode]
  /\ data \in [Frag -> Value \cup {Null}]
  /\ user \subseteq Frag
  /\ qhead \in QNode /\ qtail \in QNode
  /\ qpc \in [Thread -> QLabel]
  /\ qreg \in [Thread -> QReg]
  /\ calls \in [Thread -> Nat]
  /\ \A t \in Thread : calls[t] <= MaxCalls[t]
  /\ \A t \in Thread : qpc[t] \in EnqPc => t = Writer /\ qreg[t].frag \in Frag
  /\ \A t \in Thread : qpc[t] = "enq_alloc" => t = Writer
  /\ \A t \in Thread : qpc[t] = "deq_free" => qreg[t].head.frag \in Frag

\* A fragment in the hands of a call.
QHolds(t, f) == \/ qpc[t] \in Carries /\ f = qreg[t].frag
                \/ qpc[t] = "deq_free" /\ f = qreg[t].head.frag

\* Every fragment that the queue has from the pool is in the queue or in the
\* hands of one call.
ChainInv ==
  /\ IsPath(mem, Q, qhead.frag)
  /\ Range(Q) \subseteq user
  /\ \A t \in Thread, f \in Frag : QHolds(t, f) => f \in user /\ f \notin Range(Q)
  /\ \A t, u \in Thread, f \in Frag : QHolds(t, f) /\ QHolds(u, f) => t = u
  /\ \A f \in user : f \in Range(Q) \/ \E t \in Thread : QHolds(t, f)

\* The values that are in the queue or have been taken out.
PutIn == {data[Q[i]] : i \in 2 .. Len(Q)} \cup Range(got)

\* The counts of head and tail, and the values.
HistInv ==
  /\ got \in Seq(Value)
  /\ qhead.count = Len(got)
  /\ \E k \in 1 .. Len(Q) : qtail.frag = Q[k] /\ qtail.count = Len(got) + k - 1
  /\ Len(got) + Len(Q) - 1 <= calls[Writer]
  /\ qpc[Writer] \in Opened => Len(got) + Len(Q) <= calls[Writer]
  /\ \A v \in PutIn : \E n \in 1 .. calls[Writer] :
       v = <<Writer, n>> /\ (qpc[Writer] \in Opened => n < calls[Writer])
  /\ qpc[Writer] \in Opened => calls[Writer] >= 1
  /\ qpc[Writer] \in Carries =>
       /\ qpc[Writer] # "enq_init" => mem[qreg[Writer].frag] = NoNode
       /\ qpc[Writer] \notin {"enq_init", "enq_data"} =>
            data[qreg[Writer].frag] = <<Writer, calls[Writer]>>
  /\ accepted \subseteq PutIn
  /\ qpc[Writer] = "enq_end" => <<Writer, calls[Writer]>> \in PutIn

\* What a call has read is still true if the counts have not changed.
QHeadSeen(t) ==
  qpc[t] \in QHeadRead =>
    qreg[t].head.count <= qhead.count
    /\ (qreg[t].head.count = qhead.count => qreg[t].head = qhead)
QTailSeen(t) ==
  qpc[t] \in QTailRead =>
    qreg[t].tail.count <= qtail.count
    /\ (qreg[t].tail.count = qtail.count => qreg[t].tail = qtail)
EnqSeen(t) ==
  /\ qpc[t] \in {"enq_check", "enq_swing"} /\ qreg[t].tail = qtail =>
       mem[qtail.frag].frag = qreg[t].next.frag
  /\ qpc[t] = "enq_link" =>
       qreg[t].tail.frag \in Range(Q) /\ mem[qreg[t].tail.frag].frag = Null
  /\ qpc[t] = "enq_swing" => qreg[t].next.frag \in Frag
  /\ qpc[t] = "enq_end" /\ qreg[t].tail = qtail =>
       mem[qtail.frag].frag = qreg[t].frag
DeqSeen(t) ==
  /\ /\ qpc[t] \in NextRead \cup {"deq_next"}
     /\ qreg[t].head = qhead /\ qreg[t].tail.frag # qhead.frag
     => qtail.frag # qhead.frag
  /\ qpc[t] \in NextRead /\ qreg[t].head = qhead =>
       IF qreg[t].next.frag = Null
       THEN qreg[t].empty /\ qreg[t].tail.frag = qhead.frag
       ELSE mem[qhead.frag].frag = qreg[t].next.frag
  /\ /\ qpc[t] \in NextRead /\ qreg[t].tail = qtail
     /\ qreg[t].head.frag = qtail.frag /\ qreg[t].next.frag # Null
     => mem[qtail.frag].frag = qreg[t].next.frag
  /\ qpc[t] \in {"deq_copy", "deq_take"} =>
       qreg[t].next.frag \in Frag /\ qreg[t].head.frag # qreg[t].tail.frag
  /\ qpc[t] = "deq_swing" =>
       qreg[t].next.frag \in Frag /\ qreg[t].head.frag = qreg[t].tail.frag
  /\ qpc[t] = "deq_take" /\ qreg[t].head = qhead =>
       qreg[t].copy = data[qreg[t].next.frag]
  /\ qpc[t] = "deq_empty" => qreg[t].empty
QSeen(t) == QHeadSeen(t) /\ QTailSeen(t) /\ EnqSeen(t) /\ DeqSeen(t)

QIndInv == QTypeInv /\ ChainInv /\ HistInv /\ \A t \in Thread : QSeen(t)

-----------------------------------------------------------------------------
\* The links that are stored, as long as the count does not wrap.
LEMMA LinkType ==
  ASSUME NEW c \in Nat, NEW f \in Frag \cup {Null}
  PROVE  /\ NodeOf(c, f) \in QNode /\ NodeOf(c, f).frag = f
         /\ c < CountMod => NodeOf(c, f).count = c
<1>1. CountMod \in Nat /\ CountMod > 0
  BY MemPoolAssumption
<1>2. c % CountMod \in 0 .. CountMod - 1
  BY <1>1
<1> QED BY <1>1, <1>2, ModSmall DEF NodeOf, QNode

\* The queue depends on its own links and the head only.
LEMMA QSame == UNCHANGED <<mem, qhead>> => Q' = Q
BY DEF Q, PathIn

\* The new queue, when the path it takes is known.
LEMMA NewQ == ASSUME NEW s, IsPath(mem', s, qhead'.frag) PROVE Q' = s
BY PathOf DEF Q

\* The members of a sequence.
LEMMA SeqRange == ASSUME NEW S, NEW s \in Seq(S)
                  PROVE  Range(s) = {s[i] : i \in 1 .. Len(s)}
BY DEF Range

\* A path, its links and its end.
LEMMA PathFacts ==
  ASSUME NEW m, NEW s, NEW f, IsPath(m, s, f)
  PROVE  /\ s \in Seq(Frag) /\ Len(s) \in Nat /\ Len(s) >= 1 /\ s[1] = f
         /\ \A i \in 1 .. Len(s) : s[i] \in Frag /\ s[i] \in Range(s)
         /\ Range(s) = {s[i] : i \in 1 .. Len(s)} /\ Range(s) \subseteq Frag
         /\ f \in Range(s) /\ s[Len(s)] \in Range(s)
         /\ \A i, j \in 1 .. Len(s) : s[i] = s[j] => i = j
         /\ \A i \in 1 .. Len(s) : IF i = Len(s) THEN m[s[i]].frag = Null
                                   ELSE m[s[i]].frag = s[i + 1]
         /\ \A x \in Range(s) : m[x].frag # Null =>
              m[x].frag \in Range(s) /\ m[x].frag # f
<1>1. /\ s \in Seq(Frag) /\ Len(s) \in Nat /\ Len(s) >= 1 /\ s[1] = f
      /\ \A i \in 1 .. Len(s) : s[i] \in Frag
      /\ \A i, j \in 1 .. Len(s) : s[i] = s[j] => i = j
      /\ \A i \in 1 .. Len(s) : IF i = Len(s) THEN m[s[i]].frag = Null
                                ELSE m[s[i]].frag = s[i + 1]
  BY DEF IsPath, IsInjective
<1>2. Range(s) = {s[i] : i \in 1 .. Len(s)}
  BY <1>1, SeqRange
<1>3. ASSUME NEW x \in Range(s), m[x].frag # Null
      PROVE  m[x].frag \in Range(s) /\ m[x].frag # f
  <2>1. PICK i \in 1 .. Len(s) : x = s[i]
    BY <1>2
  <2>2. i # Len(s) /\ i + 1 \in 1 .. Len(s) /\ m[x].frag = s[i + 1]
    BY <1>1, <1>3, <2>1
  <2>3. s[i + 1] # s[1]
    BY <1>1, <2>2
  <2> QED BY <1>1, <1>2, <2>2, <2>3
<1>4. f \in Range(s) /\ s[Len(s)] \in Range(s) /\ Range(s) \subseteq Frag
  BY <1>1, <1>2
<1> QED BY <1>1, <1>2, <1>3, <1>4

\* Links that do not touch the path leave it a path.
LEMMA PathKept ==
  ASSUME NEW m, NEW m2, NEW s, NEW f, IsPath(m, s, f),
         \A x \in Range(s) : m2[x].frag = m[x].frag
  PROVE  IsPath(m2, s, f)
<1>1. /\ s \in Seq(Frag) /\ Len(s) \in Nat /\ Len(s) >= 1
      /\ \A i \in 1 .. Len(s) : s[i] \in Range(s)
  BY PathFacts
<1>2. \A i \in 1 .. Len(s) : m2[s[i]].frag = m[s[i]].frag
  BY <1>1
<1>3. \A i \in 1 .. Len(s) - 1 : i \in 1 .. Len(s)
  BY <1>1
<1>4. Len(s) \in 1 .. Len(s)
  BY <1>1
<1> QED BY <1>1, <1>2, <1>3, <1>4 DEF IsPath

\* Appending a fragment to a path.
LEMMA PathAppend ==
  ASSUME NEW m, NEW m2, NEW s, NEW f, IsPath(m, s, f),
         NEW x \in Frag, x \notin Range(s),
         \A y \in Range(s) : y # s[Len(s)] => m2[y].frag = m[y].frag,
         m2[s[Len(s)]].frag = x, m2[x].frag = Null
  PROVE  IsPath(m2, Append(s, x), f)
<1> DEFINE a == Append(s, x)
<1>0. /\ s \in Seq(Frag) /\ Len(s) \in Nat /\ Len(s) >= 1 /\ s[1] = f
      /\ \A i \in 1 .. Len(s) : s[i] \in Frag /\ s[i] \in Range(s)
      /\ \A i, j \in 1 .. Len(s) : s[i] = s[j] => i = j
      /\ \A i \in 1 .. Len(s) : IF i = Len(s) THEN m[s[i]].frag = Null
                                ELSE m[s[i]].frag = s[i + 1]
  BY ONLY IsPath(m, s, f), PathFacts
<1>1. /\ s \in Seq(Frag) /\ Len(s) \in Nat /\ Len(s) >= 1 /\ s[1] = f
      /\ \A i \in 1 .. Len(s) : s[i] \in Frag /\ s[i] # x
      /\ \A i, j \in 1 .. Len(s) : s[i] = s[j] => i = j
      /\ \A i \in 1 .. Len(s) : IF i = Len(s) THEN m[s[i]].frag = Null
                                ELSE m[s[i]].frag = s[i + 1]
      /\ \A i \in 1 .. Len(s) : s[i] \in Range(s)
  BY <1>0
<1>2. /\ a \in Seq(Frag) /\ Len(a) = Len(s) + 1
      /\ a[Len(s) + 1] = x /\ \A i \in 1 .. Len(s) : a[i] = s[i]
  BY <1>1
<1> HIDE DEF a
<1>3. ASSUME NEW i \in 1 .. Len(a), NEW j \in 1 .. Len(a), a[i] = a[j]
      PROVE  i = j
  <2>1. /\ i \in 1 .. Len(s) \/ i = Len(s) + 1
        /\ j \in 1 .. Len(s) \/ j = Len(s) + 1
    BY <1>1, <1>2
  <2> QED BY <1>1, <1>2, <1>3, <2>1
<1>4. ASSUME NEW i \in 1 .. Len(a) - 1 PROVE m2[a[i]].frag = a[i + 1]
  <2>1. i \in 1 .. Len(s)
    BY <1>1, <1>2
  <2>2. CASE i = Len(s)
    BY <1>1, <1>2, <2>2
  <2>3. CASE i # Len(s)
    <3>1. i + 1 \in 1 .. Len(s) /\ Len(s) \in 1 .. Len(s)
      BY <1>1, <2>1, <2>3
    <3>2. s[i] # s[Len(s)]
      BY <1>1, <2>1, <2>3, <3>1
    <3> QED BY <1>1, <1>2, <2>1, <2>3, <3>1, <3>2
  <2> QED BY <2>2, <2>3
<1>5. IsInjective(a)
  BY <1>2, <1>3 DEF IsInjective
<1>6. a[1] = f /\ Len(a) >= 1 /\ m2[a[Len(a)]].frag = Null
  BY <1>1, <1>2
<1>7. IsPath(m2, a, f)
  BY <1>2, <1>4, <1>5, <1>6 DEF IsPath
<1> QED BY <1>7 DEF a

\* Taking the first fragment from a path.
LEMMA PathTail ==
  ASSUME NEW m, NEW s, NEW f, IsPath(m, s, f), m[f].frag # Null
  PROVE  /\ IsPath(m, Tail(s), m[f].frag) /\ Len(s) >= 2 /\ m[f].frag = s[2]
         /\ Len(Tail(s)) = Len(s) - 1
         /\ \A i \in 1 .. Len(s) - 1 : Tail(s)[i] = s[i + 1]
         /\ \A x : x \in Range(Tail(s)) <=> x \in Range(s) /\ x # f
<1> DEFINE a == Tail(s)
<1>1. /\ s \in Seq(Frag) /\ Len(s) \in Nat /\ Len(s) >= 1 /\ s[1] = f
      /\ \A i \in 1 .. Len(s) : s[i] \in Frag
      /\ \A i, j \in 1 .. Len(s) : s[i] = s[j] => i = j
      /\ \A i \in 1 .. Len(s) : IF i = Len(s) THEN m[s[i]].frag = Null
                                ELSE m[s[i]].frag = s[i + 1]
      /\ Range(s) = {s[i] : i \in 1 .. Len(s)}
  BY PathFacts
<1>2. Len(s) >= 2 /\ m[f].frag = s[2]
  BY <1>1
<1>3. /\ a \in Seq(Frag) /\ Len(a) = Len(s) - 1
      /\ \A i \in 1 .. Len(s) - 1 : a[i] = s[i + 1]
  BY <1>1, <1>2
<1> HIDE DEF a
<1>4. \A i \in 1 .. Len(s) - 1 : i + 1 \in 1 .. Len(s)
  BY <1>1
<1>5. IsInjective(a)
  BY <1>1, <1>3, <1>4 DEF IsInjective
<1>6. \A i \in 1 .. Len(a) - 1 : m[a[i]].frag = a[i + 1]
  <2> TAKE i \in 1 .. Len(a) - 1
  <2>1. /\ i \in 1 .. Len(s) - 1 /\ i + 1 \in 1 .. Len(s) - 1
        /\ i + 1 \in 1 .. Len(s) /\ i + 1 # Len(s)
    BY <1>1, <1>2, <1>3
  <2> QED BY <1>1, <1>3, <2>1
<1>7. a[1] = m[f].frag /\ Len(a) >= 1 /\ m[a[Len(a)]].frag = Null
  BY <1>1, <1>2, <1>3
<1>8. IsPath(m, a, m[f].frag)
  BY <1>3, <1>5, <1>6, <1>7 DEF IsPath
<1>9. Range(a) = {a[i] : i \in 1 .. Len(a)}
  BY <1>3, SeqRange
<1>10. ASSUME NEW x PROVE x \in Range(a) <=> x \in Range(s) /\ x # f
  <2>1. ASSUME x \in Range(a) PROVE x \in Range(s) /\ x # f
    <3>1. PICK i \in 1 .. Len(s) - 1 : x = s[i + 1]
      BY <1>3, <1>9, <2>1
    <3>2. i + 1 \in 1 .. Len(s) /\ 1 \in 1 .. Len(s) /\ i + 1 # 1
      BY <1>1
    <3> QED BY <1>1, <3>1, <3>2
  <2>2. ASSUME x \in Range(s), x # f PROVE x \in Range(a)
    <3>1. PICK i \in 1 .. Len(s) : x = s[i]
      BY <1>1, <2>2
    <3>2. i - 1 \in 1 .. Len(s) - 1 /\ (i - 1) + 1 = i
      BY <1>1, <2>2, <3>1
    <3>3. x = a[i - 1]
      BY <1>3, <3>1, <3>2
    <3> QED BY <1>3, <1>9, <3>2, <3>3
  <2> QED BY <2>1, <2>2
<1>11. IsPath(m, Tail(s), m[f].frag) /\ Len(Tail(s)) = Len(s) - 1
  BY <1>3, <1>8 DEF a
<1>12. /\ \A i \in 1 .. Len(s) - 1 : Tail(s)[i] = s[i + 1]
       /\ \A x : x \in Range(Tail(s)) <=> x \in Range(s) /\ x # f
  BY <1>3, <1>10 DEF a
<1> QED BY <1>2, <1>11, <1>12

\* Append adds a member.
LEMMA AppendRange ==
  ASSUME NEW S, NEW s \in Seq(S), NEW x \in S
  PROVE  \A y : y \in Range(Append(s, x)) <=> y \in Range(s) \/ y = x
<1>1. /\ Append(s, x) \in Seq(S) /\ Len(Append(s, x)) = Len(s) + 1
      /\ Append(s, x)[Len(s) + 1] = x
      /\ \A i \in 1 .. Len(s) : Append(s, x)[i] = s[i]
      /\ Len(s) \in Nat
  OBVIOUS
<1>2. Range(Append(s, x)) = {Append(s, x)[i] : i \in 1 .. Len(s) + 1}
  BY <1>1, SeqRange
<1>3. Range(s) = {s[i] : i \in 1 .. Len(s)}
  BY SeqRange
<1> SUFFICES ASSUME NEW y
             PROVE  y \in Range(Append(s, x)) <=> y \in Range(s) \/ y = x
  OBVIOUS
<1>4. ASSUME y \in Range(s) \/ y = x PROVE y \in Range(Append(s, x))
  <2>1. CASE y = x
    BY <1>1, <1>2, <2>1, Len(s) + 1 \in 1 .. Len(s) + 1
  <2>2. CASE y \in Range(s)
    <3>1. PICK i \in 1 .. Len(s) : y = s[i]
      BY <1>3, <2>2
    <3>2. i \in 1 .. Len(s) + 1 /\ y = Append(s, x)[i]
      BY <1>1, <3>1
    <3> QED BY <3>2, <1>2
  <2> QED BY <1>4, <2>1, <2>2
<1>5. ASSUME y \in Range(Append(s, x)) PROVE y \in Range(s) \/ y = x
  <2>1. PICK i \in 1 .. Len(s) + 1 : y = Append(s, x)[i]
    BY <1>2, <1>5
  <2>2. i = Len(s) + 1 \/ i \in 1 .. Len(s)
    BY <1>1
  <2> QED BY <1>1, <1>3, <2>1, <2>2
<1> QED BY <1>4, <1>5

-----------------------------------------------------------------------------
\* What the chains and the counts say, in a form that steps can cite.
LEMMA WriterFacts ==
  ASSUME OneEnqueuer
  PROVE  /\ Writer \in Thread /\ Writer \in Enqueuer
         /\ \A t \in Enqueuer : t = Writer
         /\ MaxCalls[Writer] \in Nat /\ MaxCalls[Writer] < CountMod
         /\ CountMod \in Nat /\ Capacity \in Nat /\ Null \notin Frag
         /\ \A n \in 1 .. MaxCalls[Writer] : <<Writer, n>> \in Value
<1>1. Writer \in Enqueuer /\ Writer \in Thread /\ \A t \in Enqueuer : t = Writer
  BY QueueAssumption DEF OneEnqueuer
<1>2. ASSUME NEW n \in 1 .. MaxCalls[Writer] PROVE <<Writer, n>> \in Value
  BY <1>1 DEF Value
<1> QED BY <1>1, <1>2, MemPoolAssumption DEF OneEnqueuer

\* The queue is a path from the head.
LEMMA QFacts ==
  ASSUME ChainInv
  PROVE  /\ Q \in Seq(Frag) /\ Len(Q) \in Nat /\ Len(Q) >= 1
         /\ Q[1] = qhead.frag
         /\ \A i \in 1 .. Len(Q) : Q[i] \in Frag /\ Q[i] \in Range(Q)
         /\ Range(Q) = {Q[i] : i \in 1 .. Len(Q)} /\ Range(Q) \subseteq Frag
         /\ Range(Q) \subseteq user /\ qhead.frag \in Range(Q)
         /\ \A i, j \in 1 .. Len(Q) : Q[i] = Q[j] => i = j
         /\ \A i \in 1 .. Len(Q) : IF i = Len(Q) THEN mem[Q[i]].frag = Null
                                   ELSE mem[Q[i]].frag = Q[i + 1]
         /\ \A x \in Range(Q) : mem[x].frag # Null =>
              mem[x].frag \in Range(Q) /\ mem[x].frag # qhead.frag
<1>1. IsPath(mem, Q, qhead.frag)
  BY DEF ChainInv
<1>2. Range(Q) \subseteq user
  BY DEF ChainInv
<1> QED BY <1>1, <1>2, PathFacts

\* Steps that leave the user's fragments alone leave the queue alone.
LEMMA QKept ==
  ASSUME ChainInv, \A f \in user : mem'[f] = mem[f], qhead' = qhead
  PROVE  Q' = Q /\ IsPath(mem', Q, qhead'.frag)
<1>1. IsPath(mem, Q, qhead.frag) /\ \A x \in Range(Q) : mem'[x].frag = mem[x].frag
  BY QFacts DEF ChainInv
<1>2. IsPath(mem', Q, qhead'.frag)
  BY <1>1, PathKept
<1> QED BY <1>2, NewQ

\* The tail is in the queue, and neither count wraps when it is moved on.
LEMMA TailFacts ==
  ASSUME OneEnqueuer, QTypeInv, ChainInv, HistInv
  PROVE  /\ qtail.frag \in Range(Q) /\ qtail.frag \in Frag
         /\ qhead.frag \in Frag
         /\ qhead.count \in Nat /\ qtail.count \in Nat
         /\ calls[Writer] \in Nat /\ calls[Writer] <= MaxCalls[Writer]
         /\ calls[Writer] < CountMod
         /\ mem[qtail.frag].frag # Null =>
              /\ mem[qtail.frag].frag \in Range(Q)
              /\ mem[qtail.frag].frag # qhead.frag
              /\ NodeOf(qtail.count + 1, mem[qtail.frag].frag).count
                   = qtail.count + 1
         /\ mem[qhead.frag].frag # Null =>
              NodeOf(qhead.count + 1, mem[qhead.frag].frag).count
                = qhead.count + 1
<1>1. PICK k \in 1 .. Len(Q) :
        qtail.frag = Q[k] /\ qtail.count = Len(got) + k - 1
  BY DEF HistInv
<1>2. qtail.frag \in Range(Q) /\ qtail.frag \in Frag /\ qhead.frag \in Frag
  BY <1>1, QFacts
<1>3. /\ calls[Writer] \in Nat /\ calls[Writer] <= MaxCalls[Writer]
      /\ calls[Writer] < CountMod
  <2>1. calls[Writer] \in Nat /\ calls[Writer] <= MaxCalls[Writer]
    BY WriterFacts DEF QTypeInv
  <2> QED BY <2>1, WriterFacts
<1>4. qhead.count \in Nat /\ qtail.count \in Nat
  BY WriterFacts DEF QTypeInv, QNode
<1>5. /\ Len(Q) \in Nat /\ Len(got) \in Nat
      /\ Len(got) + Len(Q) - 1 <= calls[Writer]
      /\ qhead.count = Len(got)
  BY QFacts DEF HistInv
<1>6. ASSUME mem[qtail.frag].frag # Null
      PROVE  /\ mem[qtail.frag].frag \in Range(Q)
             /\ mem[qtail.frag].frag # qhead.frag
             /\ NodeOf(qtail.count + 1, mem[qtail.frag].frag).count
                  = qtail.count + 1
  <2>1. k # Len(Q)
    BY <1>1, <1>6, QFacts
  <2>a. k \in 1 .. Len(Q) /\ k \in Int /\ CountMod \in Nat
    BY WriterFacts, <1>5
  <2>2. qtail.count + 1 < CountMod /\ qtail.count + 1 \in Nat
    BY <1>1, <1>3, <1>4, <1>5, <2>1, <2>a
  <2>3. mem[qtail.frag].frag \in Range(Q) /\ mem[qtail.frag].frag # qhead.frag
        /\ mem[qtail.frag].frag \in Frag
    BY <1>2, <1>6, QFacts
  <2> QED BY <2>2, <2>3, LinkType
<1>7. ASSUME mem[qhead.frag].frag # Null
      PROVE  NodeOf(qhead.count + 1, mem[qhead.frag].frag).count
               = qhead.count + 1
  <2>1. Len(Q) >= 2
    <3>1. Len(Q) \in Nat /\ Len(Q) >= 1 /\ (Len(Q) = 1 => mem[Q[1]].frag = Null)
      BY QFacts
    <3>2. mem[Q[1]].frag # Null
      BY <1>7, QFacts
    <3>3. Len(Q) # 1
      BY <3>1, <3>2
    <3>4. PICK n \in Nat : n = Len(Q)
      BY <3>1
    <3>5. n >= 1 /\ n # 1
      BY <3>1, <3>3, <3>4
    <3>6. n >= 2
      BY <3>5
    <3> QED BY <3>4, <3>6
  <2>2. qhead.count + 1 < CountMod /\ qhead.count + 1 \in Nat
    <3>1. CountMod \in Nat
      BY WriterFacts
    <3>3. Len(got) + 1 <= calls[Writer]
      BY <1>3, <1>5, <2>1
    <3>4. Len(got) + 1 < CountMod
      BY <1>3, <1>5, <3>1, <3>3
    <3> QED BY <1>5, <3>4
  <2>3. mem[qhead.frag].frag \in Frag
    BY <1>7, QFacts
  <2> QED BY <2>2, <2>3, LinkType
<1> QED BY <1>2, <1>3, <1>4, <1>6, <1>7

-----------------------------------------------------------------------------
\* The local variables after an assignment.
LEMMA GotoFacts ==
  ASSUME qpc \in [Thread -> QLabel], NEW t \in Thread, NEW l \in QLabel, QGoto(t, l)
  PROVE  /\ qpc' \in [Thread -> QLabel] /\ qpc'[t] = l
         /\ \A u \in Thread \ {t} : qpc'[u] = qpc[u]
BY DEF QGoto

\* The assignments to calls and reg.
LEMMA CallFacts ==
  ASSUME calls \in [Thread -> Nat], NEW t \in Thread,
         calls' = [calls EXCEPT ![t] = @ + 1]
  PROVE  /\ calls' \in [Thread -> Nat] /\ calls'[t] = calls[t] + 1
         /\ \A u \in Thread \ {t} : calls'[u] = calls[u]
OBVIOUS

LEMMA RegKept ==
  ASSUME qreg \in [Thread -> QReg], NEW t \in Thread, NEW r \in QReg,
         qreg' = [qreg EXCEPT ![t] = r]
  PROVE  /\ qreg' \in [Thread -> QReg] /\ qreg'[t] = r
         /\ \A u \in Thread \ {t} : qreg'[u] = qreg[u]
OBVIOUS

LEMMA NoQRegType == NoQReg \in QReg
<1>1. NoNode \in QNode
  BY LinkType DEF NoNode
<1> QED BY <1>1 DEF NoQReg, QReg

\* reg[t] is changed to r, a record with the fields given.
RegIs(t, h, l, n, f, c, e) ==
  /\ qreg' \in [Thread -> QReg] /\ qreg'[t].head = h /\ qreg'[t].tail = l
  /\ qreg'[t].next = n /\ qreg'[t].frag = f /\ qreg'[t].copy = c
  /\ qreg'[t].empty = e
  /\ \A u \in Thread \ {t} : qreg'[u] = qreg[u]

\* The fields of a call's local variables.
LEMMA RegFields ==
  ASSUME NEW r \in QReg
  PROVE  /\ r.head \in QNode /\ r.tail \in QNode /\ r.next \in QNode
         /\ r.frag \in Frag \cup {Null} /\ r.copy \in Value \cup {Null}
         /\ r.empty \in BOOLEAN
         /\ r.next.count \in 0 .. CountMod - 1
         /\ r.next.frag \in Frag \cup {Null}
         /\ r.head.frag \in Frag \cup {Null} /\ r.tail.frag \in Frag \cup {Null}
BY DEF QReg, QNode

\* One lemma for each field that an action assigns to.
LEMMA SetFrag ==
  ASSUME qreg \in [Thread -> QReg], NEW t \in Thread, NEW x \in Frag,
         qreg' = [qreg EXCEPT ![t].frag = x]
  PROVE  RegIs(t, qreg[t].head, qreg[t].tail, qreg[t].next, x, qreg[t].copy,
               qreg[t].empty)
<1>1. qreg' = [qreg EXCEPT ![t] = [qreg[t] EXCEPT !.frag = x]]
  BY Zenon
<1>2. [qreg[t] EXCEPT !.frag = x] \in QReg
  BY DEF QReg
<1>3. qreg' \in [Thread -> QReg] /\ qreg'[t] = [qreg[t] EXCEPT !.frag = x]
      /\ \A u \in Thread \ {t} : qreg'[u] = qreg[u]
  BY <1>1, <1>2, RegKept
<1> QED BY <1>3 DEF RegIs, QReg

LEMMA SetTail ==
  ASSUME qreg \in [Thread -> QReg], NEW t \in Thread, NEW x \in QNode,
         qreg' = [qreg EXCEPT ![t].tail = x]
  PROVE  RegIs(t, qreg[t].head, x, qreg[t].next, qreg[t].frag, qreg[t].copy,
               qreg[t].empty)
<1>1. qreg' = [qreg EXCEPT ![t] = [qreg[t] EXCEPT !.tail = x]]
  BY Zenon
<1>2. [qreg[t] EXCEPT !.tail = x] \in QReg
  BY DEF QReg
<1>3. qreg' \in [Thread -> QReg] /\ qreg'[t] = [qreg[t] EXCEPT !.tail = x]
      /\ \A u \in Thread \ {t} : qreg'[u] = qreg[u]
  BY <1>1, <1>2, RegKept
<1> QED BY <1>3 DEF RegIs, QReg

LEMMA SetHead ==
  ASSUME qreg \in [Thread -> QReg], NEW t \in Thread, NEW x \in QNode,
         qreg' = [qreg EXCEPT ![t].head = x]
  PROVE  RegIs(t, x, qreg[t].tail, qreg[t].next, qreg[t].frag, qreg[t].copy,
               qreg[t].empty)
<1>1. qreg' = [qreg EXCEPT ![t] = [qreg[t] EXCEPT !.head = x]]
  BY Zenon
<1>2. [qreg[t] EXCEPT !.head = x] \in QReg
  BY DEF QReg
<1>3. qreg' \in [Thread -> QReg] /\ qreg'[t] = [qreg[t] EXCEPT !.head = x]
      /\ \A u \in Thread \ {t} : qreg'[u] = qreg[u]
  BY <1>1, <1>2, RegKept
<1> QED BY <1>3 DEF RegIs, QReg

LEMMA SetCopy ==
  ASSUME qreg \in [Thread -> QReg], NEW t \in Thread,
         NEW x \in Value \cup {Null}, qreg' = [qreg EXCEPT ![t].copy = x]
  PROVE  RegIs(t, qreg[t].head, qreg[t].tail, qreg[t].next, qreg[t].frag, x,
               qreg[t].empty)
<1>1. qreg' = [qreg EXCEPT ![t] = [qreg[t] EXCEPT !.copy = x]]
  BY Zenon
<1>2. [qreg[t] EXCEPT !.copy = x] \in QReg
  BY DEF QReg
<1>3. qreg' \in [Thread -> QReg] /\ qreg'[t] = [qreg[t] EXCEPT !.copy = x]
      /\ \A u \in Thread \ {t} : qreg'[u] = qreg[u]
  BY <1>1, <1>2, RegKept
<1> QED BY <1>3 DEF RegIs, QReg

LEMMA SetNextCount ==
  ASSUME qreg \in [Thread -> QReg], NEW t \in Thread,
         NEW x \in 0 .. CountMod - 1, qreg' = [qreg EXCEPT ![t].next.count = x]
  PROVE  RegIs(t, qreg[t].head, qreg[t].tail, [qreg[t].next EXCEPT !.count = x],
               qreg[t].frag, qreg[t].copy, qreg[t].empty)
<1> DEFINE n == [qreg[t].next EXCEPT !.count = x]
<1>1. qreg' = [qreg EXCEPT ![t] = [qreg[t] EXCEPT !.next = n]]
  BY Zenon
<1>2. n \in QNode
  BY DEF QReg, QNode
<1> HIDE DEF n
<1>3. [qreg[t] EXCEPT !.next = n] \in QReg
  BY <1>2 DEF QReg
<1>4. qreg' \in [Thread -> QReg] /\ qreg'[t] = [qreg[t] EXCEPT !.next = n]
      /\ \A u \in Thread \ {t} : qreg'[u] = qreg[u]
  BY <1>1, <1>3, RegKept
<1>5. RegIs(t, qreg[t].head, qreg[t].tail, n, qreg[t].frag, qreg[t].copy,
            qreg[t].empty)
  BY <1>4 DEF RegIs, QReg
<1> QED BY <1>5 DEF n

LEMMA SetNextVal ==
  ASSUME qreg \in [Thread -> QReg], NEW t \in Thread, NEW x \in Frag \cup {Null},
         qreg' = [qreg EXCEPT ![t].next.frag = x]
  PROVE  RegIs(t, qreg[t].head, qreg[t].tail, [qreg[t].next EXCEPT !.frag = x],
               qreg[t].frag, qreg[t].copy, qreg[t].empty)
<1> DEFINE n == [qreg[t].next EXCEPT !.frag = x]
<1>1. qreg' = [qreg EXCEPT ![t] = [qreg[t] EXCEPT !.next = n]]
  BY Zenon
<1>2. n \in QNode
  BY DEF QReg, QNode
<1> HIDE DEF n
<1>3. [qreg[t] EXCEPT !.next = n] \in QReg
  BY <1>2 DEF QReg
<1>4. qreg' \in [Thread -> QReg] /\ qreg'[t] = [qreg[t] EXCEPT !.next = n]
      /\ \A u \in Thread \ {t} : qreg'[u] = qreg[u]
  BY <1>1, <1>3, RegKept
<1>5. RegIs(t, qreg[t].head, qreg[t].tail, n, qreg[t].frag, qreg[t].copy,
            qreg[t].empty)
  BY <1>4 DEF RegIs, QReg
<1> QED BY <1>5 DEF n

LEMMA SetNextEmpty ==
  ASSUME qreg \in [Thread -> QReg], NEW t \in Thread, NEW x \in Frag \cup {Null},
         NEW e \in BOOLEAN,
         qreg' = [qreg EXCEPT ![t].next.frag = x, ![t].empty = e]
  PROVE  RegIs(t, qreg[t].head, qreg[t].tail, [qreg[t].next EXCEPT !.frag = x],
               qreg[t].frag, qreg[t].copy, e)
<1> DEFINE n == [qreg[t].next EXCEPT !.frag = x]
           r == [[qreg[t] EXCEPT !.next = n] EXCEPT !.empty = e]
<1>1. qreg' = [qreg EXCEPT ![t] = r]
  <2>1. qreg' \in [Thread -> {qreg'[u] : u \in Thread}]
    BY Zenon
  <2>2. qreg'[t] = r
    BY Zenon
  <2>3. \A u \in Thread \ {t} : qreg'[u] = qreg[u]
    BY Zenon
  <2> HIDE DEF r
  <2> QED BY <2>1, <2>2, <2>3
<1>2. n \in QNode
  BY DEF QReg, QNode
<1> HIDE DEF n
<1>3. r \in QReg
  BY <1>2 DEF QReg
<1>4. qreg' \in [Thread -> QReg] /\ qreg'[t] = r
      /\ \A u \in Thread \ {t} : qreg'[u] = qreg[u]
  <2> HIDE DEF r
  <2> QED BY <1>1, <1>3, RegKept
<1>5. RegIs(t, qreg[t].head, qreg[t].tail, n, qreg[t].frag, qreg[t].copy, e)
  BY <1>4 DEF RegIs, QReg
<1> QED BY <1>5 DEF n

-----------------------------------------------------------------------------
\* Steps that touch local variables and the tail only.

\* The tail stays, or it moves to the next fragment of the queue.
Swung == \/ qtail' = qtail
         \/ /\ mem[qtail.frag].frag # Null
            /\ qtail' = NodeOf(qtail.count + 1, mem[qtail.frag].frag)

\* t changes nothing but the tail and what is its own, or the pool's.
Quiet(t) ==
  /\ mem' \in [Frag -> QNode] /\ user' = user /\ \A f \in user : mem'[f] = mem[f]
  /\ data' = data /\ qhead' = qhead /\ got' = got
  /\ Swung
  /\ \A u \in Thread \ {t} :
       qpc'[u] = qpc[u] /\ qreg'[u] = qreg[u] /\ calls'[u] = calls[u]
  /\ calls[t] <= calls'[t] /\ calls'[t] \in Nat
  /\ qpc[t] # "deq_free" /\ qpc'[t] # "deq_free"
  /\ qpc'[t] \in Carries => /\ qpc[t] \in Carries \ {"enq_init", "enq_data"}
                            /\ qpc'[t] # "enq_init" /\ calls'[t] = calls[t]
                            /\ qreg'[t].frag = qreg[t].frag
  /\ qpc'[t] = "enq_alloc" => \/ qpc[t] = "enq_alloc" /\ calls'[t] = calls[t]
                              \/ calls'[t] = calls[t] + 1

\* A tail that moves has a new count and is not the head.
LEMMA SwungTail ==
  ASSUME OneEnqueuer, QTypeInv, ChainInv, HistInv, Swung
  PROVE  /\ qtail' \in QNode
         /\ qtail' = qtail \/ (qtail'.count = qtail.count + 1
                             /\ qtail'.frag = mem[qtail.frag].frag
                             /\ qtail'.frag # qhead.frag)
<1>1. CASE qtail' = qtail
  BY <1>1 DEF QTypeInv
<1>2. CASE /\ mem[qtail.frag].frag # Null
           /\ qtail' = NodeOf(qtail.count + 1, mem[qtail.frag].frag)
  <2>1. /\ mem[qtail.frag].frag \in Frag /\ mem[qtail.frag].frag # qhead.frag
        /\ qtail.count + 1 \in Nat
        /\ NodeOf(qtail.count + 1, mem[qtail.frag].frag).count = qtail.count + 1
    <3>1. /\ mem[qtail.frag].frag \in Range(Q) /\ mem[qtail.frag].frag # qhead.frag
          /\ qtail.count \in Nat
          /\ NodeOf(qtail.count + 1, mem[qtail.frag].frag).count = qtail.count + 1
      BY <1>2, TailFacts
    <3>2. Range(Q) \subseteq Frag
      BY QFacts
    <3> QED BY <3>1, <3>2
  <2>2. /\ NodeOf(qtail.count + 1, mem[qtail.frag].frag) \in QNode
        /\ NodeOf(qtail.count + 1, mem[qtail.frag].frag).frag = mem[qtail.frag].frag
    BY <2>1, LinkType
  <2> QED BY <1>2, <2>1, <2>2
<1> QED BY <1>1, <1>2 DEF Swung

\* A quiet step moves no fragment.
LEMMA QuietChain ==
  ASSUME QTypeInv, ChainInv, NEW t \in Thread, Quiet(t),
         qpc'[t] \in Carries <=> qpc[t] \in Carries
  PROVE  ChainInv'
<1>1. Q' = Q /\ IsPath(mem', Q', qhead'.frag) /\ user' = user
  BY QKept DEF Quiet
<1>2. \A u \in Thread, f \in Frag : QHolds(u, f)' <=> QHolds(u, f)
  <2> SUFFICES ASSUME NEW u \in Thread, NEW f \in Frag
               PROVE  QHolds(u, f)' <=> QHolds(u, f)
    OBVIOUS
  <2>1. CASE u = t
    <3>1. /\ qpc[t] # "deq_free" /\ qpc'[t] # "deq_free"
          /\ qpc'[t] \in Carries => qreg'[t].frag = qreg[t].frag
      BY Zenon DEF Quiet
    <3> QED BY <2>1, <3>1 DEF QHolds
  <2>2. CASE u # t
    <3>1. qpc'[u] = qpc[u] /\ qreg'[u] = qreg[u]
      BY <2>2, Zenon DEF Quiet
    <3> QED BY <3>1, Zenon DEF QHolds
  <2> QED BY <2>1, <2>2
<1>3. /\ Range(Q)' = Range(Q) /\ Range(Q) \subseteq user
      /\ \A u \in Thread, f \in Frag : QHolds(u, f) => f \in user /\ f \notin Range(Q)
      /\ \A u, w \in Thread, f \in Frag : QHolds(u, f) /\ QHolds(w, f) => u = w
      /\ \A f \in user : f \in Range(Q) \/ \E u \in Thread : QHolds(u, f)
      /\ \A f \in user : f \in Frag
  BY <1>1 DEF ChainInv, QTypeInv
<1> QED BY <1>1, <1>2, <1>3, Zenon DEF ChainInv

\* A quiet step puts no value in and takes none out.
LEMMA QuietHist ==
  ASSUME OneEnqueuer, QTypeInv, ChainInv, HistInv, NEW t \in Thread, Quiet(t),
         accepted' \subseteq PutIn,
         qpc'[t] = "enq_end" => qpc[t] = "enq_end" /\ calls'[t] = calls[t]
  PROVE  HistInv'
<1>1. /\ Q' = Q /\ data' = data /\ qhead' = qhead /\ got' = got
      /\ \A f \in user : mem'[f] = mem[f]
  BY QKept DEF Quiet
<1>2. PutIn' = PutIn
  BY <1>1 DEF PutIn
<1>3. /\ Writer \in Thread /\ calls[Writer] \in Nat
      /\ calls'[Writer] \in Nat /\ calls[Writer] <= calls'[Writer]
  <2>1. Writer \in Thread /\ calls[Writer] \in Nat
    BY WriterFacts, TailFacts
  <2>2. CASE Writer = t
    BY <2>1, <2>2 DEF Quiet
  <2>3. CASE Writer # t
    BY <2>1, <2>3 DEF Quiet
  <2> QED BY <2>1, <2>2, <2>3
<1>4. qpc'[Writer] \in Carries =>
        /\ qpc[Writer] \in Carries /\ calls'[Writer] = calls[Writer]
        /\ qreg'[Writer].frag = qreg[Writer].frag
        /\ qpc'[Writer] # "enq_init" => qpc[Writer] # "enq_init"
        /\ qpc'[Writer] \notin {"enq_init", "enq_data"} =>
             qpc[Writer] \notin {"enq_init", "enq_data"}
  <2>1. CASE Writer = t
    BY <2>1, Zenon DEF Quiet
  <2>2. CASE Writer # t
    <3>1. /\ qpc'[Writer] = qpc[Writer] /\ qreg'[Writer] = qreg[Writer]
          /\ calls'[Writer] = calls[Writer]
      BY <1>3, <2>2, Zenon DEF Quiet
    <3> QED BY <3>1, Zenon
  <2> QED BY <2>1, <2>2
<1>o. qpc'[Writer] \in Opened =>
        \/ qpc[Writer] \in Opened /\ calls'[Writer] = calls[Writer]
        \/ calls'[Writer] = calls[Writer] + 1
  <2>1. CASE Writer = t
    BY <1>4, <2>1, Zenon DEF Quiet, Opened
  <2>2. CASE Writer # t
    BY <1>3, <2>2, Zenon DEF Quiet
  <2> QED BY <2>1, <2>2
<1>m. qpc'[Writer] \in Carries => mem'[qreg[Writer].frag] = mem[qreg[Writer].frag]
  <2> SUFFICES ASSUME qpc'[Writer] \in Carries
               PROVE  qreg[Writer].frag \in user
    BY <1>1
  <2>1. qpc[Writer] \in Carries /\ qpc[Writer] \in EnqPc
    BY <1>4 DEF EnqPc
  <2>2. qreg[Writer].frag \in Frag
    BY <1>3, <2>1, Zenon DEF QTypeInv
  <2>3. QHolds(Writer, qreg[Writer].frag)
    BY <2>1 DEF QHolds
  <2> QED BY <1>3, <2>2, <2>3, Zenon DEF ChainInv
<1>5. \E k \in 1 .. Len(Q) :
        qtail'.frag = Q[k] /\ qtail'.count = Len(got) + k - 1
  <2>1. PICK k \in 1 .. Len(Q) :
          qtail.frag = Q[k] /\ qtail.count = Len(got) + k - 1
    BY DEF HistInv
  <2>2. CASE qtail' = qtail
    BY <2>1, <2>2
  <2>3. CASE qtail' # qtail
    <3>1. /\ qtail'.count = qtail.count + 1 /\ qtail'.frag = mem[qtail.frag].frag
          /\ mem[qtail.frag].frag # Null
      <4>1. Swung
        BY DEF Quiet
      <4>2. mem[qtail.frag].frag # Null
        BY <2>3, <4>1 DEF Swung
      <4> QED BY <2>3, <4>1, <4>2, SwungTail
    <3>2. /\ Len(Q) \in Nat /\ k # Len(Q) /\ mem[Q[k]].frag = Q[k + 1]
      BY <2>1, <3>1, QFacts
    <3>3. k + 1 \in 1 .. Len(Q) /\ Len(got) \in Nat
      BY <2>1, <3>2 DEF HistInv
    <3>4. qtail'.frag = Q[k + 1] /\ qtail'.count = Len(got) + (k + 1) - 1
      BY <2>1, <3>1, <3>2, <3>3
    <3> QED BY <3>3, <3>4
  <2> QED BY <2>2, <2>3
<1>6. /\ Len(got) + Len(Q) - 1 <= calls'[Writer]
      /\ qpc'[Writer] \in Opened =>
           Len(got) + Len(Q) <= calls'[Writer] /\ calls'[Writer] >= 1
  <2>1. Len(got) \in Nat /\ Len(Q) \in Nat /\ calls'[Writer] \in Int
        /\ Len(got) + Len(Q) - 1 <= calls[Writer]
        /\ (qpc[Writer] \in Opened =>
              Len(got) + Len(Q) <= calls[Writer] /\ calls[Writer] >= 1)
    BY <1>3, QFacts DEF HistInv
  <2>2. Len(got) + Len(Q) - 1 <= calls'[Writer]
    BY <1>3, <2>1
  <2>3. CASE qpc[Writer] \in Opened /\ calls'[Writer] = calls[Writer]
    BY <2>1, <2>2, <2>3
  <2>4. CASE calls'[Writer] = calls[Writer] + 1
    BY <1>3, <2>1, <2>2, <2>4
  <2> QED BY <1>o, <2>2, <2>3, <2>4
<1>7. \A v \in PutIn : \E n \in 1 .. calls'[Writer] :
        v = <<Writer, n>> /\ (qpc'[Writer] \in Opened => n < calls'[Writer])
  <2> SUFFICES ASSUME NEW v \in PutIn
               PROVE  \E n \in 1 .. calls'[Writer] : v = <<Writer, n>>
                        /\ (qpc'[Writer] \in Opened => n < calls'[Writer])
    OBVIOUS
  <2>1. PICK n \in 1 .. calls[Writer] :
          v = <<Writer, n>> /\ (qpc[Writer] \in Opened => n < calls[Writer])
    BY DEF HistInv
  <2>2. n \in 1 .. calls'[Writer]
    BY <1>3
  <2>3. calls'[Writer] = calls[Writer] + 1 => n < calls'[Writer]
    BY <1>3
  <2>4. qpc[Writer] \in Opened /\ calls'[Writer] = calls[Writer] => n < calls'[Writer]
    BY <2>1
  <2> QED BY <1>o, <2>1, <2>2, <2>3, <2>4, Zenon
<1>8. qpc'[Writer] = "enq_end" => <<Writer, calls'[Writer]>> \in PutIn
  <2>1. CASE Writer = t
    BY <2>1, Zenon DEF HistInv
  <2>2. CASE Writer # t
    <3>1. qpc'[Writer] = qpc[Writer] /\ calls'[Writer] = calls[Writer]
      BY <1>3, <2>2, Zenon DEF Quiet
    <3> QED BY <3>1, Zenon DEF HistInv
  <2> QED BY <2>1, <2>2
<1>9. qpc'[Writer] \in Carries =>
        /\ qpc'[Writer] # "enq_init" => mem'[qreg'[Writer].frag] = NoNode
        /\ qpc'[Writer] \notin {"enq_init", "enq_data"} =>
             data[qreg'[Writer].frag] = <<Writer, calls'[Writer]>>
  BY <1>4, <1>m, Zenon DEF HistInv
<1>10. NoNode' = NoNode
  BY DEF NoNode, NodeOf
<1>11. got \in Seq(Value) /\ qhead.count = Len(got)
  BY DEF HistInv
<1> QED BY <1>1, <1>2, <1>5, <1>6, <1>7, <1>8, <1>9, <1>10, <1>11 DEF HistInv

-----------------------------------------------------------------------------
\* What the other calls have read is still true after a step of t.
Stable(t) ==
  /\ qtail' = qtail \/ (qtail'.count = qtail.count + 1 /\ qtail'.frag # qhead.frag)
  /\ qhead' = qhead \/ qhead'.count = qhead.count + 1
  /\ \A x \in Range(Q) :
       mem'[x].frag = mem[x].frag \/ (mem[x].frag = Null /\ t = Writer)
  /\ t # Writer => \A x \in Range(Q) : mem[x].frag = Null => x \in Range(Q)'
  /\ \A x \in Range(Q) : data'[x] = data[x]
  /\ \A u \in Thread \ {t} : qpc'[u] = qpc[u] /\ qreg'[u] = qreg[u]

\* A stable step does not invalidate what another call has read.
LEMMA OthersSeen ==
  ASSUME OneEnqueuer, QTypeInv, ChainInv, HistInv,
         NEW t \in Thread, Stable(t), NEW u \in Thread, u # t, QSeen(u)
  PROVE  QSeen(u)'
<1>1. qpc'[u] = qpc[u] /\ qreg'[u] = qreg[u]
  BY DEF Stable
<1>2. /\ qtail.frag \in Range(Q) /\ qhead.frag \in Range(Q)
      /\ qhead.count \in Nat /\ qtail.count \in Nat
  BY TailFacts, QFacts
<1>3. /\ qreg[u].head.count \in Nat /\ qreg[u].tail.count \in Nat
      /\ qreg[u].next.frag \in Frag \cup {Null} /\ Null \notin Frag
  <2>1. qreg[u] \in QReg
    BY DEF QTypeInv
  <2> QED BY <2>1, RegFields, WriterFacts DEF QNode
<1>4. /\ QHeadSeen(u)'
      /\ (qpc[u] \in QHeadRead /\ qreg[u].head = qhead' => qhead' = qhead)
  <2>1. qhead' = qhead \/ qhead'.count = qhead.count + 1
    BY DEF Stable
  <2>2. CASE qpc[u] \notin QHeadRead
    BY <1>1, <2>2, Zenon DEF QHeadSeen
  <2>3. CASE qpc[u] \in QHeadRead
    <3>1. /\ qreg[u].head.count <= qhead.count
          /\ qreg[u].head.count = qhead.count => qreg[u].head = qhead
      BY <2>3, Zenon DEF QSeen, QHeadSeen
    <3>2. CASE qhead' = qhead
      BY <1>1, <3>1, <3>2 DEF QHeadSeen
    <3>3. CASE qhead'.count = qhead.count + 1
      <4>1. qreg[u].head.count <= qhead'.count /\ qreg[u].head.count # qhead'.count
        BY <1>2, <1>3, <3>1, <3>3
      <4> QED BY <1>1, <4>1, Zenon DEF QHeadSeen
    <3> QED BY <2>1, <3>2, <3>3
  <2> QED BY <2>2, <2>3
<1>5. /\ QTailSeen(u)'
      /\ (qpc[u] \in QTailRead /\ qreg[u].tail = qtail' => qtail' = qtail)
  <2>1. qtail' = qtail \/ qtail'.count = qtail.count + 1
    BY DEF Stable
  <2>2. CASE qpc[u] \notin QTailRead
    BY <1>1, <2>2, Zenon DEF QTailSeen
  <2>3. CASE qpc[u] \in QTailRead
    <3>1. /\ qreg[u].tail.count <= qtail.count
          /\ qreg[u].tail.count = qtail.count => qreg[u].tail = qtail
      BY <2>3, Zenon DEF QSeen, QTailSeen
    <3>2. CASE qtail' = qtail
      BY <1>1, <3>1, <3>2 DEF QTailSeen
    <3>3. CASE qtail'.count = qtail.count + 1
      <4>1. qreg[u].tail.count <= qtail'.count /\ qreg[u].tail.count # qtail'.count
        BY <1>2, <1>3, <3>1, <3>3
      <4> QED BY <1>1, <4>1, Zenon DEF QTailSeen
    <3> QED BY <2>1, <3>2, <3>3
  <2> QED BY <2>2, <2>3
<1>6. EnqSeen(u)'
  <2>1. CASE qpc[u] \notin EnqPc
    BY <1>1, <2>1, Zenon DEF EnqSeen, EnqPc, Carries
  <2>2. CASE qpc[u] \in EnqPc
    <3>1. u = Writer /\ t # Writer
      BY <2>2 DEF QTypeInv
    <3>2. /\ \A x \in Range(Q) : mem'[x].frag = mem[x].frag
          /\ \A x \in Range(Q) : mem[x].frag = Null => x \in Range(Q)'
      BY <3>1, Zenon DEF Stable
    <3>3. /\ qpc[u] \in {"enq_check", "enq_swing"} /\ qreg[u].tail = qtail'
             => mem'[qtail'.frag].frag = qreg[u].next.frag
          /\ qpc[u] = "enq_end" /\ qreg[u].tail = qtail' =>
               mem'[qtail'.frag].frag = qreg[u].frag
      BY <1>2, <1>5, <3>2, Zenon DEF QSeen, EnqSeen, QTailRead
    <3>4. qpc[u] = "enq_link" =>
            /\ qreg[u].tail.frag \in Range(Q)'
            /\ mem'[qreg[u].tail.frag].frag = Null
      BY <3>2, Zenon DEF QSeen, EnqSeen
    <3>5. qpc[u] = "enq_swing" => qreg[u].next.frag \in Frag
      BY Zenon DEF QSeen, EnqSeen
    <3> QED BY <1>1, <3>3, <3>4, <3>5, Zenon DEF EnqSeen
  <2> QED BY <2>1, <2>2
<1>7. DeqSeen(u)'
  <2>1. \A x \in Range(Q) : mem[x].frag # Null => mem'[x].frag = mem[x].frag
    BY Zenon DEF Stable
  <2>2. /\ qpc[u] \in NextRead \cup {"deq_next"}
        /\ qreg[u].head = qhead' /\ qreg[u].tail.frag # qhead'.frag
        => qtail'.frag # qhead'.frag
    <3>1. SUFFICES ASSUME qpc[u] \in NextRead \cup {"deq_next"},
                          qreg[u].head = qhead', qreg[u].tail.frag # qhead'.frag
                   PROVE  qtail'.frag # qhead'.frag
      OBVIOUS
    <3>2. qhead' = qhead
      BY <1>4, <3>1, Zenon DEF QHeadRead, NextRead
    <3>3. qtail.frag # qhead.frag
      BY <3>1, <3>2, Zenon DEF QSeen, DeqSeen
    <3> QED BY <3>2, <3>3 DEF Stable
  <2>3. qpc[u] \in NextRead /\ qreg[u].head = qhead' =>
          IF qreg[u].next.frag = Null
          THEN qreg[u].empty /\ qreg[u].tail.frag = qhead'.frag
          ELSE mem'[qhead'.frag].frag = qreg[u].next.frag
    <3>1. SUFFICES ASSUME qpc[u] \in NextRead, qreg[u].head = qhead'
                   PROVE  IF qreg[u].next.frag = Null
                          THEN qreg[u].empty /\ qreg[u].tail.frag = qhead'.frag
                          ELSE mem'[qhead'.frag].frag = qreg[u].next.frag
      OBVIOUS
    <3>2. qhead' = qhead
      BY <1>4, <3>1, Zenon DEF QHeadRead, NextRead
    <3>3. IF qreg[u].next.frag = Null
          THEN qreg[u].empty /\ qreg[u].tail.frag = qhead.frag
          ELSE mem[qhead.frag].frag = qreg[u].next.frag
      BY <3>1, <3>2, Zenon DEF QSeen, DeqSeen
    <3> QED BY <1>2, <2>1, <3>2, <3>3, Zenon
  <2>4. /\ qpc[u] \in NextRead /\ qreg[u].tail = qtail'
        /\ qreg[u].head.frag = qtail'.frag /\ qreg[u].next.frag # Null
        => mem'[qtail'.frag].frag = qreg[u].next.frag
    <3>1. SUFFICES ASSUME qpc[u] \in NextRead, qreg[u].tail = qtail',
                          qreg[u].head.frag = qtail'.frag, qreg[u].next.frag # Null
                   PROVE  mem'[qtail'.frag].frag = qreg[u].next.frag
      OBVIOUS
    <3>2. qtail' = qtail
      BY <1>5, <3>1, Zenon DEF QTailRead
    <3>3. mem[qtail.frag].frag = qreg[u].next.frag
      BY <3>1, <3>2, Zenon DEF QSeen, DeqSeen
    <3> QED BY <1>2, <2>1, <3>1, <3>2, <3>3, Zenon
  <2>5. qpc[u] = "deq_take" /\ qreg[u].head = qhead' =>
          qreg[u].copy = data'[qreg[u].next.frag]
    <3>1. SUFFICES ASSUME qpc[u] = "deq_take", qreg[u].head = qhead'
                   PROVE  qreg[u].copy = data'[qreg[u].next.frag]
      OBVIOUS
    <3>2. qhead' = qhead
      BY <1>4, <3>1, Zenon DEF QHeadRead
    <3>3. /\ qreg[u].copy = data[qreg[u].next.frag] /\ qreg[u].next.frag # Null
          /\ mem[qhead.frag].frag = qreg[u].next.frag
      BY <1>3, <3>1, <3>2, Zenon DEF QSeen, DeqSeen, NextRead
    <3>4. qreg[u].next.frag \in Range(Q)
      BY <1>2, <3>3, QFacts
    <3> QED BY <3>3, <3>4 DEF Stable
  <2>6. /\ qpc[u] \in {"deq_copy", "deq_take"} =>
             qreg[u].next.frag \in Frag /\ qreg[u].head.frag # qreg[u].tail.frag
        /\ qpc[u] = "deq_swing" =>
             qreg[u].next.frag \in Frag /\ qreg[u].head.frag = qreg[u].tail.frag
        /\ qpc[u] = "deq_empty" => qreg[u].empty
    BY Zenon DEF QSeen, DeqSeen
  <2> QED BY <1>1, <2>2, <2>3, <2>4, <2>5, <2>6, Zenon DEF DeqSeen
<1> QED BY <1>4, <1>5, <1>6, <1>7, Zenon DEF QSeen

\* A call that has read nothing yet.
LEMMA NothingSeen ==
  ASSUME NEW t, qpc'[t] \in {"idle", "enq_alloc", "deq_put", "enq_init",
                             "enq_data", "enq_tail",
                            "deq_head", "deq_free"}
  PROVE  QSeen(t)'
BY Zenon DEF QSeen, QHeadSeen, QTailSeen, EnqSeen, DeqSeen, QHeadRead, QTailRead,
             NextRead

\* Quiet steps are stable.
LEMMA QuietStable ==
  ASSUME OneEnqueuer, QTypeInv, ChainInv, HistInv, NEW t \in Thread, Quiet(t)
  PROVE  Stable(t)
<1>1. Q' = Q
  BY QKept DEF Quiet
<1>2. qtail' = qtail \/ (qtail'.count = qtail.count + 1 /\ qtail'.frag # qhead.frag)
  BY SwungTail DEF Quiet
<1>3. /\ qhead' = qhead /\ data' = data /\ \A f \in user : mem'[f] = mem[f]
      /\ \A u \in Thread \ {t} : qpc'[u] = qpc[u] /\ qreg'[u] = qreg[u]
  BY Zenon DEF Quiet
<1>4. /\ \A x \in Range(Q) : mem'[x].frag = mem[x].frag /\ data'[x] = data[x]
      /\ \A x \in Range(Q) : x \in Range(Q)'
  BY <1>1, <1>3, QFacts
<1>5. (qhead' = qhead) \/ (qhead'.count = qhead.count + 1)
  BY <1>3
<1>6. /\ \A x \in Range(Q) :
           mem'[x].frag = mem[x].frag \/ (mem[x].frag = Null /\ t = Writer)
      /\ t # Writer =>
           \A x \in Range(Q) : mem[x].frag = Null => x \in Range(Q)'
      /\ \A x \in Range(Q) : data'[x] = data[x]
  BY <1>4, Zenon
<1> QED BY <1>2, <1>3, <1>5, <1>6, Zenon DEF Stable

\* Quiet steps keep the types.
LEMMA QuietType ==
  ASSUME OneEnqueuer, QTypeInv, ChainInv, HistInv, NEW t \in Thread, Quiet(t),
         qpc' \in [Thread -> QLabel], qreg' \in [Thread -> QReg],
         calls' \in [Thread -> Nat], calls'[t] <= MaxCalls[t],
         qpc'[t] \in EnqPc => t = Writer /\ qreg'[t].frag \in Frag,
         qpc'[t] = "enq_alloc" => t = Writer
  PROVE  QTypeInv'
<1>1. qtail' \in QNode
  BY SwungTail DEF Quiet
<1>2. \A u \in Thread : calls'[u] <= MaxCalls[u]
  <2> SUFFICES ASSUME NEW u \in Thread PROVE calls'[u] <= MaxCalls[u]
    OBVIOUS
  <2>1. CASE u # t
    <3>1. calls'[u] = calls[u]
      BY <2>1, Zenon DEF Quiet
    <3> QED BY <3>1 DEF QTypeInv
  <2> QED BY <2>1
<1>3. \A u \in Thread :
        /\ qpc'[u] \in EnqPc => u = Writer /\ qreg'[u].frag \in Frag
        /\ qpc'[u] = "enq_alloc" => u = Writer
        /\ qpc'[u] = "deq_free" => qreg'[u].head.frag \in Frag
  <2> SUFFICES ASSUME NEW u \in Thread
               PROVE  /\ qpc'[u] \in EnqPc => u = Writer /\ qreg'[u].frag \in Frag
                      /\ qpc'[u] = "enq_alloc" => u = Writer
                      /\ qpc'[u] = "deq_free" => qreg'[u].head.frag \in Frag
    OBVIOUS
  <2>1. CASE u = t
    BY <2>1, Zenon DEF Quiet
  <2>2. CASE u # t
    <3>1. qpc'[u] = qpc[u] /\ qreg'[u] = qreg[u]
      BY <2>2, Zenon DEF Quiet
    <3> QED BY <3>1, Zenon DEF QTypeInv
  <2> QED BY <2>1, <2>2
<1>4. /\ mem' \in [Frag -> QNode] /\ data' \in [Frag -> Value \cup {Null}]
      /\ user' \subseteq Frag /\ qhead' \in QNode
  BY Zenon DEF QTypeInv, Quiet
<1> QED BY <1>1, <1>2, <1>3, <1>4, Zenon DEF QTypeInv

\* A quiet step keeps the invariant if it does so for the call that takes it.
Typed(t) ==
  /\ qpc' \in [Thread -> QLabel] /\ qreg' \in [Thread -> QReg]
  /\ calls' \in [Thread -> Nat] /\ calls'[t] <= MaxCalls[t]
  /\ qpc'[t] \in EnqPc => t = Writer /\ qreg'[t].frag \in Frag
  /\ qpc'[t] = "enq_alloc" => t = Writer
  /\ qpc'[t] \in Carries <=> qpc[t] \in Carries
  /\ qpc'[t] = "enq_end" => qpc[t] = "enq_end" /\ calls'[t] = calls[t]

LEMMA QuietInv ==
  ASSUME OneEnqueuer, QIndInv, NEW t \in Thread, Quiet(t), Typed(t),
         accepted' \subseteq PutIn, QSeen(t)'
  PROVE  QIndInv'
<1>1. QTypeInv /\ ChainInv /\ HistInv /\ \A u \in Thread : QSeen(u)
  BY DEF QIndInv
<1>2. QTypeInv'
  BY <1>1, QuietType DEF Typed
<1>3. ChainInv'
  BY <1>1, QuietChain DEF Typed
<1>4. HistInv'
  BY <1>1, QuietHist DEF Typed
<1>5. \A u \in Thread : QSeen(u)'
  BY <1>1, QuietStable, OthersSeen
<1> QED BY <1>2, <1>3, <1>4, <1>5 DEF QIndInv

\* Steps of calls that change nothing but their own variables.
Private == /\ mem' = mem /\ user' = user /\ calls' = calls /\ data' = data
           /\ qhead' = qhead /\ qtail' = qtail /\ accepted' = accepted /\ got' = got

\* The parts of the invariant.
LEMMA Parts ==
  ASSUME QIndInv
  PROVE  /\ QTypeInv /\ ChainInv /\ HistInv
         /\ qpc \in [Thread -> QLabel] /\ qreg \in [Thread -> QReg]
         /\ calls \in [Thread -> Nat] /\ accepted \subseteq PutIn
         /\ \A t \in Thread : QSeen(t) /\ qreg[t] \in QReg /\ calls[t] \in Nat
                              /\ calls[t] <= MaxCalls[t]
                              /\ (qpc[t] \in EnqPc =>
                                    t = Writer /\ qreg[t].frag \in Frag)
                              /\ (qpc[t] = "enq_alloc" => t = Writer)
BY DEF QIndInv, QTypeInv, HistInv

\* The step of a call that reads shared memory and writes to its variables.
LEMMA PrivateInv ==
  ASSUME OneEnqueuer, QIndInv, NEW t \in Thread, Private,
         NEW l \in QLabel, QGoto(t, l),
         qreg' \in [Thread -> QReg], \A u \in Thread \ {t} : qreg'[u] = qreg[u],
         qpc[t] # "deq_free",
         l \notin {"deq_free", "enq_alloc", "enq_init", "enq_data", "enq_end"},
         l \in Carries <=> qpc[t] \in Carries,
         l \in Carries => /\ qpc[t] \notin {"enq_init", "enq_data"}
                          /\ qreg'[t].frag = qreg[t].frag,
         QSeen(t)'
  PROVE  QIndInv'
<1>1. /\ QTypeInv /\ ChainInv /\ HistInv /\ qpc \in [Thread -> QLabel]
      /\ calls \in [Thread -> Nat] /\ accepted \subseteq PutIn
      /\ calls[t] \in Nat /\ calls[t] <= MaxCalls[t]
      /\ (qpc[t] \in EnqPc => t = Writer /\ qreg[t].frag \in Frag)
  BY Parts
<1>2. /\ qpc' \in [Thread -> QLabel] /\ qpc'[t] = l
      /\ \A u \in Thread \ {t} : qpc'[u] = qpc[u]
  BY <1>1, GotoFacts
<1>3. Typed(t)
  <2>1. l \in EnqPc => t = Writer /\ qreg'[t].frag \in Frag
    BY <1>1, Zenon DEF EnqPc
  <2> QED BY <1>1, <1>2, <2>1, Zenon DEF Typed, Private
<1>4. Quiet(t)
  <2>1. calls[t] <= calls[t] /\ mem \in [Frag -> QNode]
    BY <1>1 DEF QTypeInv
  <2> QED BY <1>1, <1>2, <2>1, Zenon DEF Quiet, Private, Swung
<1>5. accepted' \subseteq PutIn
  BY <1>1 DEF Private
<1> QED BY <1>3, <1>4, <1>5, QuietInv

-----------------------------------------------------------------------------
\* The steps of queue_enqueue that only read.

\* enq_tail: self->tail is read.
LEMMA EnqTailInv ==
  ASSUME OneEnqueuer, QIndInv, NEW t \in Thread, EnqTail(t) PROVE QIndInv'
<1>1. /\ qpc[t] = "enq_tail" /\ qreg' = [qreg EXCEPT ![t].tail = qtail]
      /\ QGoto(t, "enq_next_count") /\ Private
  BY DEF EnqTail, Private, vars
<1>2. /\ QTypeInv /\ ChainInv /\ HistInv /\ qpc \in [Thread -> QLabel]
      /\ qreg \in [Thread -> QReg]
  BY Parts
<1>3. RegIs(t, qreg[t].head, qtail, qreg[t].next, qreg[t].frag, qreg[t].copy,
            qreg[t].empty)
  <2>1. qtail \in QNode
    BY <1>2 DEF QTypeInv
  <2> QED BY <1>1, <1>2, <2>1, SetTail
<1>4. "enq_next_count" \in QLabel /\ qpc'[t] = "enq_next_count"
  BY <1>1, <1>2, GotoFacts DEF QLabel
<1>5. QSeen(t)'
  <2>1. qtail.count \in Nat /\ qreg'[t].tail = qtail' /\ qtail' = qtail
    BY <1>1, <1>2, <1>3, TailFacts DEF RegIs, Private
  <2>2. qreg'[t].tail.count <= qtail'.count
    BY <2>1
  <2>3. QTailSeen(t)'
    BY <2>1, <2>2, Zenon DEF QTailSeen
  <2> QED BY <1>4, <2>3, Zenon DEF QSeen, QHeadSeen, EnqSeen, DeqSeen, QHeadRead,
                                   NextRead
<1> QED BY <1>1, <1>3, <1>4, <1>5, PrivateInv, Zenon DEF RegIs, Carries

\* enq_next_count: the count of the link behind it is read.
LEMMA EnqNextCountInv ==
  ASSUME OneEnqueuer, QIndInv, NEW t \in Thread, EnqNextCount(t) PROVE QIndInv'
<1>1. /\ qpc[t] = "enq_next_count" /\ qreg[t].tail.frag \in Frag
      /\ qreg' = [qreg EXCEPT ![t].next.count = mem[qreg[t].tail.frag].count]
      /\ QGoto(t, "enq_next_val") /\ Private
  BY DEF EnqNextCount, Private, vars
<1>2. /\ QTypeInv /\ ChainInv /\ HistInv /\ qpc \in [Thread -> QLabel]
      /\ qreg \in [Thread -> QReg] /\ QSeen(t)
  BY Parts
<1>3. RegIs(t, qreg[t].head, qreg[t].tail,
            [qreg[t].next EXCEPT !.count = mem[qreg[t].tail.frag].count],
            qreg[t].frag, qreg[t].copy, qreg[t].empty)
  <2>1. mem[qreg[t].tail.frag].count \in 0 .. CountMod - 1
    BY <1>1, <1>2 DEF QTypeInv, QNode
  <2> QED BY <1>1, <1>2, <2>1, SetNextCount
<1>4. "enq_next_val" \in QLabel /\ qpc'[t] = "enq_next_val"
  BY <1>1, <1>2, GotoFacts DEF QLabel
<1>5. QSeen(t)'
  <2>1. qreg'[t].tail = qreg[t].tail /\ qtail' = qtail
    BY <1>1, <1>3, Zenon DEF RegIs, Private
  <2>2. QTailSeen(t)'
    BY <1>1, <1>2, <2>1, Zenon DEF QTailSeen, QTailRead, QSeen
  <2> QED BY <1>4, <2>2, Zenon DEF QSeen, QHeadSeen, EnqSeen, DeqSeen, QHeadRead,
                                   NextRead
<1> QED BY <1>1, <1>3, <1>4, <1>5, PrivateInv, Zenon DEF RegIs, Carries

\* enq_next_val: so is its pointer.
LEMMA EnqNextValInv ==
  ASSUME OneEnqueuer, QIndInv, NEW t \in Thread, EnqNextVal(t) PROVE QIndInv'
<1>1. /\ qpc[t] = "enq_next_val" /\ qreg[t].tail.frag \in Frag
      /\ qreg' = [qreg EXCEPT ![t].next.frag = mem[qreg[t].tail.frag].frag]
      /\ QGoto(t, "enq_check") /\ Private
  BY DEF EnqNextVal, Private, vars
<1>2. /\ QTypeInv /\ ChainInv /\ HistInv /\ qpc \in [Thread -> QLabel]
      /\ qreg \in [Thread -> QReg] /\ QSeen(t) /\ qreg[t] \in QReg
  BY Parts
<1> DEFINE n == [qreg[t].next EXCEPT !.frag = mem[qreg[t].tail.frag].frag]
<1>3. /\ RegIs(t, qreg[t].head, qreg[t].tail, n, qreg[t].frag, qreg[t].copy,
               qreg[t].empty)
      /\ n.frag = mem[qreg[t].tail.frag].frag
  <2>1. mem[qreg[t].tail.frag].frag \in Frag \cup {Null}
    BY <1>1, <1>2 DEF QTypeInv, QNode
  <2>2. n.frag = mem[qreg[t].tail.frag].frag
    BY <1>2, RegFields DEF QNode
  <2> QED BY <1>1, <1>2, <2>1, <2>2, SetNextVal
<1> HIDE DEF n
<1>4. "enq_check" \in QLabel /\ qpc'[t] = "enq_check"
  BY <1>1, <1>2, GotoFacts DEF QLabel
<1>5. QSeen(t)'
  <2>1. /\ qreg'[t].tail = qreg[t].tail /\ qtail' = qtail /\ mem' = mem
        /\ qreg'[t].next.frag = mem[qreg[t].tail.frag].frag
    BY <1>1, <1>3, Zenon DEF RegIs, Private
  <2>2. QTailSeen(t)'
    BY <1>1, <1>2, <2>1, Zenon DEF QTailSeen, QTailRead, QSeen
  <2>3. EnqSeen(t)'
    BY <1>4, <2>1, Zenon DEF EnqSeen
  <2> QED BY <1>4, <2>2, <2>3, Zenon DEF QSeen, QHeadSeen, DeqSeen, QHeadRead,
                                         NextRead
<1> QED BY <1>1, <1>3, <1>4, <1>5, PrivateInv, Zenon DEF RegIs, Carries

\* enq_check: what was read belongs together.
LEMMA EnqCheckInv ==
  ASSUME OneEnqueuer, QIndInv, NEW t \in Thread, EnqCheck(t) PROVE QIndInv'
<1> DEFINE l == IF qreg[t].tail # qtail THEN "enq_tail"
                ELSE IF qreg[t].next.frag = Null THEN "enq_link" ELSE "enq_swing"
<1>1. /\ qpc[t] = "enq_check" /\ QGoto(t, l) /\ Private /\ qreg' = qreg
  BY DEF EnqCheck, Private, vars
<1>2. /\ QTypeInv /\ ChainInv /\ HistInv /\ qpc \in [Thread -> QLabel]
      /\ qreg \in [Thread -> QReg] /\ QSeen(t) /\ qreg[t] \in QReg
  BY Parts
<1>3. l \in {"enq_tail", "enq_link", "enq_swing"} /\ l \in QLabel
  BY DEF QLabel
<1>4. /\ l # "enq_tail" => qreg[t].tail = qtail
      /\ l = "enq_link" => qreg[t].next.frag = Null
      /\ l = "enq_swing" => qreg[t].next.frag # Null
  OBVIOUS
<1> HIDE DEF l
<1>5. qpc'[t] = l
  BY <1>1, <1>2, <1>3, GotoFacts
<1>6. QSeen(t)'
  <2>1. Q' = Q /\ mem' = mem /\ qtail' = qtail /\ qreg' = qreg
    BY <1>1, QSame DEF Private
  <2>2. /\ qtail.frag \in Range(Q)
        /\ qreg[t].tail = qtail => mem[qtail.frag].frag = qreg[t].next.frag
    BY <1>1, <1>2, TailFacts DEF QSeen, EnqSeen
  <2>3. QTailSeen(t)'
    BY <1>1, <1>2, <2>1, Zenon DEF QTailSeen, QTailRead, QSeen
  <2>4. qreg[t].next.frag # Null => qreg[t].next.frag \in Frag
    BY <1>2, RegFields
  <2>5. EnqSeen(t)'
    <3>1. Range(Q)' = Range(Q)
      BY <2>1
    <3> QED BY <1>3, <1>4, <1>5, <2>1, <2>2, <2>4, <3>1, Zenon DEF EnqSeen
  <2> QED BY <1>3, <1>5, <2>3, <2>5, Zenon DEF QSeen, QHeadSeen, DeqSeen,
                                               QHeadRead, NextRead
<1> QED BY <1>1, <1>2, <1>3, <1>6, PrivateInv, Zenon DEF Carries

\* A call that starts anew with what it has.
LEMMA AgainInv ==
  ASSUME OneEnqueuer, QIndInv, NEW t \in Thread, Private, qreg' = qreg,
         \/ qpc[t] = "enq_link" /\ QGoto(t, "enq_tail")
         \/ qpc[t] = "deq_take" /\ QGoto(t, "deq_head")
  PROVE  QIndInv'
<1>1. qpc \in [Thread -> QLabel] /\ qreg \in [Thread -> QReg]
  BY Parts
<1>2. CASE qpc[t] = "enq_link" /\ QGoto(t, "enq_tail")
  <2>1. "enq_tail" \in QLabel /\ qpc'[t] = "enq_tail"
    BY <1>1, <1>2, GotoFacts DEF QLabel
  <2>2. QSeen(t)'
    BY <2>1, NothingSeen
  <2> QED BY <1>1, <1>2, <2>1, <2>2, PrivateInv, Zenon DEF Carries
<1>3. CASE qpc[t] = "deq_take" /\ QGoto(t, "deq_head")
  <2>1. "deq_head" \in QLabel /\ qpc'[t] = "deq_head"
    BY <1>1, <1>3, GotoFacts DEF QLabel
  <2>2. QSeen(t)'
    BY <2>1, NothingSeen
  <2> QED BY <1>1, <1>3, <2>1, <2>2, PrivateInv, Zenon DEF Carries
<1> QED BY <1>2, <1>3

\* Moving the tail is done when a call has seen what follows it.
LEMMA SwingSwung ==
  ASSUME NEW t, NEW f \in Frag, QSwingTail(t, f), Null \notin Frag,
         qreg[t].tail = qtail => mem[qtail.frag].frag = f
  PROVE  Swung
BY DEF QSwingTail, Swung

\* enq_swing: the tail is helped along.
LEMMA EnqSwingInv ==
  ASSUME OneEnqueuer, QIndInv, NEW t \in Thread, EnqSwing(t) PROVE QIndInv'
<1>1. /\ qpc[t] = "enq_swing" /\ QSwingTail(t, qreg[t].next.frag)
      /\ QGoto(t, "enq_tail") /\ mem' = mem /\ data' = data /\ user' = user
      /\ qhead' = qhead /\ qreg' = qreg /\ calls' = calls
      /\ accepted' = accepted /\ got' = got
  BY DEF EnqSwing, vars
<1>2. /\ qpc \in [Thread -> QLabel] /\ qreg \in [Thread -> QReg] /\ QSeen(t)
      /\ calls \in [Thread -> Nat] /\ calls[t] <= MaxCalls[t]
      /\ calls[t] \in Nat /\ accepted \subseteq PutIn
      /\ (qpc[t] \in EnqPc => t = Writer /\ qreg[t].frag \in Frag)
  BY Parts
<1>3. Swung
  <2>1. /\ qreg[t].next.frag \in Frag
        /\ qreg[t].tail = qtail => mem[qtail.frag].frag = qreg[t].next.frag
    BY <1>1, <1>2, Zenon DEF QSeen, EnqSeen
  <2> QED BY <1>1, <2>1, SwingSwung, WriterFacts
<1>4. /\ qpc' \in [Thread -> QLabel] /\ qpc'[t] = "enq_tail"
      /\ \A u \in Thread \ {t} : qpc'[u] = qpc[u]
  <2>1. "enq_tail" \in QLabel
    BY DEF QLabel
  <2> QED BY <1>1, <1>2, <2>1, GotoFacts
<1>5. Quiet(t)
  <2>1. calls[t] <= calls[t] /\ mem \in [Frag -> QNode]
    BY <1>2, Parts DEF QTypeInv
  <2> QED BY <1>1, <1>2, <1>3, <1>4, <2>1, Zenon DEF Quiet, Carries
<1>6. Typed(t)
  BY <1>1, <1>2, <1>4, Zenon DEF Typed, Carries, EnqPc
<1>7. QSeen(t)' /\ accepted' \subseteq PutIn
  BY <1>1, <1>2, <1>4, NothingSeen
<1> QED BY <1>5, <1>6, <1>7, QuietInv

\* enq_end: the tail is moved to the new fragment, if nobody has done it.
LEMMA EnqEndInv ==
  ASSUME OneEnqueuer, QIndInv, NEW t \in Thread, EnqEnd(t) PROVE QIndInv'
<1>1. /\ qpc[t] = "enq_end" /\ QSwingTail(t, qreg[t].frag)
      /\ accepted' = accepted \cup {<<t, calls[t]>>}
      /\ qreg' = [qreg EXCEPT ![t] = NoQReg] /\ QGoto(t, "idle")
      /\ mem' = mem /\ data' = data /\ user' = user
      /\ qhead' = qhead /\ calls' = calls /\ got' = got
  BY DEF EnqEnd, vars, Current
<1>2. /\ qpc \in [Thread -> QLabel] /\ qreg \in [Thread -> QReg] /\ QSeen(t)
      /\ calls \in [Thread -> Nat] /\ calls[t] <= MaxCalls[t]
      /\ calls[t] \in Nat /\ accepted \subseteq PutIn /\ HistInv
      /\ (qpc[t] \in EnqPc => t = Writer /\ qreg[t].frag \in Frag)
  BY Parts
<1>3. Swung
  <2>1. /\ qreg[t].frag \in Frag
        /\ qreg[t].tail = qtail => mem[qtail.frag].frag = qreg[t].frag
    BY <1>1, <1>2, Zenon DEF QSeen, EnqSeen, EnqPc
  <2> QED BY <1>1, <2>1, SwingSwung, WriterFacts
<1>4. /\ qpc' \in [Thread -> QLabel] /\ qpc'[t] = "idle"
      /\ \A u \in Thread \ {t} : qpc'[u] = qpc[u]
  <2>1. "idle" \in QLabel
    BY DEF QLabel
  <2> QED BY <1>1, <1>2, <2>1, GotoFacts
<1>5. qreg' \in [Thread -> QReg] /\ \A u \in Thread \ {t} : qreg'[u] = qreg[u]
  BY <1>1, <1>2, NoQRegType, RegKept
<1>6. Quiet(t)
  <2>1. calls[t] <= calls[t] /\ mem \in [Frag -> QNode]
    BY <1>2, Parts DEF QTypeInv
  <2> QED BY <1>1, <1>2, <1>3, <1>4, <1>5, <2>1, Zenon DEF Quiet, Carries
<1>7. Typed(t)
  BY <1>1, <1>2, <1>4, <1>5, Zenon DEF Typed, Carries, EnqPc
<1>8. QSeen(t)'
  BY <1>4, NothingSeen
<1>9. accepted' \subseteq PutIn
  <2>1. t = Writer
    BY <1>1, <1>2, Zenon DEF EnqPc
  <2>2. <<t, calls[t]>> \in PutIn
    BY <1>1, <1>2, <2>1 DEF HistInv
  <2> QED BY <1>1, <1>2, <2>2
<1> QED BY <1>6, <1>7, <1>8, <1>9, QuietInv

-----------------------------------------------------------------------------
\* The steps of a call that is in mempool_alloc, or in mempool_free.

\* A step within the pool that touches no fragment of the user.
Pooled == /\ mem' \in [Frag -> QNode] /\ user' = user
          /\ \A f \in user : mem'[f] = mem[f]
          /\ calls' = calls /\ data' = data /\ qhead' = qhead /\ qtail' = qtail
          /\ accepted' = accepted /\ got' = got

\* It is quiet, whether or not the call is at its end.
LEMMA PooledInv ==
  ASSUME OneEnqueuer, QIndInv, NEW t \in Thread, Pooled,
         qpc[t] \in {"enq_alloc", "deq_put"},
         \/ qpc' = qpc /\ qreg' = qreg
         \/ /\ QGoto(t, "idle") /\ qreg' \in [Thread -> QReg]
            /\ \A u \in Thread \ {t} : qreg'[u] = qreg[u]
  PROVE  QIndInv'
<1>1. /\ qpc \in [Thread -> QLabel] /\ qreg \in [Thread -> QReg] /\ QSeen(t)
      /\ calls \in [Thread -> Nat] /\ calls[t] \in Nat
      /\ calls[t] <= MaxCalls[t] /\ accepted \subseteq PutIn
      /\ qpc[t] = "enq_alloc" => t = Writer
  BY Parts
<1>2. /\ qpc' \in [Thread -> QLabel] /\ qpc'[t] \in {"idle", qpc[t]}
      /\ qreg' \in [Thread -> QReg]
      /\ \A u \in Thread \ {t} : qpc'[u] = qpc[u] /\ qreg'[u] = qreg[u]
  <2>1. "idle" \in QLabel
    BY DEF QLabel
  <2> QED BY <1>1, <2>1, GotoFacts
<1>3. Quiet(t)
  <2>1. calls[t] <= calls[t]
    BY <1>1
  <2> QED BY <1>1, <1>2, <2>1, Zenon DEF Quiet, Pooled, Swung, Carries
<1>4. Typed(t)
  BY <1>1, <1>2, Zenon DEF Typed, Pooled, Carries, EnqPc
<1>5. QSeen(t)'
  BY <1>2, Zenon DEF QSeen, QHeadSeen, QTailSeen, EnqSeen, DeqSeen, QHeadRead,
                     QTailRead, NextRead
<1>6. accepted' \subseteq PutIn
  BY <1>1 DEF Pooled
<1> QED BY <1>3, <1>4, <1>5, <1>6, QuietInv

\* queue_enqueue calls mempool_alloc: it is the writer that does.
LEMMA EnqueueInv ==
  ASSUME OneEnqueuer, QIndInv, NEW t \in Thread, Enqueue(t) PROVE QIndInv'
<1>1. /\ t \in Enqueuer /\ qpc[t] = "idle" /\ calls[t] < MaxCalls[t]
      /\ calls' = [calls EXCEPT ![t] = @ + 1] /\ QGoto(t, "enq_alloc")
      /\ mem' = mem /\ user' = user /\ data' = data /\ qhead' = qhead
      /\ qtail' = qtail /\ qreg' = qreg /\ accepted' = accepted /\ got' = got
  BY DEF Enqueue, Alloc
<1>2. /\ qpc \in [Thread -> QLabel] /\ qreg \in [Thread -> QReg]
      /\ calls \in [Thread -> Nat] /\ calls[t] \in Nat
      /\ accepted \subseteq PutIn /\ mem \in [Frag -> QNode]
  BY Parts DEF QTypeInv
<1>3. /\ qpc' \in [Thread -> QLabel] /\ qpc'[t] = "enq_alloc"
      /\ \A u \in Thread \ {t} : qpc'[u] = qpc[u]
  <2>1. "enq_alloc" \in QLabel
    BY DEF QLabel
  <2> QED BY <1>1, <1>2, <2>1, GotoFacts
<1>4. /\ calls' \in [Thread -> Nat] /\ calls'[t] = calls[t] + 1
      /\ \A u \in Thread \ {t} : calls'[u] = calls[u]
  BY <1>1, <1>2, CallFacts
<1>5. /\ calls[t] <= calls'[t] /\ calls'[t] \in Nat
      /\ calls'[t] <= MaxCalls[t]
  <2>1. MaxCalls[t] \in Nat
    BY MemPoolAssumption
  <2> QED BY <1>1, <1>2, <1>4, <2>1
<1>6. Quiet(t)
  BY <1>1, <1>2, <1>3, <1>4, <1>5, Zenon DEF Quiet, Swung, Carries
<1>7. Typed(t)
  <2>1. t = Writer
    BY <1>1, WriterFacts
  <2> QED BY <1>1, <1>2, <1>3, <1>4, <1>5, <2>1, Zenon DEF Typed, Carries, EnqPc
<1>8. QSeen(t)'
  BY <1>3, NothingSeen
<1> QED BY <1>1, <1>2, <1>6, <1>7, <1>8, QuietInv

\* internal_mempool_pick writes to no fragment.
LEMMA EnqPickInv ==
  ASSUME OneEnqueuer, QIndInv, NEW t \in Thread, EnqPick(t) \/ EnqFails(t)
  PROVE  QIndInv'
<1>1. /\ qpc[t] = "enq_alloc" /\ mem' = mem /\ user' = user /\ calls' = calls
      /\ data' = data /\ qhead' = qhead /\ qtail' = qtail /\ qreg' = qreg
      /\ accepted' = accepted /\ got' = got
      /\ qpc' = qpc \/ QGoto(t, "idle")
  BY DEF EnqPick, EnqFails, qvars, PickHead, PickTail, PickNext, PickCheck,
         PickSwing, PickTake, PickFail
<1>2. qreg \in [Thread -> QReg] /\ mem \in [Frag -> QNode]
  BY Parts DEF QTypeInv
<1>3. Pooled
  BY <1>1, <1>2, Zenon DEF Pooled
<1> QED BY <1>1, <1>2, <1>3, PooledInv, Zenon

\* Nor does internal_mempool_put write to a fragment that the queue owns, as
\* long as calls of it do not overlap.
LEMMA PutSpares ==
  ASSUME IndInv, NEW t \in Thread, PutInit(t) \/ PutLink(t), NEW f \in user
  PROVE  mem'[f] = mem[f]
<1>1. TypeInv /\ Layout /\ Seen(t)
  BY Facts, Zenon DEF IndInv
<1>2. PICK own, pos : Chains(own, pos) /\ Places(own) /\ TailIn(own, pos)
  BY <1>1, Zenon DEF Layout
<1>3. /\ ~ Holds(t, f) /\ own[f] = Null /\ f \in Frag
      /\ mem \in [Frag -> Node] /\ own[tail.frag] # Null
  BY <1>1, <1>2, TypesStay, LayoutFacts DEF Places
<1>4. CASE PutInit(t)
  <2>1. reg[t].frag # f
    BY <1>3, <1>4 DEF PutInit, Holds, Holding
  <2> QED BY <1>3, <1>4, <2>1 DEF PutInit
<1>5. CASE PutLink(t)
  <2>1. reg[t].tail = tail
    BY <1>1, <1>5 DEF PutLink, Seen, PutSeen
  <2>2. reg[t].tail.frag # f
    BY <1>3, <2>1
  <2> QED BY <1>3, <1>5, <2>2 DEF PutLink
<1> QED BY <1>4, <1>5

\* What it stores is a link.
LEMMA PutStores ==
  ASSUME IndInv, mem \in [Frag -> QNode], NEW t \in Thread, PutInit(t) \/ PutLink(t)
  PROVE  mem' \in [Frag -> QNode]
<1>1. CASE PutInit(t)
  <2>1. NoNode \in QNode
    BY LinkType DEF NoNode
  <2> QED BY <1>1, <2>1 DEF PutInit
<1>2. CASE PutLink(t)
  <2>1. CASE mem' = mem
    BY <2>1
  <2>2. CASE mem' = [mem EXCEPT ![reg[t].tail.frag] = NodeOf(@.count + 1, reg[t].frag)]
    <3>1. reg[t].frag \in Frag /\ reg[t].tail.frag \in Frag
      BY <1>2 DEF IndInv, TypeInv, PutLink, Unlinked, TailRead, PutRead
    <3>2. mem[reg[t].tail.frag].count + 1 \in Nat
      BY <3>1, MemPoolAssumption DEF QNode
    <3>3. NodeOf(mem[reg[t].tail.frag].count + 1, reg[t].frag) \in QNode
      BY <3>1, <3>2, LinkType
    <3> QED BY <2>2, <3>3
  <2> QED BY <1>2, <2>1, <2>2 DEF PutLink
<1> QED BY <1>1, <1>2

LEMMA DeqPutInv ==
  ASSUME OneEnqueuer, IndInv, QIndInv, NEW t \in Thread, DeqPut(t) \/ DeqDone(t)
  PROVE  QIndInv'
<1>1. /\ qpc[t] = "deq_put" /\ user' = user /\ calls' = calls
      /\ data' = data /\ qhead' = qhead /\ qtail' = qtail
      /\ accepted' = accepted /\ got' = got
      /\ mem' = mem \/ PutInit(t) \/ PutLink(t)
      /\ \/ qpc' = qpc /\ qreg' = qreg
         \/ QGoto(t, "idle") /\ qreg' = [qreg EXCEPT ![t] = NoQReg]
  BY DEF DeqPut, DeqDone, qvars, PutInit, PutTail, PutNextCount, PutNextFrag,
         PutCheck, PutLink, PutSwing, PutEnd, PutCount
<1>2. qreg \in [Thread -> QReg] /\ mem \in [Frag -> QNode]
  BY Parts DEF QTypeInv
<1>3. Pooled
  <2>1. mem' \in [Frag -> QNode] /\ \A f \in user : mem'[f] = mem[f]
    BY <1>1, <1>2, PutSpares, PutStores
  <2> QED BY <1>1, <2>1, Zenon DEF Pooled
<1>4. \/ qpc' = qpc /\ qreg' = qreg
      \/ /\ QGoto(t, "idle") /\ qreg' \in [Thread -> QReg]
         /\ \A u \in Thread \ {t} : qreg'[u] = qreg[u]
  BY <1>1, <1>2, NoQRegType, RegKept
<1> QED BY <1>1, <1>3, <1>4, PooledInv, Zenon

\* queue_dequeue begins.
LEMMA DequeueInv ==
  ASSUME OneEnqueuer, QIndInv, NEW t \in Thread, Dequeue(t) PROVE QIndInv'
<1>1. qpc[t] = "idle" /\ QGoto(t, "deq_head") /\ Private /\ qreg' = qreg
  BY DEF Dequeue, Private, vars
<1>2. qpc \in [Thread -> QLabel] /\ qreg \in [Thread -> QReg]
  BY Parts
<1>3. "deq_head" \in QLabel /\ qpc'[t] = "deq_head"
  BY <1>1, <1>2, GotoFacts DEF QLabel
<1>4. QSeen(t)'
  BY <1>3, NothingSeen
<1> QED BY <1>1, <1>2, <1>3, <1>4, PrivateInv, Zenon DEF Carries

-----------------------------------------------------------------------------
\* The steps of queue_dequeue that only read.

\* deq_head: self->head is read.
LEMMA DeqHeadInv ==
  ASSUME OneEnqueuer, QIndInv, NEW t \in Thread, DeqHead(t) PROVE QIndInv'
<1>1. /\ qpc[t] = "deq_head" /\ qreg' = [qreg EXCEPT ![t].head = qhead]
      /\ QGoto(t, "deq_tail") /\ Private
  BY DEF DeqHead, Private, vars
<1>2. /\ QTypeInv /\ ChainInv /\ HistInv /\ qpc \in [Thread -> QLabel]
      /\ qreg \in [Thread -> QReg]
  BY Parts
<1>3. RegIs(t, qhead, qreg[t].tail, qreg[t].next, qreg[t].frag, qreg[t].copy,
            qreg[t].empty)
  <2>1. qhead \in QNode
    BY <1>2 DEF QTypeInv
  <2> QED BY <1>1, <1>2, <2>1, SetHead
<1>4. "deq_tail" \in QLabel /\ qpc'[t] = "deq_tail"
  BY <1>1, <1>2, GotoFacts DEF QLabel
<1>5. QSeen(t)'
  <2>1. qhead.count \in Nat /\ qreg'[t].head = qhead' /\ qhead' = qhead
    BY <1>1, <1>2, <1>3, TailFacts DEF RegIs, Private
  <2>2. qreg'[t].head.count <= qhead'.count
    BY <2>1
  <2>3. QHeadSeen(t)'
    BY <2>1, <2>2, Zenon DEF QHeadSeen
  <2> QED BY <1>4, <2>3, Zenon DEF QSeen, QTailSeen, EnqSeen, DeqSeen, QTailRead,
                                   NextRead
<1> QED BY <1>1, <1>3, <1>4, <1>5, PrivateInv, Zenon DEF RegIs, Carries

\* deq_tail: self->tail is read.
LEMMA DeqTailInv ==
  ASSUME OneEnqueuer, QIndInv, NEW t \in Thread, DeqTail(t) PROVE QIndInv'
<1>1. /\ qpc[t] = "deq_tail" /\ qreg' = [qreg EXCEPT ![t].tail = qtail]
      /\ QGoto(t, "deq_next") /\ Private
  BY DEF DeqTail, Private, vars
<1>2. /\ QTypeInv /\ ChainInv /\ HistInv /\ qpc \in [Thread -> QLabel]
      /\ qreg \in [Thread -> QReg] /\ QSeen(t)
  BY Parts
<1>3. RegIs(t, qreg[t].head, qtail, qreg[t].next, qreg[t].frag, qreg[t].copy,
            qreg[t].empty)
  <2>1. qtail \in QNode
    BY <1>2 DEF QTypeInv
  <2> QED BY <1>1, <1>2, <2>1, SetTail
<1>4. "deq_next" \in QLabel /\ qpc'[t] = "deq_next"
  BY <1>1, <1>2, GotoFacts DEF QLabel
<1>5. QSeen(t)'
  <2>1. /\ qtail.count \in Nat /\ qreg'[t].tail = qtail' /\ qtail' = qtail
        /\ qreg'[t].head = qreg[t].head /\ qhead' = qhead
    BY <1>1, <1>2, <1>3, TailFacts DEF RegIs, Private
  <2>2. qreg'[t].tail.count <= qtail'.count
    BY <2>1
  <2>3. QTailSeen(t)'
    BY <2>1, <2>2, Zenon DEF QTailSeen
  <2>4. QHeadSeen(t)'
    BY <1>1, <1>2, <2>1, Zenon DEF QSeen, QHeadSeen, QHeadRead
  <2>5. DeqSeen(t)'
    BY <1>4, <2>1, Zenon DEF DeqSeen, NextRead
  <2> QED BY <1>4, <2>3, <2>4, <2>5, Zenon DEF QSeen, EnqSeen
<1> QED BY <1>1, <1>3, <1>4, <1>5, PrivateInv, Zenon DEF RegIs, Carries

\* A dummy without a successor: there is nothing in the queue.
LEMMA NothingThere ==
  ASSUME OneEnqueuer, QTypeInv, ChainInv, HistInv, mem[qhead.frag].frag = Null
  PROVE  items = <<>> /\ qtail.frag = qhead.frag
<1>1. Len(Q) = 1
  <2>1. /\ Len(Q) \in Nat /\ Len(Q) >= 1
        /\ IF 1 = Len(Q) THEN mem[Q[1]].frag = Null ELSE mem[Q[1]].frag = Q[2]
        /\ Q[1] = qhead.frag /\ \A i \in 1 .. Len(Q) : Q[i] \in Frag
    <3>1. /\ Len(Q) \in Nat /\ Len(Q) >= 1 /\ Q[1] = qhead.frag
          /\ \A i \in 1 .. Len(Q) : Q[i] \in Frag
          /\ \A i \in 1 .. Len(Q) : IF i = Len(Q) THEN mem[Q[i]].frag = Null
                                    ELSE mem[Q[i]].frag = Q[i + 1]
      BY QFacts
    <3>2. 1 \in 1 .. Len(Q) /\ 1 + 1 = 2
      BY <3>1
    <3>3. IF 1 = Len(Q) THEN mem[Q[1]].frag = Null
          ELSE mem[Q[1]].frag = Q[1 + 1]
      BY <3>1, <3>2
    <3> QED BY <3>1, <3>2, <3>3
  <2> DEFINE n == Len(Q)
  <2>2. n \in Nat /\ n >= 1 /\ (n >= 2 => Q[2] \in Frag)
    BY <2>1
  <2>3. n # 1 => Q[2] = Null
    BY <2>1
  <2>4. Null \notin Frag
    BY WriterFacts
  <2> HIDE DEF n
  <2>5. n = 1
    BY <2>2, <2>3, <2>4
  <2> QED BY <2>5 DEF n
<1>2. items = [i \in 1 .. 1 - 1 |-> data[Q[i + 1]]]
  BY <1>1, PathIsPathIn DEF items, Q
<1>3. items = <<>>
  BY <1>2
<1>4. qtail.frag \in Range(Q) /\ Range(Q) = {Q[i] : i \in 1 .. Len(Q)}
      /\ Q[1] = qhead.frag
  BY TailFacts, QFacts
<1> QED BY <1>1, <1>3, <1>4

\* deq_next: the successor of the dummy is read, if it is still the dummy.
LEMMA DeqNextInv ==
  ASSUME OneEnqueuer, QIndInv, NEW t \in Thread, DeqNext(t) PROVE QIndInv'
<1>1. /\ qpc[t] = "deq_next" /\ qreg[t].head.frag \in Frag
      /\ qreg' = [qreg EXCEPT ![t].next.frag = mem[qreg[t].head.frag].frag,
                            ![t].empty = (items = <<>>)]
      /\ QGoto(t, "deq_check") /\ Private
  BY Zenon DEF DeqNext, Private, vars
<1>2. /\ QTypeInv /\ ChainInv /\ HistInv /\ qpc \in [Thread -> QLabel]
      /\ qreg \in [Thread -> QReg] /\ QSeen(t) /\ qreg[t] \in QReg
  BY Parts
<1> DEFINE n == [qreg[t].next EXCEPT !.frag = mem[qreg[t].head.frag].frag]
           e == (items = <<>>)
<1>3. /\ RegIs(t, qreg[t].head, qreg[t].tail, n, qreg[t].frag, qreg[t].copy, e)
      /\ n.frag = mem[qreg[t].head.frag].frag
  <2>1. mem[qreg[t].head.frag].frag \in Frag \cup {Null}
    BY <1>1, <1>2 DEF QTypeInv, QNode
  <2>2. n.frag = mem[qreg[t].head.frag].frag
    BY <1>2, RegFields DEF QNode
  <2>3. e \in BOOLEAN
    BY Zenon
  <2>4. qreg' = [qreg EXCEPT ![t].next.frag = mem[qreg[t].head.frag].frag,
                           ![t].empty = e]
    BY <1>1
  <2> HIDE DEF e
  <2>5. RegIs(t, qreg[t].head, qreg[t].tail, n, qreg[t].frag, qreg[t].copy, e)
    BY <1>2, <2>1, <2>3, <2>4, SetNextEmpty
  <2> QED BY <2>2, <2>5
<1> HIDE DEF n
<1>4. "deq_check" \in QLabel /\ qpc'[t] = "deq_check"
  BY <1>1, <1>2, GotoFacts DEF QLabel
<1>5. QSeen(t)'
  <2>1. /\ qreg'[t].tail = qreg[t].tail /\ qtail' = qtail /\ mem' = mem
        /\ qreg'[t].head = qreg[t].head /\ qhead' = qhead
        /\ qreg'[t].next.frag = mem[qreg[t].head.frag].frag
        /\ qreg'[t].empty = e
    BY <1>1, <1>3, Zenon DEF RegIs, Private
  <2>2. QTailSeen(t)'
    BY <1>1, <1>2, <2>1, Zenon DEF QTailSeen, QTailRead, QSeen
  <2>3. QHeadSeen(t)'
    BY <1>1, <1>2, <2>1, Zenon DEF QSeen, QHeadSeen, QHeadRead
  <2>4. qreg[t].head = qhead /\ qreg[t].tail.frag # qhead.frag => qtail.frag # qhead.frag
    BY <1>1, <1>2, Zenon DEF QSeen, DeqSeen
  <2>5. mem[qhead.frag].frag = Null => e /\ qtail.frag = qhead.frag
    BY <1>2, NothingThere
  <2> HIDE DEF e
  <2>6. qreg[t].head = qhead =>
          IF qreg'[t].next.frag = Null
          THEN qreg'[t].empty /\ qreg'[t].tail.frag = qhead.frag
          ELSE mem[qhead.frag].frag = qreg'[t].next.frag
    BY <2>1, <2>4, <2>5, Zenon
  <2>7. DeqSeen(t)'
    BY <1>4, <2>1, <2>4, <2>6, Zenon DEF DeqSeen
  <2> QED BY <1>4, <2>2, <2>3, <2>7, Zenon DEF QSeen, EnqSeen
<1> QED BY <1>1, <1>3, <1>4, <1>5, PrivateInv, Zenon DEF RegIs, Carries

\* deq_check: what was read belongs together.
LEMMA DeqCheckInv ==
  ASSUME OneEnqueuer, QIndInv, NEW t \in Thread, DeqCheck(t) PROVE QIndInv'
<1> DEFINE l == IF qreg[t].head # qhead THEN "deq_head" ELSE DeqBranch(t)
<1>1. /\ qpc[t] = "deq_check" /\ QGoto(t, l) /\ Private /\ qreg' = qreg
  BY DEF DeqCheck, Private, vars
<1>2. /\ QTypeInv /\ ChainInv /\ HistInv /\ qpc \in [Thread -> QLabel]
      /\ qreg \in [Thread -> QReg] /\ QSeen(t) /\ qreg[t] \in QReg
  BY Parts
<1>3. l \in {"deq_head", "deq_copy", "deq_empty", "deq_swing"} /\ l \in QLabel
  BY DEF QLabel, DeqBranch
<1>4. /\ l # "deq_head" => qreg[t].head = qhead
      /\ l = "deq_copy" => qreg[t].head.frag # qreg[t].tail.frag
      /\ l \in {"deq_swing", "deq_empty"} => qreg[t].head.frag = qreg[t].tail.frag
      /\ l = "deq_empty" => qreg[t].next.frag = Null
      /\ l = "deq_swing" => qreg[t].next.frag # Null
  BY DEF DeqBranch
<1> HIDE DEF l
<1>5. qpc'[t] = l
  BY <1>1, <1>2, <1>3, GotoFacts
<1>6. QSeen(t)'
  <2>1. qhead' = qhead /\ mem' = mem /\ qtail' = qtail /\ qreg' = qreg
    BY <1>1, QSame DEF Private
  <2>2. /\ /\ qreg[t].head = qhead /\ qreg[t].tail.frag # qhead.frag
           => qtail.frag # qhead.frag
        /\ qreg[t].head = qhead =>
             IF qreg[t].next.frag = Null
             THEN qreg[t].empty /\ qreg[t].tail.frag = qhead.frag
             ELSE mem[qhead.frag].frag = qreg[t].next.frag
        /\ /\ qreg[t].tail = qtail
           /\ qreg[t].head.frag = qtail.frag /\ qreg[t].next.frag # Null
           => mem[qtail.frag].frag = qreg[t].next.frag
    BY <1>1, <1>2, Zenon DEF QSeen, DeqSeen, NextRead
  <2>3. QTailSeen(t)'
    BY <1>1, <1>2, <2>1, Zenon DEF QTailSeen, QTailRead, NextRead, QSeen
  <2>4. QHeadSeen(t)'
    BY <1>1, <1>2, <2>1, Zenon DEF QHeadSeen, QHeadRead, QSeen
  <2>5. qreg[t].next.frag # Null => qreg[t].next.frag \in Frag
    BY <1>2, RegFields
  <2>6. DeqSeen(t)'
    <3>1. /\ l = "deq_copy" => qreg[t].next.frag # Null
          /\ l = "deq_empty" => qreg[t].empty
      BY <1>4, <2>2, Zenon
    <3> QED BY <1>3, <1>4, <1>5, <2>1, <2>2, <2>5, <3>1, Zenon
           DEF DeqSeen, NextRead
  <2> QED BY <1>3, <1>5, <2>3, <2>4, <2>6, Zenon DEF QSeen, EnqSeen
<1>7. l \in Carries <=> qpc[t] \in Carries
  BY <1>1, <1>3, Zenon DEF Carries
<1>8. /\ qpc[t] # "deq_free"
      /\ l \notin {"deq_free", "enq_alloc", "enq_init", "enq_data", "enq_end"}
      /\ l \notin Carries
  BY <1>1, <1>3, Zenon DEF Carries
<1> QED BY <1>1, <1>2, <1>3, <1>6, <1>7, <1>8, PrivateInv, Zenon

\* deq_copy: the value is copied, if the dummy is still the dummy.
LEMMA DeqCopyInv ==
  ASSUME OneEnqueuer, QIndInv, NEW t \in Thread, DeqCopy(t) PROVE QIndInv'
<1>1. /\ qpc[t] = "deq_copy" /\ qreg[t].next.frag \in Frag
      /\ qreg' = [qreg EXCEPT ![t].copy = data[qreg[t].next.frag]]
      /\ QGoto(t, "deq_take") /\ Private
  BY DEF DeqCopy, Private, vars
<1>2. /\ QTypeInv /\ ChainInv /\ HistInv /\ qpc \in [Thread -> QLabel]
      /\ qreg \in [Thread -> QReg] /\ QSeen(t)
  BY Parts
<1>3. RegIs(t, qreg[t].head, qreg[t].tail, qreg[t].next, qreg[t].frag,
            data[qreg[t].next.frag], qreg[t].empty)
  <2>1. data[qreg[t].next.frag] \in Value \cup {Null}
    BY <1>1, <1>2 DEF QTypeInv
  <2> QED BY <1>1, <1>2, <2>1, SetCopy
<1>4. "deq_take" \in QLabel /\ qpc'[t] = "deq_take"
  BY <1>1, <1>2, GotoFacts DEF QLabel
<1>5. QSeen(t)'
  <2>1. /\ qreg'[t].tail = qreg[t].tail /\ qtail' = qtail /\ mem' = mem
        /\ qreg'[t].head = qreg[t].head /\ qhead' = qhead /\ data' = data
        /\ qreg'[t].next = qreg[t].next /\ qreg'[t].empty = qreg[t].empty
        /\ qreg'[t].copy = data[qreg[t].next.frag]
    BY <1>1, <1>3, Zenon DEF RegIs, Private
  <2>2. QTailSeen(t)'
    BY <1>1, <1>2, <2>1, Zenon DEF QTailSeen, QTailRead, NextRead, QSeen
  <2>3. QHeadSeen(t)'
    BY <1>1, <1>2, <2>1, Zenon DEF QHeadSeen, QHeadRead, QSeen
  <2>4. DeqSeen(t)'
    BY <1>1, <1>2, <1>4, <2>1, Zenon DEF DeqSeen, NextRead, QSeen
  <2> QED BY <1>4, <2>2, <2>3, <2>4, Zenon DEF QSeen, EnqSeen
<1> QED BY <1>1, <1>3, <1>4, <1>5, PrivateInv, Zenon DEF RegIs, Carries

\* deq_empty: ENOENT is returned.
LEMMA DeqEmptyInv ==
  ASSUME OneEnqueuer, QIndInv, NEW t \in Thread, DeqEmpty(t) PROVE QIndInv'
<1>1. /\ qpc[t] = "deq_empty" /\ qreg' = [qreg EXCEPT ![t] = NoQReg]
      /\ QGoto(t, "idle") /\ Private
  BY DEF DeqEmpty, Private, vars
<1>2. qpc \in [Thread -> QLabel] /\ qreg \in [Thread -> QReg]
  BY Parts
<1>3. qreg' \in [Thread -> QReg] /\ \A u \in Thread \ {t} : qreg'[u] = qreg[u]
  BY <1>1, <1>2, NoQRegType, RegKept
<1>4. "idle" \in QLabel /\ qpc'[t] = "idle"
  BY <1>1, <1>2, GotoFacts DEF QLabel
<1>5. QSeen(t)'
  BY <1>4, NothingSeen
<1> QED BY <1>1, <1>3, <1>4, <1>5, PrivateInv, Zenon DEF Carries

\* deq_swing: the tail is helped along.
LEMMA DeqSwingInv ==
  ASSUME OneEnqueuer, QIndInv, NEW t \in Thread, DeqSwing(t) PROVE QIndInv'
<1>1. /\ qpc[t] = "deq_swing" /\ QSwingTail(t, qreg[t].next.frag)
      /\ QGoto(t, "deq_head") /\ mem' = mem /\ data' = data /\ user' = user
      /\ qhead' = qhead /\ qreg' = qreg /\ calls' = calls
      /\ accepted' = accepted /\ got' = got
  BY DEF DeqSwing, vars
<1>2. /\ qpc \in [Thread -> QLabel] /\ qreg \in [Thread -> QReg] /\ QSeen(t)
      /\ calls \in [Thread -> Nat] /\ calls[t] <= MaxCalls[t]
      /\ calls[t] \in Nat /\ accepted \subseteq PutIn
      /\ (qpc[t] \in EnqPc => t = Writer /\ qreg[t].frag \in Frag)
  BY Parts
<1>3. Swung
  <2>1. /\ qreg[t].next.frag \in Frag /\ Null \notin Frag
        /\ qreg[t].head.frag = qreg[t].tail.frag
        /\ /\ qreg[t].tail = qtail
           /\ qreg[t].head.frag = qtail.frag /\ qreg[t].next.frag # Null
           => mem[qtail.frag].frag = qreg[t].next.frag
    BY <1>1, <1>2, WriterFacts, Zenon DEF QSeen, DeqSeen, NextRead
  <2>2. qreg[t].tail = qtail => mem[qtail.frag].frag = qreg[t].next.frag
    BY <2>1
  <2> QED BY <1>1, <2>1, <2>2, SwingSwung
<1>4. /\ qpc' \in [Thread -> QLabel] /\ qpc'[t] = "deq_head"
      /\ \A u \in Thread \ {t} : qpc'[u] = qpc[u]
  <2>1. "deq_head" \in QLabel
    BY DEF QLabel
  <2> QED BY <1>1, <1>2, <2>1, GotoFacts
<1>5. Quiet(t)
  <2>1. calls[t] <= calls[t] /\ mem \in [Frag -> QNode]
    BY <1>2, Parts DEF QTypeInv
  <2> QED BY <1>1, <1>2, <1>3, <1>4, <2>1, Zenon DEF Quiet, Carries
<1>6. Typed(t)
  BY <1>1, <1>2, <1>4, Zenon DEF Typed, Carries, EnqPc
<1>7. QSeen(t)' /\ accepted' \subseteq PutIn
  BY <1>1, <1>2, <1>4, NothingSeen
<1> QED BY <1>5, <1>6, <1>7, QuietInv

-----------------------------------------------------------------------------
\* The steps that move a fragment.

\* The type invariant, one part at a time.
LEMMA NewType ==
  ASSUME OneEnqueuer, QIndInv, NEW t \in Thread,
         mem' \in [Frag -> QNode], data' \in [Frag -> Value \cup {Null}],
         user' \subseteq Frag, qhead' \in QNode, qtail' \in QNode,
         qpc' \in [Thread -> QLabel], qreg' \in [Thread -> QReg],
         \A u \in Thread \ {t} : qpc'[u] = qpc[u] /\ qreg'[u] = qreg[u],
         calls' \in [Thread -> Nat], \A u \in Thread : calls'[u] <= MaxCalls[u],
         qpc'[t] \in EnqPc => t = Writer /\ qreg'[t].frag \in Frag,
         qpc'[t] # "enq_alloc",
         qpc'[t] = "deq_free" => qreg'[t].head.frag \in Frag
  PROVE  QTypeInv'
<1>1. \A u \in Thread :
        /\ qpc'[u] \in EnqPc => u = Writer /\ qreg'[u].frag \in Frag
        /\ qpc'[u] = "enq_alloc" => u = Writer
        /\ qpc'[u] = "deq_free" => qreg'[u].head.frag \in Frag
  <2> SUFFICES ASSUME NEW u \in Thread
               PROVE  /\ qpc'[u] \in EnqPc => u = Writer /\ qreg'[u].frag \in Frag
                      /\ qpc'[u] = "enq_alloc" => u = Writer
                      /\ qpc'[u] = "deq_free" => qreg'[u].head.frag \in Frag
    OBVIOUS
  <2>1. CASE u = t
    BY <2>1, Zenon
  <2>2. CASE u # t
    <3>1. qpc'[u] = qpc[u] /\ qreg'[u] = qreg[u]
      BY <2>2, Zenon
    <3> QED BY <3>1, Zenon DEF QIndInv, QTypeInv
  <2> QED BY <2>1, <2>2
<1> QED BY <1>1, Zenon DEF QTypeInv

\* Who holds what after a step of t, and before.
LEMMA HoldsOf ==
  ASSUME NEW t \in Thread,
         \A u \in Thread \ {t} : qpc'[u] = qpc[u] /\ qreg'[u] = qreg[u]
  PROVE  /\ \A u \in Thread \ {t}, f \in Frag : QHolds(u, f)' <=> QHolds(u, f)
         /\ qpc'[t] \in Carries => \A f : QHolds(t, f)' <=> f = qreg'[t].frag
         /\ qpc'[t] = "deq_free" => \A f : QHolds(t, f)' <=> f = qreg'[t].head.frag
         /\ qpc'[t] \notin Carries \cup {"deq_free"} => \A f : ~ QHolds(t, f)'
<1>1. \A u \in Thread \ {t}, f \in Frag : QHolds(u, f)' <=> QHolds(u, f)
  BY Zenon DEF QHolds
<1>2. "deq_free" \notin Carries
  BY DEF Carries
<1>3. /\ qpc'[t] \in Carries => \A f : QHolds(t, f)' <=> f = qreg'[t].frag
      /\ qpc'[t] = "deq_free" => \A f : QHolds(t, f)' <=> f = qreg'[t].head.frag
      /\ qpc'[t] \notin Carries \cup {"deq_free"} => \A f : ~ QHolds(t, f)'
  BY <1>2, Zenon DEF QHolds
<1> QED BY <1>1, <1>3

LEMMA HoldsNow ==
  ASSUME NEW t
  PROVE  /\ qpc[t] \in Carries => \A f : QHolds(t, f) <=> f = qreg[t].frag
         /\ qpc[t] = "deq_free" => \A f : QHolds(t, f) <=> f = qreg[t].head.frag
         /\ qpc[t] \notin Carries \cup {"deq_free"} => \A f : ~ QHolds(t, f)
<1>1. "deq_free" \notin Carries
  BY DEF Carries
<1> QED BY <1>1, Zenon DEF QHolds

\* The queue of the next state, and who holds what then.
LEMMA NewChain ==
  ASSUME NEW q, IsPath(mem', q, qhead'.frag), Range(q) \subseteq user',
         \A t \in Thread, f \in Frag :
           QHolds(t, f)' => f \in user' /\ f \notin Range(q),
         \A t, u \in Thread, f \in Frag :
           QHolds(t, f)' /\ QHolds(u, f)' => t = u,
         \A f \in user' : f \in Range(q) \/ \E t \in Thread : QHolds(t, f)'
  PROVE  ChainInv' /\ Q' = q
<1>1. Q' = q
  BY NewQ
<1>2. Range(Q)' = Range(q)
  BY <1>1
<1> QED BY <1>1, <1>2, Zenon DEF ChainInv

\* The parts of the invariant about the queue and its fragments.
LEMMA ChainParts ==
  ASSUME ChainInv
  PROVE  /\ IsPath(mem, Q, qhead.frag) /\ Range(Q) \subseteq user
         /\ \A t \in Thread, f \in Frag :
              QHolds(t, f) => f \in user /\ f \notin Range(Q)
         /\ \A t, u \in Thread, f \in Frag : QHolds(t, f) /\ QHolds(u, f) => t = u
         /\ \A f \in user : f \in Range(Q) \/ \E t \in Thread : QHolds(t, f)
BY Zenon DEF ChainInv

\* mempool_alloc hands out a fragment that the queue did not have.
LEMMA EnqAllocChain ==
  ASSUME OneEnqueuer, IndInv, QIndInv, NEW t \in Thread, EnqAlloc(t)
  PROVE  /\ ChainInv' /\ Q' = Q /\ t = Writer /\ user' \subseteq Frag
         /\ qreg' \in [Thread -> QReg] /\ qreg'[t].frag \in Frag
         /\ qpc' \in [Thread -> QLabel] /\ qpc'[t] = "enq_init"
         /\ \A u \in Thread \ {t} : qpc'[u] = qpc[u] /\ qreg'[u] = qreg[u]
<1> DEFINE x == reg[t].frag
<1>1. /\ qpc[t] = "enq_alloc" /\ pc[t] = "pick_count"
      /\ user' = user \cup {x} /\ qreg' = [qreg EXCEPT ![t].frag = x]
      /\ QGoto(t, "enq_init") /\ mem' = mem /\ qhead' = qhead
  BY DEF EnqAlloc, PickCount
<1>2. /\ QTypeInv /\ ChainInv /\ qpc \in [Thread -> QLabel]
      /\ qreg \in [Thread -> QReg] /\ t = Writer /\ user \subseteq Frag
  BY <1>1, Parts DEF QTypeInv
<1>3. x \in Frag /\ x \notin user
  <2>1. "pick_count" \in InHand
    BY DEF InHand, Holding
  <2> QED BY <1>1, <2>1, Where
<1> HIDE DEF x
<1>4. /\ RegIs(t, qreg[t].head, qreg[t].tail, qreg[t].next, x, qreg[t].copy,
               qreg[t].empty)
      /\ "enq_init" \in QLabel /\ "enq_init" \in Carries
  BY <1>1, <1>2, <1>3, SetFrag DEF QLabel, Carries
<1>5. /\ qreg' \in [Thread -> QReg] /\ qreg'[t].frag = x
      /\ qpc' \in [Thread -> QLabel] /\ qpc'[t] = "enq_init"
      /\ \A u \in Thread \ {t} : qpc'[u] = qpc[u] /\ qreg'[u] = qreg[u]
  <2>1. qreg' \in [Thread -> QReg] /\ qreg'[t].frag = x
        /\ \A u \in Thread \ {t} : qreg'[u] = qreg[u]
    BY <1>4, Zenon DEF RegIs
  <2> QED BY <1>1, <1>2, <1>4, <2>1, GotoFacts
<1>6. /\ \A u \in Thread \ {t}, f \in Frag : QHolds(u, f)' <=> QHolds(u, f)
      /\ \A f : QHolds(t, f)' <=> f = x
      /\ \A f : ~ QHolds(t, f)
  <2>1. "enq_alloc" \notin Carries \cup {"deq_free"}
    BY DEF Carries
  <2>2. \A f : ~ QHolds(t, f)
    BY <1>1, <2>1, HoldsNow
  <2>3. \A u \in Thread \ {t}, f \in Frag : QHolds(u, f)' <=> QHolds(u, f)
    BY <1>5, HoldsOf
  <2>4. \A f : QHolds(t, f)' <=> f = x
    BY <1>4, <1>5, HoldsOf
  <2> QED BY <2>2, <2>3, <2>4
<1>7. ChainInv' /\ Q' = Q
  <2>1. IsPath(mem', Q, qhead'.frag) /\ Range(Q) \subseteq user'
    BY <1>1, <1>2, ChainParts
  <2>2. x \notin Range(Q)
    BY <1>2, <1>3, ChainParts
  <2>3. \A u \in Thread, f \in Frag :
          QHolds(u, f) => f \in user /\ f \notin Range(Q) /\ f # x
    BY <1>2, <1>3, ChainParts, Zenon
  <2>4. \A u \in Thread, f \in Frag :
          QHolds(u, f)' => f \in user' /\ f \notin Range(Q)
    <3>1. x \in user' /\ \A f \in user : f \in user'
      BY <1>1
    <3> QED BY <1>6, <2>2, <2>3, <3>1, Zenon
  <2>5. \A u, w \in Thread, f \in Frag :
          QHolds(u, f)' /\ QHolds(w, f)' => u = w
    <3>1. \A u, w \in Thread, f \in Frag : QHolds(u, f) /\ QHolds(w, f) => u = w
      BY <1>2, ChainParts, Zenon
    <3> QED BY <1>6, <2>3, <3>1, Zenon
  <2>6. \A f \in user' : f \in Range(Q) \/ \E u \in Thread : QHolds(u, f)'
    <3> SUFFICES ASSUME NEW f \in user', f \notin Range(Q)
                 PROVE  \E u \in Thread : QHolds(u, f)'
      OBVIOUS
    <3>1. CASE f = x
      BY <1>6, <3>1
    <3>2. CASE f # x
      <4>1. f \in user /\ f \in Frag
        BY <1>1, <1>2, <3>2
      <4>2. PICK u \in Thread : QHolds(u, f)
        BY <1>2, <4>1, ChainParts, Zenon
      <4>3. u # t
        BY <1>6, <4>2
      <4> QED BY <1>6, <4>1, <4>2, <4>3, Zenon
    <3> QED BY <3>1, <3>2
  <2> QED BY <2>1, <2>4, <2>5, <2>6, NewChain
<1>8. user' \subseteq Frag
  BY <1>1, <1>2, <1>3
<1> QED BY <1>2, <1>3, <1>5, <1>7, <1>8

\* The call of queue_enqueue goes on with it.
LEMMA EnqAllocInv ==
  ASSUME OneEnqueuer, IndInv, QIndInv, NEW t \in Thread, EnqAlloc(t)
  PROVE  QIndInv'
<1>1. /\ qpc[t] = "enq_alloc" /\ calls' = calls
      /\ mem' = mem /\ data' = data /\ qhead' = qhead /\ qtail' = qtail
      /\ accepted' = accepted /\ got' = got
  BY DEF EnqAlloc, PickCount
<1>2. /\ QTypeInv /\ ChainInv /\ HistInv /\ \A u \in Thread : QSeen(u)
      /\ calls \in [Thread -> Nat]
      /\ \A u \in Thread : calls[u] \in Nat /\ calls[u] <= MaxCalls[u]
  BY Parts
<1>3. /\ ChainInv' /\ Q' = Q /\ t = Writer /\ user' \subseteq Frag
      /\ qreg' \in [Thread -> QReg] /\ qreg'[t].frag \in Frag
      /\ qpc' \in [Thread -> QLabel] /\ qpc'[t] = "enq_init"
      /\ \A u \in Thread \ {t} : qpc'[u] = qpc[u] /\ qreg'[u] = qreg[u]
  BY EnqAllocChain
<1>4. QTypeInv'
  <2>1. /\ mem' \in [Frag -> QNode] /\ data' \in [Frag -> Value \cup {Null}]
        /\ qhead' \in QNode /\ qtail' \in QNode
        /\ calls' \in [Thread -> Nat]
        /\ \A u \in Thread : calls'[u] <= MaxCalls[u]
    BY <1>1, <1>2 DEF QTypeInv
  <2> QED BY <1>3, <2>1, NewType
<1>5. HistInv'
  <2>1. PutIn' = PutIn
    BY <1>1, <1>3 DEF PutIn
  <2>2. qpc[t] \in Opened
    BY <1>1 DEF Opened
  <2>3. /\ got' \in Seq(Value) /\ qhead'.count = Len(got')
        /\ \E k \in 1 .. Len(Q') :
             qtail'.frag = Q'[k] /\ qtail'.count = Len(got') + k - 1
        /\ Len(got') + Len(Q') - 1 <= calls'[t]
        /\ Len(got') + Len(Q') <= calls'[t]
        /\ \A v \in PutIn' : \E n \in 1 .. calls'[t] :
             v = <<Writer, n>> /\ n < calls'[t]
        /\ calls'[t] >= 1
        /\ accepted' \subseteq PutIn'
    BY <1>1, <1>2, <1>3, <2>1, <2>2, Zenon DEF HistInv
  <2> QED BY <1>3, <2>3, Zenon DEF HistInv
<1>6. \A u \in Thread : QSeen(u)'
  <2>1. Stable(t)
    BY <1>1, <1>3, Zenon DEF Stable
  <2>2. QSeen(t)'
    BY <1>3, NothingSeen
  <2>3. \A u \in Thread \ {t} : QSeen(u)'
    BY <1>2, <2>1, OthersSeen
  <2> QED BY <2>2, <2>3
<1> QED BY <1>3, <1>4, <1>5, <1>6 DEF QIndInv

\* A call of queue_enqueue writes to the fragment it holds.
LEMMA FillChain ==
  ASSUME OneEnqueuer, QIndInv, NEW t \in Thread, EnqInit(t) \/ EnqData(t)
  PROVE  /\ ChainInv' /\ Q' = Q /\ t = Writer /\ qreg' = qreg
         /\ qreg[t].frag \in Frag
         /\ qreg[t].frag \notin Range(Q) /\ user' = user
         /\ qpc' \in [Thread -> QLabel]
         /\ EnqInit(t) => qpc'[t] = "enq_data"
         /\ EnqData(t) => qpc'[t] = "enq_tail"
         /\ \A u \in Thread \ {t} : qpc'[u] = qpc[u] /\ qreg'[u] = qreg[u]
         /\ \A x \in Range(Q) : mem'[x].frag = mem[x].frag /\ data'[x] = data[x]
<1>1. /\ qpc[t] \in {"enq_init", "enq_data"} /\ qreg' = qreg /\ qhead' = qhead
      /\ user' = user
      /\ mem' = mem \/ mem' = [mem EXCEPT ![qreg[t].frag] = NoNode]
      /\ data' = data \/ data' = [data EXCEPT ![qreg[t].frag] = <<t, calls[t]>>]
      /\ QGoto(t, "enq_data") \/ QGoto(t, "enq_tail")
      /\ EnqInit(t) => QGoto(t, "enq_data")
      /\ EnqData(t) => QGoto(t, "enq_tail")
  BY DEF EnqInit, EnqData, Store, Current, vars
<1>2. /\ QTypeInv /\ ChainInv /\ qpc \in [Thread -> QLabel]
      /\ qreg \in [Thread -> QReg]
      /\ qpc[t] \in EnqPc => t = Writer /\ qreg[t].frag \in Frag
  BY Parts
<1>3. /\ t = Writer /\ qreg[t].frag \in Frag /\ qpc[t] \in Carries
  BY <1>1, <1>2, Zenon DEF EnqPc, Carries
<1>4. QHolds(t, qreg[t].frag)
  BY <1>3 DEF QHolds
<1>5. qreg[t].frag \notin Range(Q)
  BY <1>2, <1>3, <1>4, ChainParts
<1>6. /\ qpc' \in [Thread -> QLabel] /\ qpc'[t] \in {"enq_data", "enq_tail"}
      /\ EnqInit(t) => qpc'[t] = "enq_data"
      /\ EnqData(t) => qpc'[t] = "enq_tail"
      /\ \A u \in Thread \ {t} : qpc'[u] = qpc[u] /\ qreg'[u] = qreg[u]
  <2>1. "enq_data" \in QLabel /\ "enq_tail" \in QLabel
    BY DEF QLabel
  <2> QED BY <1>1, <1>2, <2>1, GotoFacts
<1>7. \A x \in Frag : x # qreg[t].frag => mem'[x] = mem[x] /\ data'[x] = data[x]
  BY <1>1, <1>2 DEF QTypeInv
<1>8. Range(Q) \subseteq Frag
  BY <1>2, QFacts
<1>9. \A u \in Thread, f \in Frag : QHolds(u, f)' <=> QHolds(u, f)
  <2>1. qpc'[t] \in Carries
    BY <1>6 DEF Carries
  <2>2. \A f : QHolds(t, f)' <=> f = qreg'[t].frag
    BY <1>6, <2>1, HoldsOf
  <2>3. \A f : QHolds(t, f) <=> f = qreg[t].frag
    BY <1>3, HoldsNow
  <2>4. \A u \in Thread \ {t}, f \in Frag : QHolds(u, f)' <=> QHolds(u, f)
    BY <1>6, HoldsOf
  <2> QED BY <1>1, <2>2, <2>3, <2>4, Zenon
<1>10. \A x \in Range(Q) : mem'[x] = mem[x] /\ data'[x] = data[x]
  BY <1>5, <1>7, <1>8
<1>11. ChainInv' /\ Q' = Q
  <2>1. IsPath(mem', Q, qhead.frag)
    BY <1>2, <1>10, ChainParts, PathKept
  <2>2. IsPath(mem', Q, qhead'.frag) /\ Range(Q) \subseteq user'
    BY <1>1, <1>2, <2>1, ChainParts
  <2>3. /\ \A u \in Thread, f \in Frag :
             QHolds(u, f)' => f \in user' /\ f \notin Range(Q)
        /\ \A u, w \in Thread, f \in Frag :
             QHolds(u, f)' /\ QHolds(w, f)' => u = w
    BY <1>1, <1>2, <1>9, ChainParts, Zenon
  <2>4. \A f \in user' : f \in Range(Q) \/ \E u \in Thread : QHolds(u, f)'
    <3>1. user \subseteq Frag
      BY <1>2 DEF QTypeInv
    <3> QED BY <1>1, <1>2, <1>9, <3>1, ChainParts, Zenon
  <2> QED BY <2>2, <2>3, <2>4, NewChain
<1> QED BY <1>1, <1>3, <1>5, <1>6, <1>10, <1>11

\* What it writes is what the invariant says of the fragment it holds.
LEMMA FillInv ==
  ASSUME OneEnqueuer, QIndInv, NEW t \in Thread, EnqInit(t) \/ EnqData(t)
  PROVE  QIndInv'
<1>1. /\ qhead' = qhead /\ qtail' = qtail /\ calls' = calls
      /\ accepted' = accepted /\ got' = got /\ qreg' = qreg
      /\ qpc[t] \in {"enq_init", "enq_data"}
      /\ \/ /\ EnqInit(t) /\ data' = data
            /\ mem' = [mem EXCEPT ![qreg[t].frag] = NoNode]
         \/ /\ EnqData(t) /\ mem' = mem /\ qpc[t] = "enq_data"
            /\ data' = [data EXCEPT ![qreg[t].frag] = <<t, calls[t]>>]
  BY DEF EnqInit, EnqData, Store, Current, vars
<1>2. /\ QTypeInv /\ ChainInv /\ HistInv /\ \A u \in Thread : QSeen(u)
      /\ calls \in [Thread -> Nat] /\ qreg \in [Thread -> QReg]
      /\ \A u \in Thread : calls[u] \in Nat /\ calls[u] <= MaxCalls[u]
  BY Parts
<1>3. /\ ChainInv' /\ Q' = Q /\ t = Writer /\ qreg[t].frag \in Frag
      /\ qreg[t].frag \notin Range(Q) /\ user' = user
      /\ qpc' \in [Thread -> QLabel]
      /\ EnqInit(t) => qpc'[t] = "enq_data"
      /\ EnqData(t) => qpc'[t] = "enq_tail"
      /\ \A u \in Thread \ {t} : qpc'[u] = qpc[u] /\ qreg'[u] = qreg[u]
      /\ \A x \in Range(Q) : mem'[x].frag = mem[x].frag /\ data'[x] = data[x]
  BY FillChain
<1>4. /\ qpc[t] \in Carries /\ qpc'[t] \in Carries
      /\ qpc'[t] \in {"enq_data", "enq_tail"}
  BY <1>1, <1>3, Zenon DEF Carries
<1>5. calls[t] >= 1 /\ qpc[t] \in Opened /\ qpc'[t] \in Opened
  <2>1. qpc[t] \in Opened /\ qpc'[t] \in Opened
    BY <1>4 DEF Opened
  <2> QED BY <1>3, <1>2, <2>1, Zenon DEF HistInv
<1>6. /\ mem' \in [Frag -> QNode] /\ data' \in [Frag -> Value \cup {Null}]
      /\ mem'[qreg[t].frag] = NoNode
      /\ qpc'[t] = "enq_tail" => data'[qreg[t].frag] = <<t, calls[t]>>
  <2>1. NoNode \in QNode
    BY LinkType DEF NoNode
  <2>2. <<t, calls[t]>> \in Value
    <3>1. /\ calls[t] \in 1 .. MaxCalls[Writer]
          /\ MaxCalls[Writer] \in Nat
      BY <1>2, <1>3, <1>5, WriterFacts
    <3> QED BY <1>3, <3>1, WriterFacts
  <2>3. CASE EnqInit(t) /\ data' = data
             /\ mem' = [mem EXCEPT ![qreg[t].frag] = NoNode]
    <3>1. qpc'[t] = "enq_data"
      BY <1>3, <2>3
    <3> QED BY <1>2, <1>3, <2>1, <2>3, <3>1 DEF QTypeInv
  <2>4. CASE /\ mem' = mem /\ qpc[t] = "enq_data"
             /\ data' = [data EXCEPT ![qreg[t].frag] = <<t, calls[t]>>]
    <3>1. mem[qreg[t].frag] = NoNode
      BY <1>2, <1>3, <1>4, <2>4, Zenon DEF HistInv
    <3> QED BY <1>2, <1>3, <2>2, <2>4, <3>1 DEF QTypeInv
  <2> QED BY <1>1, <2>3, <2>4
<1>7. QTypeInv'
  <2>1. user' \subseteq Frag /\ qhead' \in QNode /\ qtail' \in QNode
    BY <1>1, <1>2, <1>3 DEF QTypeInv
  <2>2. qpc'[t] # "deq_free" /\ qpc'[t] # "enq_alloc" /\ qreg' \in [Thread -> QReg]
        /\ calls' \in [Thread -> Nat]
        /\ \A u \in Thread : calls'[u] <= MaxCalls[u]
        /\ qreg'[t].frag \in Frag
    BY <1>1, <1>2, <1>3, <1>4
  <2> QED BY <1>3, <1>6, <2>1, <2>2, NewType
<1>8. HistInv'
  <2>1. PutIn' = PutIn
    <3>1. \A i \in 2 .. Len(Q) : Q[i] \in Range(Q)
      BY <1>2, QFacts
    <3>2. {data'[Q[i]] : i \in 2 .. Len(Q)} = {data[Q[i]] : i \in 2 .. Len(Q)}
      BY <1>3, <3>1
    <3>3. PutIn' = {data'[Q'[i]] : i \in 2 .. Len(Q')} \cup Range(got')
      BY DEF PutIn
    <3>4. PutIn' = {data'[Q[i]] : i \in 2 .. Len(Q)} \cup Range(got)
      BY <1>1, <1>3, <3>3
    <3> QED BY <3>2, <3>4 DEF PutIn
  <2>2. /\ got' \in Seq(Value) /\ qhead'.count = Len(got')
        /\ \E k \in 1 .. Len(Q') :
             qtail'.frag = Q'[k] /\ qtail'.count = Len(got') + k - 1
        /\ accepted' \subseteq PutIn'
        /\ Len(got') + Len(Q') - 1 <= calls'[t]
        /\ Len(got') + Len(Q') <= calls'[t]
        /\ \A v \in PutIn' : \E n \in 1 .. calls'[t] :
             v = <<Writer, n>> /\ n < calls'[t]
    BY <1>1, <1>2, <1>3, <1>5, <2>1, Zenon DEF HistInv
  <2>3. /\ NoNode' = NoNode /\ mem'[qreg'[t].frag] = NoNode
        /\ calls'[t] >= 1
        /\ qpc'[t] \notin {"enq_init", "enq_data"} =>
             data'[qreg'[t].frag] = <<t, calls'[t]>>
        /\ qpc'[t] # "enq_end"
    BY <1>1, <1>4, <1>5, <1>6 DEF NoNode, NodeOf
  <2> QED BY <1>3, <2>2, <2>3, Zenon DEF HistInv
<1>9. \A u \in Thread : QSeen(u)'
  <2>1. Stable(t)
    BY <1>1, <1>3, Zenon DEF Stable
  <2>2. QSeen(t)'
    BY <1>4, NothingSeen
  <2>3. \A u \in Thread \ {t} : QSeen(u)'
    BY <1>2, <2>1, OthersSeen
  <2> QED BY <2>2, <2>3
<1> QED BY <1>3, <1>7, <1>8, <1>9 DEF QIndInv

\* The compare-and-swap of queue_enqueue succeeds: the last link is null, and
\* only this call can have changed it.
Links(t) ==
  LET f == qreg[t].tail.frag
  IN  /\ qpc[t] = "enq_link" /\ mem[f] = qreg[t].next
      /\ mem' = [mem EXCEPT ![f] = NodeOf(mem[f].count + 1, qreg[t].frag)]
      /\ QGoto(t, "enq_end")
      /\ data' = data /\ user' = user /\ qhead' = qhead /\ qtail' = qtail
      /\ qreg' = qreg /\ calls' = calls /\ accepted' = accepted /\ got' = got

\* The queue gets longer by the fragment of the call.
LEMMA LinkChain ==
  ASSUME OneEnqueuer, QIndInv, NEW t \in Thread, Links(t)
  PROVE  /\ ChainInv' /\ Q' = Append(Q, qreg[t].frag) /\ t = Writer
         /\ qreg[t].frag \in Frag /\ qreg[t].frag \notin Range(Q)
         /\ data[qreg[t].frag] = <<t, calls[t]>>
         /\ qpc' \in [Thread -> QLabel] /\ qpc'[t] = "enq_end"
         /\ \A u \in Thread \ {t} : qpc'[u] = qpc[u] /\ qreg'[u] = qreg[u]
         /\ mem' \in [Frag -> QNode]
         /\ qreg[t].tail.frag = Q[Len(Q)] /\ mem[Q[Len(Q)]].frag = Null
         /\ mem'[qreg[t].tail.frag].frag = qreg[t].frag
         /\ \A x \in Frag : x # qreg[t].tail.frag => mem'[x] = mem[x]
<1> DEFINE f == qreg[t].tail.frag
           x == qreg[t].frag
<1>1. /\ qpc[t] = "enq_link" /\ QGoto(t, "enq_end")
      /\ mem' = [mem EXCEPT ![f] = NodeOf(mem[f].count + 1, x)]
      /\ qhead' = qhead /\ user' = user /\ qreg' = qreg
  BY Zenon DEF Links
<1>2. /\ QTypeInv /\ ChainInv /\ HistInv /\ QSeen(t)
      /\ qpc \in [Thread -> QLabel]
      /\ (qpc[t] \in EnqPc => t = Writer /\ qreg[t].frag \in Frag)
  BY Parts
<1>3. qpc[t] \in Carries /\ qpc[t] \in EnqPc
      /\ qpc[t] \notin {"enq_init", "enq_data"}
  BY <1>1 DEF Carries, EnqPc
<1>4. t = Writer /\ x \in Frag
  BY <1>2, <1>3
<1>5. f \in Range(Q) /\ mem[f].frag = Null
  BY <1>1, <1>2, Zenon DEF QSeen, EnqSeen
<1>6. QHolds(t, x)
  BY <1>3 DEF QHolds
<1>7. x \notin Range(Q) /\ x \in user
  BY <1>2, <1>4, <1>6, ChainParts
<1>8. /\ mem[x] = NoNode /\ data[x] = <<t, calls[t]>>
  BY <1>2, <1>3, <1>4, Zenon DEF HistInv
<1>9. f \in Frag /\ f = Q[Len(Q)] /\ Len(Q) \in Nat /\ Len(Q) >= 1
      /\ Range(Q) \subseteq Frag
  <2>1. /\ Len(Q) \in Nat /\ Len(Q) >= 1 /\ Range(Q) \subseteq Frag
        /\ Range(Q) = {Q[i] : i \in 1 .. Len(Q)}
        /\ \A i \in 1 .. Len(Q) : Q[i] \in Frag
        /\ \A i \in 1 .. Len(Q) : IF i = Len(Q) THEN mem[Q[i]].frag = Null
                                  ELSE mem[Q[i]].frag = Q[i + 1]
    BY <1>2, QFacts
  <2>2. PICK i \in 1 .. Len(Q) : f = Q[i]
    BY <1>5, <2>1
  <2>3. i = Len(Q)
    <3>1. ASSUME i # Len(Q) PROVE FALSE
      <4>1. i + 1 \in 1 .. Len(Q)
        BY <2>1, <3>1
      <4>2. Q[i + 1] = Null
        BY <1>5, <2>1, <2>2, <3>1
      <4> QED BY <2>1, <4>1, <4>2, WriterFacts
    <3> QED BY <3>1
  <2> QED BY <1>5, <2>1, <2>2, <2>3
<1>10. /\ mem' \in [Frag -> QNode] /\ mem'[f].frag = x
       /\ \A y \in Frag : y # f => mem'[y] = mem[y]
  <2>1. mem \in [Frag -> QNode] /\ mem[f].count + 1 \in Nat
    BY <1>2, <1>9, WriterFacts DEF QTypeInv, QNode
  <2>2. /\ NodeOf(mem[f].count + 1, x) \in QNode
        /\ NodeOf(mem[f].count + 1, x).frag = x
    BY <1>4, <2>1, LinkType
  <2> QED BY <1>1, <1>9, <2>1, <2>2
<1>11. /\ qpc' \in [Thread -> QLabel] /\ qpc'[t] = "enq_end"
       /\ \A u \in Thread \ {t} : qpc'[u] = qpc[u] /\ qreg'[u] = qreg[u]
  <2>1. "enq_end" \in QLabel
    BY DEF QLabel
  <2> QED BY <1>1, <1>2, <2>1, GotoFacts
<1> HIDE DEF f, x
<1>12. f # x /\ NoNode.frag = Null
  BY <1>5, <1>7 DEF NoNode, NodeOf
<1>13. IsPath(mem', Append(Q, x), qhead.frag)
  <2>1. mem'[Q[Len(Q)]].frag = x /\ mem'[x].frag = Null
    BY <1>4, <1>8, <1>9, <1>10, <1>12
  <2>2. \A y \in Range(Q) : y # Q[Len(Q)] => mem'[y].frag = mem[y].frag
    BY <1>9, <1>10
  <2>3. IsPath(mem, Q, qhead.frag)
    BY <1>2, ChainParts
  <2> QED BY <1>4, <1>7, <2>1, <2>2, <2>3, PathAppend
<1>14. /\ \A u \in Thread \ {t}, y \in Frag : QHolds(u, y)' <=> QHolds(u, y)
       /\ \A y : ~ QHolds(t, y)'
       /\ \A y : QHolds(t, y) <=> y = x
  <2>1. "enq_end" \notin Carries \cup {"deq_free"}
    BY DEF Carries
  <2>2. \A y : ~ QHolds(t, y)'
    BY <1>11, <2>1, HoldsOf
  <2>3. \A y : QHolds(t, y) <=> y = x
    BY <1>3, HoldsNow DEF x
  <2>4. \A u \in Thread \ {t}, y \in Frag : QHolds(u, y)' <=> QHolds(u, y)
    BY <1>11, HoldsOf
  <2> QED BY <2>2, <2>3, <2>4
<1>15. \A y : y \in Range(Append(Q, x)) <=> y \in Range(Q) \/ y = x
  BY <1>2, <1>4, QFacts, AppendRange
<1>16. ChainInv' /\ Q' = Append(Q, x)
  <2> DEFINE q == Append(Q, x)
  <2>1. IsPath(mem', q, qhead'.frag)
    BY <1>1, <1>13
  <2>2. \A y : y \in Range(q) <=> y \in Range(Q) \/ y = x
    BY <1>15
  <2> HIDE DEF q
  <2>3. Range(q) \subseteq user'
    BY <1>1, <1>2, <1>7, <2>2, ChainParts
  <2>4. \A u \in Thread, y \in Frag :
          QHolds(u, y)' => y \in user' /\ y \notin Range(q)
    <3>1. \A u \in Thread, y \in Frag :
            QHolds(u, y) => y \in user /\ y \notin Range(Q)
      BY <1>2, ChainParts, Zenon
    <3>2. \A u \in Thread : QHolds(u, x) => u = t
      BY <1>2, <1>4, <1>6, <1>14, ChainParts, Zenon
    <3> QED BY <1>1, <1>14, <2>2, <3>1, <3>2, Zenon
  <2>5. \A u, w \in Thread, y \in Frag :
          QHolds(u, y)' /\ QHolds(w, y)' => u = w
    <3>1. \A u, w \in Thread, y \in Frag : QHolds(u, y) /\ QHolds(w, y) => u = w
      BY <1>2, ChainParts, Zenon
    <3> QED BY <1>14, <3>1, Zenon
  <2>6. \A y \in user' : y \in Range(q) \/ \E u \in Thread : QHolds(u, y)'
    <3>1. /\ \A y \in user : y \in Range(Q) \/ \E u \in Thread : QHolds(u, y)
          /\ user \subseteq Frag
      BY <1>2, ChainParts, Zenon DEF QTypeInv
    <3> QED BY <1>1, <1>14, <2>2, <3>1, Zenon
  <2>7. ChainInv' /\ Q' = q
    BY <2>1, <2>3, <2>4, <2>5, <2>6, NewChain
  <2> QED BY <2>7 DEF q
<1> QED BY <1>4, <1>5, <1>7, <1>8, <1>9, <1>10, <1>11, <1>16 DEF f, x

\* Its value has been put.
LEMMA LinkPut ==
  ASSUME OneEnqueuer, QIndInv, NEW t \in Thread, Links(t)
  PROVE  PutIn' = PutIn \cup {<<t, calls[t]>>}
<1> DEFINE x == qreg[t].frag
<1>1. /\ Q' = Append(Q, x) /\ x \in Frag /\ data[x] = <<t, calls[t]>>
      /\ data' = data /\ got' = got
  BY LinkChain DEF Links
<1>2. Q \in Seq(Frag) /\ Len(Q) \in Nat /\ Len(Q) >= 1
  BY Parts, QFacts
<1> HIDE DEF x
<1>3. /\ Len(Q') = Len(Q) + 1 /\ Q'[Len(Q) + 1] = x
      /\ \A i \in 1 .. Len(Q) : Q'[i] = Q[i]
  BY <1>1, <1>2
<1>4. PutIn' = {data[Q'[i]] : i \in 2 .. Len(Q')} \cup Range(got)
  BY <1>1 DEF PutIn
<1>5. {data[Q'[i]] : i \in 2 .. Len(Q')}
        = {data[Q[i]] : i \in 2 .. Len(Q)} \cup {data[x]}
  <2>1. ASSUME NEW i \in 2 .. Len(Q')
        PROVE  data[Q'[i]] \in {data[Q[j]] : j \in 2 .. Len(Q)} \cup {data[x]}
    <3>1. CASE i = Len(Q) + 1
      BY <1>3, <3>1
    <3>2. CASE i # Len(Q) + 1
      <4>1. i \in 2 .. Len(Q) /\ Q'[i] = Q[i]
        BY <1>2, <1>3, <3>2
      <4> QED BY <4>1
    <3> QED BY <3>1, <3>2
  <2>2. ASSUME NEW i \in 2 .. Len(Q)
        PROVE  data[Q[i]] \in {data[Q'[j]] : j \in 2 .. Len(Q')}
    <3>1. i \in 2 .. Len(Q') /\ Q'[i] = Q[i]
      BY <1>2, <1>3
    <3> QED BY <3>1
  <2>3. data[x] \in {data[Q'[j]] : j \in 2 .. Len(Q')}
    <3>1. Len(Q) + 1 \in 2 .. Len(Q')
      BY <1>2, <1>3
    <3> QED BY <1>3, <3>1
  <2> QED BY <2>1, <2>2, <2>3
<1>6. PutIn = {data[Q[i]] : i \in 2 .. Len(Q)} \cup Range(got)
  BY DEF PutIn
<1> QED BY <1>1, <1>4, <1>5, <1>6

\* The link is the one step that puts a value.
LEMMA LinkInv ==
  ASSUME OneEnqueuer, QIndInv, NEW t \in Thread, Links(t) PROVE QIndInv'
<1>1. /\ qpc[t] = "enq_link"
      /\ data' = data /\ user' = user /\ qhead' = qhead /\ qtail' = qtail
      /\ qreg' = qreg /\ calls' = calls /\ accepted' = accepted /\ got' = got
  BY DEF Links
<1>2. /\ QTypeInv /\ ChainInv /\ HistInv /\ \A u \in Thread : QSeen(u)
      /\ calls \in [Thread -> Nat] /\ qreg \in [Thread -> QReg]
      /\ \A u \in Thread : calls[u] \in Nat /\ calls[u] <= MaxCalls[u]
  BY Parts
<1>3. /\ ChainInv' /\ Q' = Append(Q, qreg[t].frag) /\ t = Writer
      /\ qreg[t].frag \in Frag /\ qreg[t].frag \notin Range(Q)
      /\ qpc' \in [Thread -> QLabel] /\ qpc'[t] = "enq_end"
      /\ \A u \in Thread \ {t} : qpc'[u] = qpc[u] /\ qreg'[u] = qreg[u]
      /\ mem' \in [Frag -> QNode]
      /\ qreg[t].tail.frag = Q[Len(Q)] /\ mem[Q[Len(Q)]].frag = Null
      /\ mem'[qreg[t].tail.frag].frag = qreg[t].frag
      /\ \A x \in Frag : x # qreg[t].tail.frag => mem'[x] = mem[x]
  BY LinkChain
<1>4. QTypeInv'
  <2>1. /\ user' \subseteq Frag /\ qhead' \in QNode /\ qtail' \in QNode
        /\ data' \in [Frag -> Value \cup {Null}]
    BY <1>1, <1>2 DEF QTypeInv
  <2>2. /\ qreg' \in [Thread -> QReg] /\ calls' \in [Thread -> Nat]
        /\ \A u \in Thread : calls'[u] <= MaxCalls[u]
        /\ qreg'[t].frag \in Frag
    BY <1>1, <1>2, <1>3
  <2>3. qpc'[t] # "deq_free" /\ qpc'[t] # "enq_alloc"
    BY <1>3
  <2> QED BY <1>3, <2>1, <2>2, <2>3, NewType
<1>5. Q \in Seq(Frag) /\ Len(Q) \in Nat /\ Len(Q) >= 1
  BY <1>2, QFacts
<1>6. /\ Len(Q') = Len(Q) + 1
      /\ \A i \in 1 .. Len(Q) : Q'[i] = Q[i]
  BY <1>3, <1>5
<1>7. qpc[t] \in Opened /\ qpc'[t] \notin Opened /\ qpc'[t] \notin Carries
  BY <1>1, <1>3 DEF Carries, Opened
<1>8. HistInv'
  <2>1. PutIn' = PutIn \cup {<<t, calls[t]>>}
    BY LinkPut
  <2>2. \E k \in 1 .. Len(Q') :
          qtail'.frag = Q'[k] /\ qtail'.count = Len(got') + k - 1
    <3>1. PICK k \in 1 .. Len(Q) :
            qtail.frag = Q[k] /\ qtail.count = Len(got) + k - 1
      BY <1>2, Zenon DEF HistInv
    <3>2. k \in 1 .. Len(Q')
      BY <1>5, <1>6
    <3> QED BY <1>1, <1>6, <3>1, <3>2
  <2>3. Len(got') + Len(Q') - 1 <= calls'[t]
    <3>1. Len(got) + Len(Q) <= calls[t] /\ Len(got) \in Nat
      BY <1>2, <1>3, <1>7 DEF HistInv
    <3> QED BY <1>1, <1>2, <1>5, <1>6, <3>1
  <2>4. \A v \in PutIn' : \E n \in 1 .. calls'[t] : v = <<Writer, n>>
    <3> SUFFICES ASSUME NEW v \in PutIn'
                 PROVE  \E n \in 1 .. calls'[t] : v = <<Writer, n>>
      OBVIOUS
    <3>1. CASE v \in PutIn
      BY <1>1, <1>2, <1>3, <3>1, Zenon DEF HistInv
    <3>2. CASE v = <<t, calls[t]>>
      <4>1. calls[t] >= 1 /\ calls[t] \in Nat
        BY <1>2, <1>3, <1>7, Zenon DEF HistInv
      <4>2. calls[t] \in 1 .. calls'[t]
        BY <1>1, <4>1
      <4> QED BY <1>3, <3>2, <4>2
    <3> QED BY <2>1, <3>1, <3>2
  <2>5. /\ accepted' \subseteq PutIn' /\ <<t, calls'[t]>> \in PutIn'
        /\ got' \in Seq(Value) /\ qhead'.count = Len(got')
    BY <1>1, <1>2, <2>1 DEF HistInv
  <2> QED BY <1>3, <1>7, <2>2, <2>3, <2>4, <2>5, Zenon DEF HistInv
<1>9. \A u \in Thread : QSeen(u)'
  <2>1. Stable(t)
    <3>1. \A x \in Range(Q) :
            mem'[x].frag = mem[x].frag \/ (mem[x].frag = Null /\ t = Writer)
      BY <1>2, <1>3, QFacts
    <3> QED BY <1>1, <1>3, <3>1, Zenon DEF Stable
  <2>2. QSeen(t)'
    <3>1. QTailSeen(t)'
      BY <1>1, <1>2, Zenon DEF QSeen, QTailSeen, QTailRead
    <3>2. EnqSeen(t)'
      BY <1>1, <1>3, Zenon DEF EnqSeen
    <3> QED BY <1>3, <3>1, <3>2, Zenon DEF QSeen, QHeadSeen, DeqSeen, QHeadRead,
                                           NextRead
  <2>3. \A u \in Thread \ {t} : QSeen(u)'
    BY <1>2, <2>1, OthersSeen
  <2> QED BY <2>2, <2>3
<1> QED BY <1>3, <1>4, <1>8, <1>9 DEF QIndInv

\* enq_link: the link is made, or the call starts anew.
LEMMA EnqLinkInv ==
  ASSUME OneEnqueuer, QIndInv, NEW t \in Thread, EnqLink(t) PROVE QIndInv'
<1>1. \/ Links(t)
      \/ qpc[t] = "enq_link" /\ QGoto(t, "enq_tail") /\ Private /\ qreg' = qreg
  BY Zenon DEF EnqLink, Links, Private, Store, vars
<1> QED BY <1>1, LinkInv, AgainInv, Zenon

-----------------------------------------------------------------------------
\* The compare-and-swap of queue_dequeue succeeds.
Takes(t) ==
  /\ qpc[t] = "deq_take" /\ qhead = qreg[t].head
  /\ qhead' = NodeOf(qhead.count + 1, qreg[t].next.frag)
  /\ got' = Append(got, qreg[t].copy)
  /\ QGoto(t, "deq_free")
  /\ mem' = mem /\ data' = data /\ user' = user /\ qtail' = qtail
  /\ qreg' = qreg /\ calls' = calls /\ accepted' = accepted

\* What is taken is the value behind the dummy, and the tail is not left behind.
LEMMA TakeFacts ==
  ASSUME OneEnqueuer, QIndInv, NEW t \in Thread, Takes(t)
  PROVE  /\ mem[qhead.frag].frag = qreg[t].next.frag /\ qreg[t].next.frag \in Frag
         /\ Len(Q) \in Nat /\ Len(Q) >= 2
         /\ qreg[t].next.frag = Q[2] /\ qreg[t].copy = data[Q[2]]
         /\ qtail.frag # qhead.frag
         /\ qhead' \in QNode /\ qhead'.frag = Q[2] /\ qhead'.count = qhead.count + 1
         /\ qreg[t].copy \in Value
<1>1. /\ qpc[t] = "deq_take" /\ qhead = qreg[t].head
      /\ qhead' = NodeOf(qhead.count + 1, qreg[t].next.frag)
  BY DEF Takes
<1>2. /\ QTypeInv /\ ChainInv /\ HistInv /\ QSeen(t)
      /\ \A u \in Thread : calls[u] \in Nat /\ calls[u] <= MaxCalls[u]
  BY Parts
<1>3. /\ qreg[t].next.frag \in Frag /\ qreg[t].head.frag # qreg[t].tail.frag
      /\ qreg[t].copy = data[qreg[t].next.frag]
  BY <1>1, <1>2, Zenon DEF QSeen, DeqSeen
<1>4. mem[qhead.frag].frag = qreg[t].next.frag
  BY <1>1, <1>2, <1>3, WriterFacts, Zenon DEF QSeen, DeqSeen, NextRead
<1>5. qtail.frag # qhead.frag
  BY <1>1, <1>2, <1>3, Zenon DEF QSeen, DeqSeen, NextRead
<1>6. mem[qhead.frag].frag # Null
  BY <1>3, <1>4, WriterFacts
<1>7. Len(Q) \in Nat /\ Len(Q) >= 2 /\ qreg[t].next.frag = Q[2]
  <2>1. IsPath(mem, Q, qhead.frag) /\ Len(Q) \in Nat
    BY <1>2, ChainParts, QFacts
  <2> QED BY <1>4, <1>6, <2>1, PathTail
<1>8. /\ qhead' \in QNode /\ qhead'.frag = Q[2] /\ qhead'.count = qhead.count + 1
  <2>1. /\ qhead.count + 1 \in Nat
        /\ NodeOf(qhead.count + 1, mem[qhead.frag].frag).count = qhead.count + 1
    BY <1>2, <1>6, TailFacts
  <2> QED BY <1>1, <1>3, <1>4, <1>7, <2>1, LinkType
<1>9. qreg[t].copy \in Value
  <2>1. data[Q[2]] \in PutIn
    <3>1. 2 \in 2 .. Len(Q)
      BY <1>7
    <3> QED BY <3>1 DEF PutIn
  <2>2. PICK n \in 1 .. calls[Writer] : data[Q[2]] = <<Writer, n>>
    BY <1>2, <2>1, Zenon DEF HistInv
  <2>3. /\ calls[Writer] \in Nat /\ calls[Writer] <= MaxCalls[Writer]
        /\ MaxCalls[Writer] \in Nat
        /\ \A i \in 1 .. MaxCalls[Writer] : <<Writer, i>> \in Value
    BY <1>2, WriterFacts
  <2>4. n \in 1 .. MaxCalls[Writer]
    BY <2>3
  <2> QED BY <1>3, <1>7, <2>2, <2>3, <2>4
<1> QED BY <1>3, <1>4, <1>5, <1>7, <1>8, <1>9

\* The queue loses its dummy to the call.
LEMMA TakeChain ==
  ASSUME OneEnqueuer, QIndInv, NEW t \in Thread, Takes(t)
  PROVE  /\ ChainInv' /\ Q' = Tail(Q)
         /\ Len(Tail(Q)) = Len(Q) - 1
         /\ \A i \in 1 .. Len(Q) - 1 : Tail(Q)[i] = Q[i + 1]
         /\ \A x : x \in Range(Tail(Q)) <=> x \in Range(Q) /\ x # qhead.frag
         /\ qpc' \in [Thread -> QLabel] /\ qpc'[t] = "deq_free"
         /\ \A u \in Thread \ {t} : qpc'[u] = qpc[u] /\ qreg'[u] = qreg[u]
<1>1. /\ qpc[t] = "deq_take" /\ qhead = qreg[t].head /\ QGoto(t, "deq_free")
      /\ mem' = mem /\ user' = user /\ qreg' = qreg
  BY DEF Takes
<1>2. QTypeInv /\ ChainInv /\ HistInv /\ qpc \in [Thread -> QLabel]
  BY Parts
<1>3. /\ qpc' \in [Thread -> QLabel] /\ qpc'[t] = "deq_free"
      /\ \A u \in Thread \ {t} : qpc'[u] = qpc[u] /\ qreg'[u] = qreg[u]
  <2>1. "deq_free" \in QLabel
    BY DEF QLabel
  <2> QED BY <1>1, <1>2, <2>1, GotoFacts
<1>4. /\ mem[qhead.frag].frag \in Frag /\ qhead'.frag = mem[qhead.frag].frag
  BY TakeFacts
<1>5. /\ IsPath(mem, Tail(Q), mem[qhead.frag].frag)
      /\ Len(Tail(Q)) = Len(Q) - 1
      /\ \A i \in 1 .. Len(Q) - 1 : Tail(Q)[i] = Q[i + 1]
      /\ \A x : x \in Range(Tail(Q)) <=> x \in Range(Q) /\ x # qhead.frag
  <2>1. IsPath(mem, Q, qhead.frag) /\ mem[qhead.frag].frag # Null
    BY <1>2, <1>4, ChainParts, WriterFacts
  <2> QED BY <2>1, PathTail
<1>6. /\ \A u \in Thread \ {t}, f \in Frag : QHolds(u, f)' <=> QHolds(u, f)
      /\ \A f : QHolds(t, f)' <=> f = qhead.frag
      /\ \A f : ~ QHolds(t, f)
  <2>1. "deq_take" \notin Carries \cup {"deq_free"}
    BY DEF Carries
  <2>2. \A f : ~ QHolds(t, f)
    BY <1>1, <2>1, HoldsNow
  <2>3. \A u \in Thread \ {t}, f \in Frag : QHolds(u, f)' <=> QHolds(u, f)
    BY <1>3, HoldsOf
  <2>4. \A f : QHolds(t, f)' <=> f = qreg'[t].head.frag
    BY <1>3, HoldsOf
  <2> QED BY <1>1, <2>2, <2>3, <2>4, Zenon
<1>7. qhead.frag \in Range(Q) /\ qhead.frag \in user
  BY <1>2, QFacts
<1>8. ChainInv' /\ Q' = Tail(Q)
  <2> DEFINE q == Tail(Q)
  <2>1. IsPath(mem', q, qhead'.frag)
    BY <1>1, <1>2, <1>4, <1>5, ChainParts
  <2>2. \A x : x \in Range(q) <=> x \in Range(Q) /\ x # qhead.frag
    BY <1>5
  <2> HIDE DEF q
  <2>3. Range(q) \subseteq user'
    BY <1>1, <1>2, <2>2, ChainParts
  <2>4. \A u \in Thread, f \in Frag : QHolds(u, f) =>
          f \in user /\ f \notin Range(Q) /\ f # qhead.frag
    BY <1>2, <1>7, ChainParts, Zenon
  <2>5. \A u \in Thread, f \in Frag :
          QHolds(u, f)' => f \in user' /\ f \notin Range(q)
    BY <1>1, <1>6, <1>7, <2>2, <2>4, Zenon
  <2>6. \A u, w \in Thread, f \in Frag :
          QHolds(u, f)' /\ QHolds(w, f)' => u = w
    <3>1. \A u, w \in Thread, f \in Frag : QHolds(u, f) /\ QHolds(w, f) => u = w
      BY <1>2, ChainParts, Zenon
    <3> QED BY <1>6, <2>4, <3>1, Zenon
  <2>7. \A f \in user' : f \in Range(q) \/ \E u \in Thread : QHolds(u, f)'
    <3>1. /\ \A f \in user : f \in Range(Q) \/ \E u \in Thread : QHolds(u, f)
          /\ user \subseteq Frag
      BY <1>2, ChainParts, Zenon DEF QTypeInv
    <3> QED BY <1>1, <1>6, <2>2, <3>1, Zenon
  <2>8. ChainInv' /\ Q' = q
    BY <2>1, <2>3, <2>5, <2>6, <2>7, NewChain
  <2> QED BY <2>8 DEF q
<1> QED BY <1>3, <1>5, <1>8

\* What was behind the dummy has been taken, and still counts as put.
LEMMA TakePut ==
  ASSUME OneEnqueuer, QIndInv, NEW t \in Thread, Takes(t)
  PROVE  PutIn' = PutIn /\ got' \in Seq(Value) /\ Len(got') = Len(got) + 1
<1>1. /\ got' = Append(got, data[Q[2]]) /\ data' = data
      /\ data[Q[2]] \in Value /\ Len(Q) \in Nat /\ Len(Q) >= 2
  BY TakeFacts DEF Takes
<1>2. /\ Q' = Tail(Q) /\ Len(Tail(Q)) = Len(Q) - 1
      /\ \A i \in 1 .. Len(Q) - 1 : Tail(Q)[i] = Q[i + 1]
  BY TakeChain
<1>3. got \in Seq(Value)
  BY Parts DEF HistInv
<1> DEFINE q == Tail(Q)
<1>4. /\ Q' = q /\ Len(q) = Len(Q) - 1
      /\ \A i \in 1 .. Len(Q) - 1 : q[i] = Q[i + 1]
  BY <1>2
<1> HIDE DEF q
<1>5. \A v : v \in Range(got)' <=> v \in Range(got) \/ v = data[Q[2]]
  BY <1>1, <1>3, AppendRange
<1>6. \A v : v \in {data[Q[i]] : i \in 2 .. Len(Q)}
               <=> v \in {data[q[i]] : i \in 2 .. Len(q)} \/ v = data[Q[2]]
  <2>1. ASSUME NEW i \in 2 .. Len(Q)
        PROVE  data[Q[i]] \in {data[q[j]] : j \in 2 .. Len(q)} \cup {data[Q[2]]}
    <3>1. CASE i = 2
      BY <3>1
    <3>2. CASE i # 2
      <4>1. i - 1 \in 2 .. Len(q) /\ q[i - 1] = Q[i]
        <5>1. i - 1 \in 2 .. Len(q) /\ i - 1 \in 1 .. Len(Q) - 1
              /\ (i - 1) + 1 = i
          BY <1>1, <1>4, <3>2
        <5> QED BY <1>4, <5>1
      <4> QED BY <4>1
    <3> QED BY <3>1, <3>2
  <2>2. ASSUME NEW i \in 2 .. Len(q)
        PROVE  data[q[i]] \in {data[Q[j]] : j \in 2 .. Len(Q)}
    <3>1. i \in 1 .. Len(Q) - 1 /\ i + 1 \in 2 .. Len(Q)
      BY <1>1, <1>4
    <3> QED BY <1>4, <3>1
  <2>3. data[Q[2]] \in {data[Q[j]] : j \in 2 .. Len(Q)}
    <3>1. 2 \in 2 .. Len(Q)
      BY <1>1
    <3> QED BY <3>1
  <2> QED BY <2>1, <2>2, <2>3
<1>7. PutIn' = {data[q[i]] : i \in 2 .. Len(q)} \cup Range(got)'
  <2>1. PutIn' = {data'[Q'[i]] : i \in 2 .. Len(Q')} \cup Range(got)'
    BY DEF PutIn
  <2> QED BY <1>1, <1>4, <2>1
<1>8. PutIn' = PutIn
  <2>1. \A v : v \in PutIn' <=> v \in PutIn
    BY <1>5, <1>6, <1>7 DEF PutIn
  <2> QED BY <2>1
<1>9. got' \in Seq(Value) /\ Len(got') = Len(got) + 1
  BY <1>1, <1>3
<1> QED BY <1>8, <1>9

\* The new head is one step nearer to the tail.
LEMMA TakeInv ==
  ASSUME OneEnqueuer, QIndInv, NEW t \in Thread, Takes(t) PROVE QIndInv'
<1>1. /\ qpc[t] = "deq_take" /\ qhead = qreg[t].head
      /\ mem' = mem /\ data' = data /\ user' = user /\ qtail' = qtail
      /\ qreg' = qreg /\ calls' = calls /\ accepted' = accepted
  BY DEF Takes
<1>2. /\ QTypeInv /\ ChainInv /\ HistInv /\ \A u \in Thread : QSeen(u)
      /\ calls \in [Thread -> Nat] /\ qreg \in [Thread -> QReg]
      /\ \A u \in Thread : calls[u] \in Nat /\ calls[u] <= MaxCalls[u]
  BY Parts
<1>3. /\ ChainInv' /\ Q' = Tail(Q)
      /\ Len(Tail(Q)) = Len(Q) - 1
      /\ \A i \in 1 .. Len(Q) - 1 : Tail(Q)[i] = Q[i + 1]
      /\ \A x : x \in Range(Tail(Q)) <=> x \in Range(Q) /\ x # qhead.frag
      /\ qpc' \in [Thread -> QLabel] /\ qpc'[t] = "deq_free"
      /\ \A u \in Thread \ {t} : qpc'[u] = qpc[u] /\ qreg'[u] = qreg[u]
  BY TakeChain
<1>4. /\ mem[qhead.frag].frag \in Frag
      /\ Len(Q) \in Nat /\ Len(Q) >= 2
      /\ qtail.frag # qhead.frag
      /\ qhead' \in QNode /\ qhead'.count = qhead.count + 1
  BY TakeFacts
<1>5. QTypeInv'
  <2>1. /\ mem' \in [Frag -> QNode] /\ user' \subseteq Frag /\ qtail' \in QNode
        /\ data' \in [Frag -> Value \cup {Null}]
    BY <1>1, <1>2 DEF QTypeInv
  <2>2. /\ qreg' \in [Thread -> QReg] /\ calls' \in [Thread -> Nat]
        /\ \A u \in Thread : calls'[u] <= MaxCalls[u]
        /\ qpc'[t] \notin EnqPc /\ qpc'[t] # "enq_alloc"
    BY <1>1, <1>2, <1>3 DEF EnqPc, Carries
  <2>3. qreg'[t].head.frag \in Frag
    BY <1>1, <1>2, TailFacts
  <2> QED BY <1>3, <1>4, <2>1, <2>2, <2>3, NewType
<1>6. Writer \in Thread /\ qpc'[Writer] \in Opened \cup {"enq_end"} =>
        qpc'[Writer] = qpc[Writer]
  <2>1. "deq_free" \notin Opened \cup {"enq_end"}
    BY DEF Carries, Opened
  <2> QED BY <1>3, <2>1, Zenon
<1>7. HistInv'
  <2>1. PutIn' = PutIn /\ got' \in Seq(Value) /\ Len(got') = Len(got) + 1
    BY TakePut
  <2>2. /\ Len(got) \in Nat /\ qhead.count = Len(got)
        /\ Len(got) + Len(Q) - 1 <= calls[Writer]
        /\ qpc[Writer] \in Opened => Len(got) + Len(Q) <= calls[Writer]
    BY <1>2 DEF HistInv
  <2>3. qhead'.count = Len(got')
    BY <1>4, <2>1, <2>2
  <2>4. \E k \in 1 .. Len(Q') :
          qtail'.frag = Q'[k] /\ qtail'.count = Len(got') + k - 1
    <3>1. PICK k \in 1 .. Len(Q) :
            qtail.frag = Q[k] /\ qtail.count = Len(got) + k - 1
      BY <1>2, Zenon DEF HistInv
    <3>2. k # 1
      <4>1. Q[1] = qhead.frag
        BY <1>2, QFacts
      <4> QED BY <1>4, <3>1, <4>1
    <3>3. /\ k - 1 \in 1 .. Len(Q) - 1 /\ (k - 1) + 1 = k
          /\ Len(got) + k - 1 = (Len(got) + 1) + (k - 1) - 1
      BY <1>4, <2>2, <3>2
    <3>4. qtail.frag = Tail(Q)[k - 1]
      BY <1>3, <3>1, <3>3
    <3> QED BY <1>1, <1>3, <2>1, <3>1, <3>3, <3>4
  <2>5. /\ Len(got') + Len(Q') - 1 <= calls'[Writer]
        /\ qpc'[Writer] \in Opened => Len(got') + Len(Q') <= calls'[Writer]
    <3>1. Len(got') + Len(Q') = Len(got) + Len(Q)
      <4>1. Len(Q') = Len(Q) - 1
        BY <1>3
      <4> QED BY <1>4, <2>1, <2>2, <4>1
    <3>2. calls'[Writer] = calls[Writer] /\ Writer \in Thread
      BY <1>1, WriterFacts
    <3>3. qpc'[Writer] \in Opened => qpc[Writer] \in Opened
      BY <1>6, <3>2, Zenon
    <3> HIDE DEF Opened
    <3> QED BY <2>2, <3>1, <3>2, <3>3
  <2>6. Writer \in Thread
    BY WriterFacts
  <2>7. NoNode' = NoNode
    BY DEF NoNode, NodeOf
  <2>8. /\ \A v \in PutIn' : \E n \in 1 .. calls'[Writer] :
             /\ v = <<Writer, n>>
             /\ qpc'[Writer] \in Opened => n < calls'[Writer]
        /\ qpc'[Writer] \in Opened => calls'[Writer] >= 1
        /\ qpc'[Writer] \in Carries =>
             /\ qpc'[Writer] # "enq_init" => mem'[qreg'[Writer].frag] = NoNode'
             /\ qpc'[Writer] \notin {"enq_init", "enq_data"} =>
                  data'[qreg'[Writer].frag] = <<Writer, calls'[Writer]>>
        /\ accepted' \subseteq PutIn'
        /\ qpc'[Writer] = "enq_end" => <<Writer, calls'[Writer]>> \in PutIn'
    <3>1. Carries \subseteq Opened
      BY DEF Opened
    <3> QED BY <1>1, <1>2, <1>6, <2>1, <2>6, <2>7, <3>1, Zenon DEF HistInv
  <2> QED BY <2>1, <2>3, <2>4, <2>5, <2>8, Zenon DEF HistInv
<1>8. \A u \in Thread : QSeen(u)'
  <2>1. Stable(t)
    <3>1. \A x \in Range(Q) : mem[x].frag = Null => x \in Range(Q)'
      BY <1>3, <1>4, WriterFacts
    <3> QED BY <1>1, <1>3, <1>4, <3>1, Zenon DEF Stable
  <2>2. QSeen(t)'
    BY <1>3, NothingSeen
  <2>3. \A u \in Thread \ {t} : QSeen(u)'
    BY <1>2, <2>1, OthersSeen
  <2> QED BY <2>2, <2>3
<1> QED BY <1>3, <1>5, <1>7, <1>8 DEF QIndInv

\* deq_take: the value is taken, or the call starts anew.
LEMMA DeqTakeInv ==
  ASSUME OneEnqueuer, QIndInv, NEW t \in Thread, DeqTake(t) PROVE QIndInv'
<1>1. \/ Takes(t)
      \/ qpc[t] = "deq_take" /\ QGoto(t, "deq_head") /\ Private /\ qreg' = qreg
  BY Zenon DEF DeqTake, Takes, Private, vars
<1> QED BY <1>1, TakeInv, AgainInv, Zenon

-----------------------------------------------------------------------------
\* mempool_free begins: the fragment is no longer the queue's.
LEMMA FreeChain ==
  ASSUME OneEnqueuer, QIndInv, NEW t \in Thread, DeqFree(t)
  PROVE  /\ ChainInv' /\ Q' = Q
         /\ qpc' \in [Thread -> QLabel] /\ qpc'[t] = "deq_put"
         /\ \A u \in Thread \ {t} : qpc'[u] = qpc[u] /\ qreg'[u] = qreg[u]
<1> DEFINE f == qreg[t].head.frag
<1>1. /\ qpc[t] = "deq_free" /\ QGoto(t, "deq_put") /\ qreg' = qreg
      /\ mem' = mem /\ user' = user \ {f} /\ qhead' = qhead
  BY DEF DeqFree, FreeAt
<1>2. /\ QTypeInv /\ ChainInv /\ qpc \in [Thread -> QLabel]
      /\ user \subseteq Frag
  BY Parts DEF QTypeInv
<1>3. /\ qpc' \in [Thread -> QLabel] /\ qpc'[t] = "deq_put"
      /\ \A u \in Thread \ {t} : qpc'[u] = qpc[u] /\ qreg'[u] = qreg[u]
  <2>1. "deq_put" \in QLabel
    BY DEF QLabel
  <2> QED BY <1>1, <1>2, <2>1, GotoFacts
<1>4. f \in Frag /\ QHolds(t, f)
  BY <1>1, <1>2 DEF QTypeInv, QHolds
<1>5. f \notin Range(Q)
  BY <1>2, <1>4, ChainParts
<1> HIDE DEF f
<1>6. /\ \A u \in Thread \ {t}, x \in Frag : QHolds(u, x)' <=> QHolds(u, x)
      /\ \A x : ~ QHolds(t, x)'
      /\ \A x : QHolds(t, x) <=> x = f
  <2>1. "deq_put" \notin Carries \cup {"deq_free"}
    BY DEF Carries
  <2>2. \A x : ~ QHolds(t, x)'
    BY <1>3, <2>1, HoldsOf
  <2>3. \A x : QHolds(t, x) <=> x = f
    BY <1>1, HoldsNow DEF f
  <2>4. \A u \in Thread \ {t}, x \in Frag : QHolds(u, x)' <=> QHolds(u, x)
    BY <1>3, HoldsOf
  <2> QED BY <2>2, <2>3, <2>4
<1>7. ChainInv' /\ Q' = Q
  <2>1. IsPath(mem', Q, qhead'.frag) /\ Range(Q) \subseteq user'
    BY <1>1, <1>2, <1>5, ChainParts
  <2>2. \A u, w \in Thread, x \in Frag : QHolds(u, x) /\ QHolds(w, x) => u = w
    BY <1>2, ChainParts, Zenon
  <2>3. \A u \in Thread, x \in Frag :
          QHolds(u, x)' => x \in user' /\ x \notin Range(Q)
    <3>1. \A u \in Thread, x \in Frag :
            QHolds(u, x) => x \in user /\ x \notin Range(Q)
      BY <1>2, ChainParts, Zenon
    <3>2. \A u \in Thread \ {t} : ~ QHolds(u, f)
      BY <1>4, <2>2, Zenon
    <3>3. \A x \in user : x # f => x \in user'
      BY <1>1
    <3> QED BY <1>6, <3>1, <3>2, <3>3, Zenon
  <2>4. \A u, w \in Thread, x \in Frag :
          QHolds(u, x)' /\ QHolds(w, x)' => u = w
    BY <1>6, <2>2, Zenon
  <2>5. \A x \in user' : x \in Range(Q) \/ \E u \in Thread : QHolds(u, x)'
    <3>1. \A x \in user' : x \in user /\ x \in Frag /\ x # f
      BY <1>1, <1>2
    <3>2. \A x \in user : x \in Range(Q) \/ \E u \in Thread : QHolds(u, x)
      BY <1>2, ChainParts, Zenon
    <3> QED BY <1>6, <3>1, <3>2, Zenon
  <2> QED BY <2>1, <2>3, <2>4, <2>5, NewChain
<1> QED BY <1>3, <1>7

LEMMA DeqFreeInv ==
  ASSUME OneEnqueuer, QIndInv, NEW t \in Thread, DeqFree(t) PROVE QIndInv'
<1>1. /\ qpc[t] = "deq_free" /\ calls[t] < MaxCalls[t]
      /\ calls' = [calls EXCEPT ![t] = @ + 1] /\ qreg' = qreg
      /\ user' \subseteq user /\ mem' = mem
      /\ data' = data /\ qhead' = qhead /\ qtail' = qtail
      /\ accepted' = accepted /\ got' = got
  BY DEF DeqFree, FreeAt
<1>2. /\ QTypeInv /\ ChainInv /\ HistInv /\ \A u \in Thread : QSeen(u)
      /\ calls \in [Thread -> Nat] /\ qreg \in [Thread -> QReg]
      /\ \A u \in Thread : calls[u] \in Nat /\ calls[u] <= MaxCalls[u]
  BY Parts
<1>3. /\ ChainInv' /\ Q' = Q
      /\ qpc' \in [Thread -> QLabel] /\ qpc'[t] = "deq_put"
      /\ \A u \in Thread \ {t} : qpc'[u] = qpc[u] /\ qreg'[u] = qreg[u]
  BY FreeChain
<1>4. /\ calls' \in [Thread -> Nat]
      /\ \A u \in Thread : calls'[u] <= MaxCalls[u]
      /\ \A u \in Thread : calls[u] <= calls'[u] /\ calls'[u] \in Nat
      /\ \A u \in Thread \ {t} : calls'[u] = calls[u]
  <2>1. /\ calls' \in [Thread -> Nat] /\ calls'[t] = calls[t] + 1
        /\ \A u \in Thread \ {t} : calls'[u] = calls[u]
    BY <1>1, <1>2, CallFacts
  <2>2. MaxCalls[t] \in Nat
    BY MemPoolAssumption
  <2> QED BY <1>1, <1>2, <2>1, <2>2
<1>5. QTypeInv'
  <2>1. /\ user' \subseteq Frag /\ qhead' \in QNode /\ qtail' \in QNode
        /\ mem' \in [Frag -> QNode] /\ data' \in [Frag -> Value \cup {Null}]
    BY <1>1, <1>2 DEF QTypeInv
  <2>2. /\ qpc'[t] \notin EnqPc /\ qpc'[t] # "deq_free"
        /\ qpc'[t] # "enq_alloc"
    BY <1>3 DEF EnqPc, Carries
  <2> QED BY <1>1, <1>2, <1>3, <1>4, <2>1, <2>2, NewType
<1>6. HistInv'
  <2>1. PutIn' = PutIn
    BY <1>1, <1>3 DEF PutIn
  <2>2. Writer \in Thread /\ NoNode' = NoNode /\ Carries \subseteq Opened
    BY WriterFacts DEF NoNode, NodeOf, Opened
  <2>3. qpc'[Writer] \in Opened \cup {"enq_end"} =>
          qpc'[Writer] = qpc[Writer] /\ Writer # t
    <3>1. "deq_put" \notin Opened \cup {"enq_end"}
      BY DEF Carries, Opened
    <3> QED BY <1>3, <2>2, <3>1, Zenon
  <2>4. qpc'[Writer] \in Opened \cup {"enq_end"} =>
          calls'[Writer] = calls[Writer]
    BY <1>4, <2>2, <2>3, Zenon
  <2>5. /\ got \in Seq(Value) /\ qhead.count = Len(got)
        /\ \E k \in 1 .. Len(Q) :
             qtail.frag = Q[k] /\ qtail.count = Len(got) + k - 1
        /\ accepted \subseteq PutIn
    BY <1>2, Zenon DEF HistInv
  <2>6. Len(got) + Len(Q) - 1 <= calls'[Writer]
    <3>1. /\ Len(got) + Len(Q) - 1 <= calls[Writer]
          /\ Len(got) \in Nat /\ Len(Q) \in Nat
      BY <1>2, QFacts DEF HistInv
    <3> QED BY <1>2, <1>4, <2>2, <3>1
  <2>7. \A v \in PutIn : \E n \in 1 .. calls'[Writer] :
          v = <<Writer, n>> /\ (qpc'[Writer] \in Opened => n < calls'[Writer])
    <3> SUFFICES ASSUME NEW v \in PutIn
                 PROVE  \E n \in 1 .. calls'[Writer] :
                          /\ v = <<Writer, n>>
                          /\ qpc'[Writer] \in Opened => n < calls'[Writer]
      OBVIOUS
    <3>1. PICK n \in 1 .. calls[Writer] :
            v = <<Writer, n>> /\ (qpc[Writer] \in Opened => n < calls[Writer])
      BY <1>2, Zenon DEF HistInv
    <3>2. n \in 1 .. calls'[Writer]
      BY <1>2, <1>4, <2>2
    <3>3. qpc'[Writer] \in Opened => n < calls'[Writer]
      BY <2>3, <2>4, <3>1, Zenon
    <3> QED BY <3>1, <3>2, <3>3
  <2>8. /\ qpc'[Writer] \in Opened => calls'[Writer] >= 1
        /\ qpc'[Writer] \in Opened => Len(got) + Len(Q) <= calls'[Writer]
        /\ qpc'[Writer] = "enq_end" => <<Writer, calls'[Writer]>> \in PutIn
    BY <1>2, <2>3, <2>4, Zenon DEF HistInv
  <2>9. qpc'[Writer] \in Carries =>
          /\ qpc'[Writer] # "enq_init" => mem[qreg[Writer].frag] = NoNode
          /\ qpc'[Writer] \notin {"enq_init", "enq_data"} =>
               data[qreg[Writer].frag] = <<Writer, calls'[Writer]>>
    BY <1>2, <2>2, <2>3, <2>4, Zenon DEF HistInv
  <2> HIDE DEF PutIn, Q
  <2> QED BY <1>1, <1>3, <2>1, <2>2, <2>5, <2>6, <2>7, <2>8, <2>9, Zenon DEF HistInv
<1>7. \A u \in Thread : QSeen(u)'
  <2>1. Stable(t)
    BY <1>1, <1>3, Zenon DEF Stable
  <2>2. QSeen(t)'
    BY <1>3, NothingSeen
  <2>3. \A u \in Thread \ {t} : QSeen(u)'
    BY <1>2, <2>1, OthersSeen
  <2> QED BY <2>2, <2>3
<1> QED BY <1>3, <1>5, <1>6, <1>7 DEF QIndInv

-----------------------------------------------------------------------------
\* queue_create: one fragment is the queue's dummy, the others are in the pool.
LEMMA IndInit == OneEnqueuer /\ QInit => QIndInv
<1> SUFFICES ASSUME OneEnqueuer, QInit PROVE QIndInv
  OBVIOUS
<1> DEFINE q == <<0>>
<1>1. /\ Capacity \in Nat /\ Capacity >= 1 /\ CountMod \in Nat /\ CountMod >= 1
      /\ Null \notin Frag /\ Writer \in Thread /\ InUse = 1
      /\ MaxCalls \in [Thread -> Nat] /\ 0 \in Frag /\ user = {0}
  <2>1. InUse = 1 /\ user = 0 .. InUse - 1
    BY QueueAssumption DEF QInit, Init
  <2> QED BY <2>1, MemPoolAssumption, WriterFacts DEF Frag
<1>2. /\ mem \in [Frag -> QNode] /\ mem[0] = NoNode
      /\ NoNode \in QNode /\ NoNode.frag = Null
  <2>1. /\ NoNode \in QNode /\ NoNode.frag = Null
    BY LinkType DEF NoNode
  <2>2. \A i \in Frag : Setup(i) \in QNode
    <3> SUFFICES ASSUME NEW i \in Frag PROVE Setup(i) \in QNode
      OBVIOUS
    <3>1. CASE i = Capacity
      <4>1. ~ (i < Capacity)
        BY <1>1, <3>1
      <4> QED BY <2>1, <4>1 DEF Setup
    <3>2. CASE i # Capacity
      <4>1. i + 1 \in Frag /\ i < Capacity
        BY <1>1, <3>2 DEF Frag
      <4>2. NodeOf(1, i + 1) \in QNode
        BY <4>1, LinkType
      <4> QED BY <4>1, <4>2 DEF Setup
    <3> QED BY <3>1, <3>2
  <2>3. mem = [i \in Frag |-> IF i < InUse THEN NoNode ELSE Setup(i)]
    BY DEF QInit, Init
  <2> QED BY <1>1, <2>1, <2>2, <2>3
<1>3. /\ qhead.frag = 0 /\ qtail.frag = 0 /\ qhead \in QNode
      /\ qtail \in QNode /\ qhead.count = 0 /\ qtail.count = 0
      /\ qpc \in [Thread -> QLabel] /\ qreg \in [Thread -> QReg]
      /\ calls \in [Thread -> Nat]
      /\ \A t \in Thread : qpc[t] = "idle" /\ calls[t] = 0
      /\ accepted = {} /\ got = <<>> /\ data \in [Frag -> Value \cup {Null}]
  <2>1. "idle" \in QLabel /\ NoQReg \in QReg
    BY NoQRegType DEF QLabel
  <2>2. /\ NodeOf(0, 0) \in QNode /\ NodeOf(0, 0).frag = 0
        /\ NodeOf(0, 0).count = 0
    BY <1>1, LinkType
  <2> QED BY <2>1, <2>2 DEF QInit, Init
<1>4. QTypeInv
  <2>1. "idle" \notin EnqPc
    BY DEF EnqPc, Carries
  <2>2. \A t \in Thread : calls[t] <= MaxCalls[t]
    BY <1>1, <1>3
  <2>3. user \subseteq Frag
    BY <1>1
  <2> QED BY <1>2, <1>3, <2>1, <2>2, <2>3, Zenon DEF QTypeInv
<1>5. IsPath(mem, q, qhead.frag)
  BY <1>1, <1>2, <1>3 DEF IsPath, IsInjective
<1>6. Q = q
  BY <1>5, PathOf DEF Q
<1>7. Range(q) = {0}
  <2>1. q \in Seq(Frag) /\ Len(q) = 1 /\ q[1] = 0
    BY <1>1
  <2> HIDE DEF q
  <2>2. Range(q) = {q[i] : i \in 1 .. Len(q)}
    BY <2>1, SeqRange
  <2> QED BY <2>1, <2>2
<1> HIDE DEF q
<1>8. \A t \in Thread : \A f : ~ QHolds(t, f)
  BY <1>3, Zenon DEF QHolds, Carries
<1>9. ChainInv
  <2>1. IsPath(mem, Q, qhead.frag) /\ Range(Q) = user
    BY <1>1, <1>5, <1>6, <1>7
  <2>2. Range(Q) \subseteq user /\ \A f \in user : f \in Range(Q)
    BY <2>1
  <2> QED BY <1>8, <2>1, <2>2, Zenon DEF ChainInv
<1>10. HistInv
  <2>1. Len(Q) = 1 /\ Q[1] = 0
    BY <1>6 DEF q
  <2>2. PutIn = {}
    BY <1>3, <2>1 DEF PutIn, Range
  <2>3. qpc[Writer] = "idle" /\ calls[Writer] = 0
    BY <1>1, <1>3
  <2>4. qpc[Writer] \notin Opened /\ qpc[Writer] \notin Carries
    BY <2>3 DEF Carries, Opened
  <2>5. \E k \in 1 .. Len(Q) :
          qtail.frag = Q[k] /\ qtail.count = Len(got) + k - 1
    <3>1. 1 \in 1 .. Len(Q) /\ qtail.count = Len(got) + 1 - 1
      BY <1>3, <2>1
    <3> QED BY <1>3, <2>1, <3>1
  <2>6. got \in Seq(Value) /\ qhead.count = Len(got)
        /\ Len(got) + Len(Q) - 1 <= calls[Writer] /\ accepted \subseteq PutIn
    BY <1>3, <2>1, <2>3
  <2> QED BY <2>2, <2>3, <2>4, <2>5, <2>6, Zenon DEF HistInv
<1>11. \A t \in Thread : QSeen(t)
  BY <1>3, Zenon DEF QSeen, QHeadSeen, QTailSeen, EnqSeen, DeqSeen, QHeadRead,
                     QTailRead, NextRead
<1> QED BY <1>4, <1>9, <1>10, <1>11 DEF QIndInv

\* Every step keeps the invariant, while the pool's holds.
LEMMA IndNext == OneEnqueuer /\ IndInv /\ QIndInv /\ [QNext]_allvars => QIndInv'
<1> SUFFICES ASSUME OneEnqueuer, IndInv, QIndInv, [QNext]_allvars PROVE QIndInv'
  OBVIOUS
<1>1. CASE UNCHANGED allvars
  <2>1. /\ mem' = mem /\ data' = data /\ user' = user /\ qhead' = qhead
        /\ qtail' = qtail /\ qpc' = qpc /\ qreg' = qreg /\ calls' = calls
        /\ accepted' = accepted /\ got' = got
    BY <1>1 DEF allvars, vars, qvars
  <2>2. Q' = Q
    BY <2>1, QSame
  <2>3. QTypeInv'
    BY <2>1 DEF QIndInv, QTypeInv
  <2>4. ChainInv'
    <3>1. \A u, f : QHolds(u, f)' <=> QHolds(u, f)
      BY <2>1 DEF QHolds
    <3>2. /\ IsPath(mem', Q', qhead'.frag) /\ Range(Q)' = Range(Q)
      BY <2>1, <2>2, Parts, ChainParts
    <3>3. Range(Q)' \subseteq user'
      BY <2>1, <3>2, Parts, ChainParts
    <3> QED BY <2>1, <3>1, <3>2, <3>3, Zenon DEF QIndInv, ChainInv
  <2>5. HistInv'
    <3>1. PutIn' = PutIn
      BY <2>1, <2>2 DEF PutIn
    <3>2. NoNode' = NoNode
      BY DEF NoNode, NodeOf
    <3> QED BY <2>1, <2>2, <3>1, <3>2, Zenon DEF QIndInv, HistInv
  <2>6. \A t \in Thread : QSeen(t)'
    <3>1. Range(Q)' = Range(Q)
      BY <2>2
    <3> QED BY <2>1, <3>1, Zenon DEF QIndInv, QSeen, QHeadSeen, QTailSeen,
                                     EnqSeen, DeqSeen
  <2> QED BY <2>3, <2>4, <2>5, <2>6 DEF QIndInv
<1>2. CASE QDone
  BY <1>2, <1>1 DEF QDone
<1>3. ASSUME NEW t \in Thread, Enq(t) PROVE QIndInv'
  BY <1>3, EnqueueInv, EnqPickInv, EnqAllocInv, FillInv, EnqTailInv,
     EnqNextCountInv, EnqNextValInv, EnqCheckInv, EnqLinkInv, EnqSwingInv,
     EnqEndInv, Zenon DEF Enq
<1>4. ASSUME NEW t \in Thread, Deq(t) PROVE QIndInv'
  BY <1>4, DequeueInv, DeqHeadInv, DeqTailInv, DeqNextInv, DeqCheckInv,
     DeqEmptyInv, DeqSwingInv, DeqCopyInv, DeqTakeInv, DeqFreeInv, DeqPutInv,
     Zenon DEF Deq
<1> QED BY <1>1, <1>2, <1>3, <1>4 DEF QNext

-----------------------------------------------------------------------------
\* The queue uses its pool as the pool wants to be used: what it frees, and
\* what it writes to, it owns.  Its steps are those of the pool, or none.
LEMMA QStepIsPool ==
  ASSUME OneEnqueuer, QIndInv, [QNext]_allvars PROVE [Next]_vars
<1>1. CASE UNCHANGED allvars \/ QDone
  BY <1>1 DEF allvars, QDone
<1>2. ASSUME NEW t \in Thread, Enq(t) PROVE [Next]_vars
  <2>1. CASE Enqueue(t)
    BY <2>1 DEF Enqueue, Next
  <2>2. CASE EnqPick(t)
    <3>1. Pick(t)
      BY <2>2 DEF EnqPick, Pick
    <3> QED BY <3>1 DEF Next
  <2>3. CASE EnqFails(t)
    <3>1. Pick(t)
      BY <2>3 DEF EnqFails, Pick
    <3> QED BY <3>1 DEF Next
  <2>4. CASE EnqAlloc(t)
    <3>1. Pick(t)
      BY <2>4 DEF EnqAlloc, Pick
    <3> QED BY <3>1 DEF Next
  <2>5. CASE EnqInit(t)
    <3>1. qreg[t].frag \in user
      <4>1. qpc[t] = "enq_init" /\ "enq_init" \in Carries /\ "enq_init" \in EnqPc
        BY <2>5 DEF EnqInit, Carries, EnqPc
      <4>2. QHolds(t, qreg[t].frag) /\ qreg[t].frag \in Frag
        BY <4>1, Parts DEF QHolds
      <4> QED BY <4>2, Parts, ChainParts
    <3>2. NoNode \in UserData
      BY LinkType, QueueAssumption DEF NoNode, QNode, Node
    <3>3. \E f \in user, d \in UserData : Store(f, d)
      BY <2>5, <3>1, <3>2 DEF EnqInit
    <3> QED BY <3>3 DEF Next
  <2>6. CASE EnqLink(t)
    <3> DEFINE d == NodeOf(mem[qreg[t].tail.frag].count + 1, qreg[t].frag)
    <3>1. CASE Links(t) /\ Store(qreg[t].tail.frag, d)
      <4>1. /\ qreg[t].tail.frag \in Range(Q) /\ qpc[t] = "enq_link"
        BY <3>1, Parts, Zenon DEF Links, QSeen, EnqSeen
      <4>2. qreg[t].tail.frag \in user /\ qreg[t].tail.frag \in Frag
        BY <4>1, Parts, QFacts
      <4>3. qreg[t].frag \in Frag
        BY <3>1, LinkChain
      <4>4. d \in UserData
        <5>1. mem[qreg[t].tail.frag].count + 1 \in Nat
          BY <4>2, Parts, WriterFacts DEF QTypeInv, QNode
        <5>2. d \in QNode
          BY <4>3, <5>1, LinkType
        <5> QED BY <5>2, QueueAssumption DEF QNode, Node
      <4>5. \E f \in user, e \in UserData : Store(f, e)
        BY <3>1, <4>2, <4>4
      <4> QED BY <4>5 DEF Next
    <3>2. CASE UNCHANGED vars
      BY <3>2
    <3>3. (Links(t) /\ Store(qreg[t].tail.frag, d)) \/ UNCHANGED vars
      BY <2>6, Zenon DEF EnqLink, Links, Store
    <3> QED BY <3>1, <3>2, <3>3
  <2>7. CASE \/ EnqData(t) \/ EnqTail(t) \/ EnqNextCount(t) \/ EnqNextVal(t)
             \/ EnqCheck(t) \/ EnqSwing(t) \/ EnqEnd(t)
    BY <2>7 DEF EnqData, EnqTail, EnqNextCount, EnqNextVal, EnqCheck, EnqSwing,
                EnqEnd
  <2> QED BY <1>2, <2>1, <2>2, <2>3, <2>4, <2>5, <2>6, <2>7, Zenon DEF Enq
<1>3. ASSUME NEW t \in Thread, Deq(t) PROVE [Next]_vars
  <2>1. CASE DeqFree(t)
    <3>1. qreg[t].head.frag \in user
      <4>1. qpc[t] = "deq_free"
        BY <2>1 DEF DeqFree
      <4>2. QHolds(t, qreg[t].head.frag) /\ qreg[t].head.frag \in Frag
        BY <4>1, Parts DEF QHolds, QTypeInv
      <4> QED BY <4>2, Parts, ChainParts
    <3>2. Free(t)
      BY <2>1, <3>1 DEF DeqFree, Free
    <3> QED BY <3>2 DEF Next
  <2>2. CASE DeqPut(t) \/ DeqDone(t)
    <3>1. Put(t)
      BY <2>2 DEF DeqPut, DeqDone, Put
    <3> QED BY <3>1 DEF Next
  <2>3. CASE \/ Dequeue(t) \/ DeqHead(t) \/ DeqTail(t) \/ DeqNext(t)
             \/ DeqCheck(t) \/ DeqEmpty(t) \/ DeqSwing(t) \/ DeqCopy(t)
             \/ DeqTake(t)
    BY <2>3 DEF Dequeue, DeqHead, DeqTail, DeqNext, DeqCheck, DeqEmpty, DeqSwing,
                DeqCopy, DeqTake
  <2> QED BY <1>3, <2>1, <2>2, <2>3, Zenon DEF Deq
<1> QED BY <1>1, <1>2, <1>3 DEF QNext

\* Calls of mempool_free that have overlapped have overlapped for ever.
LEMMA QOverlapStays == ASSUME overlap, [QNext]_allvars PROVE overlap'
<1>1. CASE UNCHANGED allvars \/ QDone
  BY <1>1 DEF allvars, vars, QDone
<1>2. ASSUME NEW t \in Thread, Enq(t) PROVE overlap'
  BY <1>2 DEF Enq, Enqueue, EnqPick, EnqFails, EnqAlloc, EnqInit, EnqData, EnqTail,
              EnqNextCount, EnqNextVal, EnqCheck, EnqLink, EnqSwing, EnqEnd, Alloc,
              PickHead, PickTail, PickNext, PickCheck, PickSwing, PickTake,
              PickFail, PickCount, Store, vars
<1>3. ASSUME NEW t \in Thread, Deq(t) PROVE overlap'
  BY <1>3 DEF Deq, Dequeue, DeqHead, DeqTail, DeqNext, DeqCheck, DeqEmpty, DeqSwing,
              DeqCopy, DeqTake, DeqFree, DeqPut, DeqDone, FreeAt, PutInit, PutTail,
              PutNextCount, PutNextFrag, PutCheck, PutLink, PutSwing, PutEnd,
              PutCount, vars
<1> QED BY <1>1, <1>2, <1>3 DEF QNext

\* The invariants of the pool and of the queue, together.
LEMMA QInductive ==
  ASSUME OneEnqueuer, NoWrap
  PROVE  QSpec => [](overlap \/ (IndInv /\ QIndInv))
<1>1. QInit => Fresh /\ ~ overlap
  BY InitFresh DEF QInit
<1>2. QInit => QIndInv
  BY IndInit
<1>3. Fresh /\ ~ overlap => IndInv
  BY FreshInv
<1>4. QIndInv /\ [QNext]_allvars => [Next]_vars
  BY QStepIsPool
<1>5. IndInv /\ [Next]_vars /\ ~ overlap' => IndInv' \/ Fresh'
  BY NextInv
<1>6. IndInv /\ QIndInv /\ [QNext]_allvars => QIndInv'
  BY IndNext
<1>7. overlap /\ [QNext]_allvars => overlap'
  BY QOverlapStays
<1> QED BY <1>1, <1>2, <1>3, <1>4, <1>5, <1>6, <1>7, PTL DEF QSpec

\* It frees only what it owns and writes only to what it owns
\* (collections.c:495, 588, 650).
THEOREM UsesPoolHolds == ASSUME OneEnqueuer, NoWrap PROVE QSpec => UsesPool
<1>1. QInit => Init
  BY DEF QInit
<1>2. (overlap \/ (IndInv /\ QIndInv)) /\ [QNext]_allvars
        => [Next \/ overlap']_vars
  <2>1. ASSUME overlap, [QNext]_allvars PROVE [Next \/ overlap']_vars
    BY <2>1, QOverlapStays
  <2>2. ASSUME QIndInv, [QNext]_allvars PROVE [Next \/ overlap']_vars
    BY <2>2, QStepIsPool
  <2> QED BY <2>1, <2>2
<1> QED BY <1>1, <1>2, QInductive, PTL DEF QSpec, UsesPool

-----------------------------------------------------------------------------
\* The types, for every number of threads that dequeue: head and tail point to
\* a fragment, no value is copied through a null pointer and what comes out is a
\* value, until calls of mempool_free overlap (collections.c:612-653).
THEOREM QTypeCorrect ==
  ASSUME OneEnqueuer, NoWrap PROVE QSpec => [](overlap \/ QTypeOK)
<1>1. QIndInv => QTypeOK
  <2> SUFFICES ASSUME QIndInv PROVE QTypeOK
    OBVIOUS
  <2>1. QTypeInv /\ ChainInv /\ HistInv /\ \A t \in Thread : QSeen(t)
    BY Parts
  <2>2. qhead.frag \in Frag /\ qtail.frag \in Frag
    BY <2>1, TailFacts
  <2>3. \A t \in Thread : qpc[t] = "deq_copy" => qreg[t].next.frag \in Frag
    BY <2>1, Zenon DEF QSeen, DeqSeen
  <2>4. accepted \subseteq Value
    <3> SUFFICES ASSUME NEW v \in accepted PROVE v \in Value
      OBVIOUS
    <3>1. PICK n \in 1 .. calls[Writer] : v = <<Writer, n>>
      BY <2>1, Zenon DEF HistInv
    <3>2. /\ calls[Writer] \in Nat /\ calls[Writer] <= MaxCalls[Writer]
          /\ MaxCalls[Writer] \in Nat
          /\ \A i \in 1 .. MaxCalls[Writer] : <<Writer, i>> \in Value
      BY <2>1, WriterFacts, TailFacts
    <3>3. n \in 1 .. MaxCalls[Writer]
      BY <3>2
    <3> QED BY <3>1, <3>2, <3>3
  <2>5. /\ \A n \in QNode : n \in Node
        /\ \A r \in QReg : r \in [head : Node, tail : Node, next : Node,
                                   frag : Frag \cup {Null},
                                   copy : Value \cup {Null}, empty : BOOLEAN]
    BY DEF QNode, QReg, Node
  <2>6. /\ qhead \in Node /\ qtail \in Node
        /\ qreg \in [Thread -> [head : Node, tail : Node, next : Node,
                                 frag : Frag \cup {Null},
                                 copy : Value \cup {Null}, empty : BOOLEAN]]
    BY <2>1, <2>5 DEF QTypeInv
  <2> QED BY <2>1, <2>2, <2>3, <2>4, <2>6, Zenon DEF QTypeOK, QTypeInv, HistInv
<1> QED BY <1>1, QInductive, PTL

\* Held is a function of what Holds says.
LEMMA HeldHolds ==
  ASSUME NEW t, NEW f PROVE f \in Held(t) <=> QHolds(t, f)
<1>1. CASE qpc[t] \in Carries
  <2>1. qpc[t] # "deq_free" /\ Held(t) = {qreg[t].frag}
    BY <1>1 DEF Held, Carries
  <2> QED BY <1>1, <2>1 DEF QHolds
<1>2. CASE qpc[t] = "deq_free"
  <2>1. qpc[t] \notin Carries /\ Held(t) = {qreg[t].head.frag}
    BY <1>2 DEF Held, Carries
  <2> QED BY <1>2, <2>1 DEF QHolds
<1>3. CASE qpc[t] \notin Carries /\ qpc[t] # "deq_free"
  <2>1. Held(t) = {}
    BY <1>3 DEF Held, Carries
  <2> QED BY <1>3, <2>1 DEF QHolds
<1> QED BY <1>1, <1>2, <1>3

\* No fragment that the queue has from the pool is lost or in the hands of two
\* calls, and none is in the queue and in the free list at once, until calls of
\* mempool_free overlap (collections.c:584-588, 643-650).
THEOREM FragmentsKeptHolds ==
  ASSUME OneEnqueuer, NoWrap PROVE QSpec => []FragmentsKept
<1>1. ASSUME IndInv, QIndInv PROVE FragmentsKept
  <2>1. /\ QTypeInv /\ ChainInv /\ HistInv /\ Range(Q) \subseteq user
        /\ user \cap Chain = {} /\ user \subseteq Frag
    BY <1>1, Parts, Where, ChainParts
  <2>2. On(qhead.frag) = Range(Q)
    BY PathIsPathIn DEF On, Q, Range
  <2>3. qtail.frag \in Range(Q)
    BY <2>1, TailFacts
  <2>4. ASSUME NEW f \in Frag
        PROVE  Cardinality({f} \cap Range(Q))
                 + Cardinality({t \in Thread : f \in Held(t)})
                 = IF f \in user THEN 1 ELSE 0
    <3> DEFINE S == {t \in Thread : f \in Held(t)}
    <3>1. \A t \in Thread : t \in S <=> QHolds(t, f)
      BY HeldHolds
    <3>2. S \subseteq Thread
      OBVIOUS
    <3>3. Cardinality({}) = 0 /\ \A x : Cardinality({x}) = 1
      BY FS_EmptySet, FS_Singleton
    <3> HIDE DEF S
    <3>4. CASE f \in Range(Q)
      <4>1. S = {}
        BY <2>1, <3>1, <3>2, <3>4, ChainParts
      <4>2. {f} \cap Range(Q) = {f} /\ f \in user
        BY <2>1, <3>4
      <4>3. Cardinality(S) = 0 /\ Cardinality({f} \cap Range(Q)) = 1
        BY <3>3, <4>1, <4>2, Zenon
      <4> QED BY <4>2, <4>3 DEF S
    <3>5. CASE f \in user /\ f \notin Range(Q)
      <4>1. PICK t \in Thread : QHolds(t, f)
        BY <2>1, <3>5, ChainParts
      <4>2. \A u \in Thread : QHolds(u, f) => u = t
        BY <2>1, <4>1, ChainParts, Zenon
      <4>3. S = {t} /\ {f} \cap Range(Q) = {}
        BY <3>1, <3>2, <3>5, <4>1, <4>2
      <4>4. Cardinality(S) = 1 /\ Cardinality({f} \cap Range(Q)) = 0
        BY <3>3, <4>3, Zenon
      <4> QED BY <3>5, <4>4 DEF S
    <3>6. CASE f \notin user
      <4>1. S = {} /\ {f} \cap Range(Q) = {}
        BY <2>1, <3>1, <3>2, <3>6, ChainParts
      <4>2. Cardinality(S) = 0 /\ Cardinality({f} \cap Range(Q)) = 0
        BY <3>3, <4>1, Zenon
      <4> QED BY <3>6, <4>2 DEF S
    <3> QED BY <2>1, <3>4, <3>5, <3>6
  <2> QED BY <2>1, <2>2, <2>3, <2>4 DEF FragmentsKept
<1>2. overlap => FragmentsKept
  BY DEF FragmentsKept
<1> QED BY <1>1, <1>2, QInductive, PTL

\* queue_dequeue says ENOENT only if the queue was empty at some moment of the
\* call, until calls of mempool_free overlap (collections.c:630-633).
THEOREM NoSpuriousENOENTHolds ==
  ASSUME OneEnqueuer, NoWrap PROVE QSpec => [](overlap \/ NoSpuriousENOENT)
<1>1. QIndInv => NoSpuriousENOENT
  BY Zenon DEF QIndInv, QSeen, DeqSeen, NoSpuriousENOENT
<1> QED BY <1>1, QInductive, PTL

\* The values in the queue.
LEMMA Items ==
  ASSUME ChainInv
  PROVE  /\ items = [i \in 1 .. Len(Q) - 1 |-> data[Q[i + 1]]]
         /\ Len(items) = Len(Q) - 1 /\ Len(items) \in Nat
         /\ \A i \in 1 .. Len(Q) - 1 : items[i] = data[Q[i + 1]]
         /\ DOMAIN items = 1 .. Len(Q) - 1
         /\ items \in Seq({data[f] : f \in Frag})
<1>1. items = [i \in 1 .. Len(Q) - 1 |-> data[Q[i + 1]]]
  BY PathIsPathIn DEF items, Q
<1>2. Q \in Seq(Frag) /\ Len(Q) \in Nat /\ Len(Q) >= 1
      /\ \A i \in 1 .. Len(Q) : Q[i] \in Frag
  BY QFacts
<1>3. \A i \in 1 .. Len(Q) - 1 : data[Q[i + 1]] \in {data[f] : f \in Frag}
  <2>1. \A i \in 1 .. Len(Q) - 1 : i + 1 \in 1 .. Len(Q)
    BY <1>2
  <2> QED BY <1>2, <2>1
<1>4. Len(Q) - 1 \in Nat
  BY <1>2
<1>5. items \in Seq({data[f] : f \in Frag})
  BY <1>1, <1>3, <1>4
<1>6. DOMAIN items = 1 .. Len(Q) - 1
      /\ \A i \in 1 .. Len(Q) - 1 : items[i] = data[Q[i + 1]]
  BY <1>1
<1>7. Len(items) = Len(Q) - 1
  BY <1>4, <1>5, <1>6
<1> QED BY <1>1, <1>4, <1>5, <1>6, <1>7

\* The values in the queue after a step.
LEMMA ItemsNext == items' = [i \in 1 .. Len(Q') - 1 |-> data'[Q'[i + 1]]]
BY DEF items, Q, Path, PathIn

\* A sequence is the function of its elements.
LEMMA SeqFun ==
  ASSUME NEW S, NEW s \in Seq(S), NEW n \in Nat, Len(s) = n
  PROVE  s = [i \in 1 .. n |-> s[i]]
OBVIOUS

\* The values that were put are in the queue or have been taken.
LEMMA PutIsAll ==
  ASSUME ChainInv
  PROVE  PutIn = Range(items) \cup Range(got)
<1>1. /\ DOMAIN items = 1 .. Len(Q) - 1 /\ Len(Q) \in Nat
      /\ \A i \in 1 .. Len(Q) - 1 : items[i] = data[Q[i + 1]]
  BY Items, QFacts
<1>2. ASSUME NEW i \in 2 .. Len(Q) PROVE data[Q[i]] \in Range(items)
  <2>1. i - 1 \in 1 .. Len(Q) - 1 /\ (i - 1) + 1 = i
    BY <1>1
  <2>2. items[i - 1] = data[Q[i]]
    BY <1>1, <2>1
  <2> QED BY <1>1, <2>1, <2>2 DEF Range
<1>3. ASSUME NEW v \in Range(items)
      PROVE  v \in {data[Q[i]] : i \in 2 .. Len(Q)}
  <2>1. PICK i \in 1 .. Len(Q) - 1 : v = items[i]
    BY <1>1 DEF Range
  <2>2. i + 1 \in 2 .. Len(Q) /\ v = data[Q[i + 1]]
    BY <1>1, <2>1
  <2> QED BY <2>2
<1> QED BY <1>2, <1>3 DEF PutIn

\* No value that queue_enqueue has accepted gets lost, until calls of
\* mempool_free overlap (collections.c:563-601).
THEOREM ValuesKeptHolds == ASSUME OneEnqueuer, NoWrap PROVE QSpec => []ValuesKept
<1>1. QIndInv => ValuesKept
  <2> SUFFICES ASSUME QIndInv, NEW v \in accepted
               PROVE  \/ \E i \in DOMAIN items : items[i] = v
                      \/ \E i \in DOMAIN got : got[i] = v
    BY DEF ValuesKept
  <2>1. v \in Range(items) \/ v \in Range(got)
    BY Parts, PutIsAll
  <2> QED BY <2>1 DEF Range
<1>2. overlap => ValuesKept
  BY DEF ValuesKept
<1> QED BY <1>1, <1>2, QInductive, PTL

-----------------------------------------------------------------------------
\* The queue implements a bounded FIFO queue.

\* There is room for the fragment of a call that is about to link it: the dummy
\* of the free list and the fragments of the queue are as many as there are.
LEMMA RoomLeft ==
  ASSUME IndInv, QIndInv, NEW t \in Thread, NEW x \in Frag, QHolds(t, x)
  PROVE  Len(items) < Room
<1> DEFINE s == Append(Append(Q, x), head.frag)
<1>1. /\ Q \in Seq(Frag) /\ Len(Q) \in Nat
      /\ \A i \in 1 .. Len(Q) : Q[i] \in Frag /\ Q[i] \in Range(Q)
      /\ \A i, j \in 1 .. Len(Q) : Q[i] = Q[j] => i = j
  BY Parts, QFacts
<1>2. head.frag \in Frag /\ head.frag \notin user
  BY Where
<1>3. x \notin Range(Q) /\ head.frag \notin Range(Q) /\ x # head.frag
  BY <1>2, Parts, ChainParts
<1>4. /\ s \in Seq(Frag) /\ Len(s) = Len(Q) + 2
      /\ \A i \in 1 .. Len(Q) : s[i] = Q[i]
      /\ s[Len(Q) + 1] = x /\ s[Len(Q) + 2] = head.frag
  BY <1>1, <1>2
<1> HIDE DEF s
<1>5. \A i, j \in 1 .. Len(s) : s[i] = s[j] => i = j
  <2> SUFFICES ASSUME NEW i \in 1 .. Len(s), NEW j \in 1 .. Len(s), s[i] = s[j]
               PROVE  i = j
    OBVIOUS
  <2>1. /\ i \in 1 .. Len(Q) \/ i = Len(Q) + 1 \/ i = Len(Q) + 2
        /\ j \in 1 .. Len(Q) \/ j = Len(Q) + 1 \/ j = Len(Q) + 2
    BY <1>1, <1>4
  <2>2. \A k \in 1 .. Len(Q) : s[k] # x /\ s[k] # head.frag
    BY <1>1, <1>3, <1>4
  <2> QED BY <1>1, <1>3, <1>4, <2>1, <2>2
<1>6. Len(s) <= Capacity + 1
  <2>1. Capacity \in Nat /\ s \in [1 .. Len(s) -> 0 .. Capacity] /\ Len(s) \in Nat
    BY <1>4, MemPoolAssumption DEF Frag
  <2> QED BY <1>5, <2>1, Pigeonhole
<1>7. Len(items) = Len(Q) - 1
  BY Parts, Items
<1>8. Capacity \in Nat
  BY MemPoolAssumption
<1> QED BY <1>1, <1>4, <1>6, <1>7, <1>8 DEF Room

\* The link is a Put of the abstract queue.
LEMMA LinkPuts ==
  ASSUME OneEnqueuer, IndInv, QIndInv, NEW t \in Thread, Links(t)
  PROVE  \E v \in Value \ (Range(items) \cup Range(got)) : F!Put(v)
<1> DEFINE x == qreg[t].frag
           v == <<t, calls[t]>>
<1>1. /\ qpc[t] = "enq_link" /\ data' = data /\ got' = got
  BY DEF Links
<1>2. /\ ChainInv' /\ Q' = Append(Q, x) /\ t = Writer /\ x \in Frag
      /\ data[x] = v
  BY LinkChain
<1>3. /\ ChainInv /\ HistInv /\ calls[t] \in Nat /\ calls[t] <= MaxCalls[t]
  BY Parts
<1>4. qpc[t] \in Carries /\ qpc[t] \in Opened
  BY <1>1 DEF Carries, Opened
<1>5. Len(items) < Room
  <2>1. QHolds(t, x)
    BY <1>4 DEF QHolds
  <2> QED BY <1>2, <2>1, RoomLeft
<1>6. v \in Value
  <2>1. calls[t] >= 1
    BY <1>2, <1>3, <1>4, Zenon DEF HistInv
  <2>2. calls[t] \in 1 .. MaxCalls[Writer]
    BY <1>2, <1>3, <2>1, WriterFacts
  <2> QED BY <1>2, <2>2, WriterFacts
<1>7. v \notin PutIn
  <2> SUFFICES ASSUME v \in PutIn PROVE FALSE
    OBVIOUS
  <2>1. PICK n \in 1 .. calls[Writer] : v = <<Writer, n>> /\ n < calls[Writer]
    BY <1>2, <1>3, <1>4, Zenon DEF HistInv
  <2>2. calls[t] = n
    BY <2>1
  <2> QED BY <1>2, <1>3, <2>1, <2>2
<1>8. v \notin Range(items) \cup Range(got)
  BY <1>3, <1>7, PutIsAll
<1>9. items' = Append(items, v)
  <2>1. items = [i \in 1 .. Len(Q) - 1 |-> data[Q[i + 1]]]
    BY <1>3, Items
  <2>2. items' = [i \in 1 .. Len(Q') - 1 |-> data'[Q'[i + 1]]]
    BY ItemsNext
  <2>3. /\ Q \in Seq(Frag) /\ Len(Q) \in Nat /\ Len(Q) >= 1
    BY <1>3, QFacts
  <2> HIDE DEF x, v
  <2>4. /\ Len(Q') = Len(Q) + 1 /\ Q'[Len(Q) + 1] = x
        /\ \A i \in 1 .. Len(Q) : Q'[i] = Q[i]
    BY <1>2, <2>3
  <2>5. /\ Len(items) = Len(Q) - 1 /\ items \in Seq({data[f] : f \in Frag})
        /\ \A i \in 1 .. Len(Q) - 1 : items[i] = data[Q[i + 1]]
    BY <1>3, Items
  <2>6. items' = [i \in 1 .. Len(Q) |-> data[Q'[i + 1]]]
    BY <1>1, <2>2, <2>3, <2>4
  <2>7. Append(items, v) = [i \in 1 .. Len(Q) |->
                              IF i = Len(Q) THEN v ELSE data[Q[i + 1]]]
    <3> DEFINE S == {data[f] : f \in Frag} \cup {v}
               a == Append(items, v)
    <3>1. items \in Seq(S) /\ v \in S
      BY <2>5
    <3> HIDE DEF S
    <3>2. /\ a \in Seq(S) /\ Len(a) = Len(Q)
          /\ \A i \in 1 .. Len(Q) : a[i] = IF i = Len(Q) THEN v ELSE items[i]
      BY <2>3, <2>5, <3>1
    <3> HIDE DEF a
    <3>3. a = [i \in 1 .. Len(Q) |-> a[i]]
      BY <2>3, <3>2, SeqFun
    <3>4. \A i \in 1 .. Len(Q) :
            a[i] = IF i = Len(Q) THEN v ELSE data[Q[i + 1]]
      BY <2>3, <2>5, <3>2
    <3>5. a = [i \in 1 .. Len(Q) |-> IF i = Len(Q) THEN v ELSE data[Q[i + 1]]]
      BY <3>3, <3>4
    <3> QED BY <3>5 DEF a
  <2>8. \A i \in 1 .. Len(Q) :
          data[Q'[i + 1]] = IF i = Len(Q) THEN v ELSE data[Q[i + 1]]
    BY <1>2, <2>3, <2>4
  <2> QED BY <2>6, <2>7, <2>8
<1>10. F!Put(v)
  BY <1>1, <1>5, <1>9 DEF F!Put
<1> QED BY <1>6, <1>8, <1>10

\* The move of the head is its Take.
LEMMA TakeTakes ==
  ASSUME OneEnqueuer, QIndInv, NEW t \in Thread, Takes(t)
  PROVE  F!Take
<1>1. /\ got' = Append(got, data[Q[2]]) /\ data' = data
      /\ Len(Q) \in Nat /\ Len(Q) >= 2
  BY TakeFacts DEF Takes
<1>2. /\ Q' = Tail(Q) /\ Len(Tail(Q)) = Len(Q) - 1
      /\ \A i \in 1 .. Len(Q) - 1 : Tail(Q)[i] = Q[i + 1]
  BY TakeChain
<1>3. /\ items \in Seq({data[f] : f \in Frag}) /\ Len(items) = Len(Q) - 1
      /\ \A i \in 1 .. Len(Q) - 1 : items[i] = data[Q[i + 1]]
  BY Parts, Items
<1>4. items # <<>> /\ Head(items) = data[Q[2]]
  BY <1>1, <1>3
<1>5. items' = [i \in 1 .. Len(Q') - 1 |-> data'[Q'[i + 1]]]
  BY ItemsNext
<1>6. items' = [i \in 1 .. Len(Q) - 2 |-> data[Q[i + 2]]]
  <2> DEFINE q == Tail(Q)
  <2>1. /\ Q' = q /\ Len(q) = Len(Q) - 1
        /\ \A i \in 1 .. Len(Q) - 1 : q[i] = Q[i + 1]
    BY <1>2
  <2> HIDE DEF q
  <2>2. items' = [i \in 1 .. Len(Q) - 2 |-> data[q[i + 1]]]
    BY <1>1, <1>5, <2>1
  <2>3. \A i \in 1 .. Len(Q) - 2 : q[i + 1] = Q[i + 2]
    BY <1>1, <2>1
  <2> QED BY <2>2, <2>3
<1>7. Tail(items) = [i \in 1 .. Len(Q) - 2 |-> items[i + 1]]
  <2> DEFINE S == {data[f] : f \in Frag}
             a == Tail(items)
  <2>1. items \in Seq(S) /\ Len(items) = Len(Q) - 1 /\ items # <<>>
    BY <1>3, <1>4
  <2> HIDE DEF S
  <2>2. /\ a \in Seq(S) /\ Len(a) = Len(Q) - 2 /\ Len(Q) - 2 \in Nat
        /\ \A i \in 1 .. Len(Q) - 2 : a[i] = items[i + 1]
    BY <1>1, <2>1
  <2> HIDE DEF a
  <2>3. a = [i \in 1 .. Len(Q) - 2 |-> a[i]]
    BY <2>2, SeqFun
  <2>4. a = [i \in 1 .. Len(Q) - 2 |-> items[i + 1]]
    BY <2>2, <2>3
  <2> QED BY <2>4 DEF a
<1>8. \A i \in 1 .. Len(Q) - 2 : items[i + 1] = data[Q[i + 2]]
  BY <1>1, <1>3
<1>9. items' = Tail(items)
  BY <1>6, <1>7, <1>8
<1> QED BY <1>1, <1>4, <1>9 DEF F!Take

\* Every other step leaves the abstract queue alone.
LEMMA SameItems ==
  ASSUME ChainInv, Q' = Q, \A x \in Range(Q) : data'[x] = data[x], got' = got
  PROVE  UNCHANGED <<items, got>>
<1>1. items = [i \in 1 .. Len(Q) - 1 |-> data[Q[i + 1]]]
  BY Items
<1>2. items' = [i \in 1 .. Len(Q') - 1 |-> data'[Q'[i + 1]]]
  BY ItemsNext
<1>3. \A i \in 1 .. Len(Q) : Q[i] \in Range(Q)
  BY QFacts
<1>4. Len(Q) \in Nat
  BY QFacts
<1>5. \A i \in 1 .. Len(Q) - 1 : data'[Q[i + 1]] = data[Q[i + 1]]
  BY <1>3, <1>4
<1> QED BY <1>1, <1>2, <1>5

\* The other steps change nothing in it.
LEMMA OtherSteps ==
  ASSUME OneEnqueuer, IndInv, QIndInv, [QNext]_allvars
  PROVE  \/ \E t \in Thread : Links(t) \/ Takes(t)
         \/ Q' = Q /\ got' = got /\ \A x \in Range(Q) : data'[x] = data[x]
<1>1. CASE UNCHANGED allvars \/ QDone
  BY <1>1, QSame DEF allvars, vars, qvars, QDone
<1>2. ASSUME NEW t \in Thread, Enq(t)
      PROVE  \/ Links(t)
             \/ Q' = Q /\ got' = got /\ \A x \in Range(Q) : data'[x] = data[x]
  <2>1. CASE Enqueue(t)
    BY <2>1, QSame DEF Enqueue, Alloc
  <2>2. CASE EnqPick(t) \/ EnqFails(t)
    <3>1. mem' = mem /\ qhead' = qhead /\ got' = got /\ data' = data
      BY <2>2 DEF EnqPick, EnqFails, qvars, PickHead, PickTail, PickNext, PickCheck,
                  PickSwing, PickTake, PickFail
    <3> QED BY <3>1, QSame
  <2>3. CASE EnqAlloc(t)
    BY <2>3, QSame DEF EnqAlloc, PickCount
  <2>4. CASE EnqInit(t) \/ EnqData(t)
    <3>1. got' = got
      BY <2>4 DEF EnqInit, EnqData
    <3> QED BY <2>4, <3>1, FillChain
  <2>5. CASE EnqTail(t) \/ EnqNextCount(t) \/ EnqNextVal(t) \/ EnqCheck(t)
    BY <2>5, QSame DEF EnqTail, EnqNextCount, EnqNextVal, EnqCheck, vars
  <2>6. CASE EnqLink(t)
    <3>1. Links(t) \/ Private
      BY <2>6, Zenon DEF EnqLink, Links, Private, Store, vars
    <3> QED BY <3>1, QSame DEF Private
  <2>7. CASE EnqSwing(t) \/ EnqEnd(t)
    BY <2>7, QSame DEF EnqSwing, EnqEnd, vars
  <2> QED BY <1>2, <2>1, <2>2, <2>3, <2>4, <2>5, <2>6, <2>7, Zenon DEF Enq
<1>3. ASSUME NEW t \in Thread, Deq(t)
      PROVE  \/ Takes(t)
             \/ Q' = Q /\ got' = got /\ \A x \in Range(Q) : data'[x] = data[x]
  <2>1. CASE DeqTake(t)
    <3>1. Takes(t) \/ Private
      BY <2>1, Zenon DEF DeqTake, Takes, Private, vars
    <3> QED BY <3>1, QSame DEF Private
  <2>2. CASE DeqFree(t)
    BY <2>2, QSame DEF DeqFree, FreeAt
  <2>3. CASE DeqPut(t) \/ DeqDone(t)
    <3>1. /\ qhead' = qhead /\ got' = got /\ data' = data
          /\ mem' = mem \/ PutInit(t) \/ PutLink(t)
      BY <2>3 DEF DeqPut, DeqDone, qvars, PutInit, PutTail, PutNextCount,
                  PutNextFrag, PutCheck, PutLink, PutSwing, PutEnd, PutCount
    <3>2. \A f \in user : mem'[f] = mem[f]
      BY <3>1, PutSpares
    <3> QED BY <3>1, <3>2, Parts, QKept
  <2>4. CASE Dequeue(t) \/ DeqHead(t) \/ DeqTail(t) \/ DeqNext(t) \/ DeqCheck(t)
    BY <2>4, QSame DEF Dequeue, DeqHead, DeqTail, DeqNext, DeqCheck, vars
  <2>5. CASE DeqEmpty(t) \/ DeqSwing(t) \/ DeqCopy(t)
    BY <2>5, QSame DEF DeqEmpty, DeqSwing, DeqCopy, vars
  <2> QED BY <1>3, <2>1, <2>2, <2>3, <2>4, <2>5, Zenon DEF Deq
<1> QED BY <1>1, <1>2, <1>3 DEF QNext

\* The compare-and-swap that links a fragment is the moment of the put, the one
\* that moves the head is the moment of the take, and no other step changes
\* what is in the queue, until calls of mempool_free overlap
\* (collections.c:588, 643).
THEOREM FifoImplemented ==
  ASSUME OneEnqueuer, NoWrap PROVE QSpec => ImplementsFifo
<1>1. QInit => F!Init
  <2> SUFFICES ASSUME QInit PROVE items = <<>> /\ got = <<>>
    BY DEF F!Init
  <2>1. QIndInv
    BY IndInit
  <2>2. mem[qhead.frag].frag = Null
    <3>1. qhead = NodeOf(0, 0) /\ InUse = 1 /\ 0 \in Frag
          /\ mem = [i \in Frag |-> IF i < InUse THEN NoNode ELSE Setup(i)]
      BY QueueAssumption, MemPoolAssumption DEF QInit, Init, Frag
    <3>2. qhead.frag = 0 /\ mem[0] = NoNode
      BY <3>1 DEF NodeOf
    <3> QED BY <3>2 DEF NoNode, NodeOf
  <2> QED BY <2>1, <2>2, Parts, NothingThere DEF QInit
<1>2. ASSUME IndInv, QIndInv, [QNext]_allvars
      PROVE  [F!Next \/ overlap']_<<items, got>>
  <2>1. CASE \E t \in Thread : Links(t) \/ Takes(t)
    <3>1. F!Next
      BY <1>2, <2>1, LinkPuts, TakeTakes DEF F!Next, F!Range, Range
    <3> QED BY <3>1
  <2>2. CASE Q' = Q /\ got' = got /\ \A x \in Range(Q) : data'[x] = data[x]
    BY <1>2, <2>2, Parts, SameItems
  <2> QED BY <1>2, <2>1, <2>2, OtherSteps
<1>3. overlap /\ [QNext]_allvars => overlap'
  BY QOverlapStays
<1>4. (overlap \/ (IndInv /\ QIndInv)) /\ [QNext]_allvars
        => [F!Next \/ overlap']_<<items, got>>
  BY <1>2, <1>3
<1> QED BY <1>1, <1>4, QInductive, PTL DEF QSpec, ImplementsFifo, F!vars

-----------------------------------------------------------------------------
\* One thread dequeues: only queue_dequeue frees, so calls of mempool_free do
\* not overlap.  What holds until they do, holds throughout.
OneDequeuer == \E d \in Thread : Dequeuer = {d}

DeqPc == {"deq_head", "deq_tail", "deq_next", "deq_check", "deq_empty",
          "deq_swing", "deq_copy", "deq_take", "deq_free", "deq_put"}

AloneInv ==
  /\ pc \in [Thread -> Label] /\ qpc \in [Thread -> QLabel]
  /\ \A t \in Thread : qpc[t] \in DeqPc => t \in Dequeuer
  /\ \A t \in Thread : pc[t] \in Putting => qpc[t] = "deq_put"
  /\ ~ overlap

\* A step by which t comes to m in its call on the pool and to l in its own.
LEMMA AloneStep ==
  ASSUME AloneInv, NEW t \in Thread, NEW m \in Label, NEW l \in QLabel,
         pc' = [pc EXCEPT ![t] = m], qpc' = [qpc EXCEPT ![t] = l],
         l \in DeqPc => t \in Dequeuer, m \in Putting => l = "deq_put",
         ~ overlap'
  PROVE  AloneInv'
<1>1. \A u \in Thread : /\ pc'[u] = IF u = t THEN m ELSE pc[u]
                        /\ qpc'[u] = IF u = t THEN l ELSE qpc[u]
  BY DEF AloneInv
<1>2. pc' \in [Thread -> Label] /\ qpc' \in [Thread -> QLabel]
  BY DEF AloneInv
<1> QED BY <1>1, <1>2 DEF AloneInv

\* It stays where it is in its call on the pool, or in its own.
LEMMA AloneStays ==
  ASSUME AloneInv, NEW t \in Thread
  PROVE  /\ pc = [pc EXCEPT ![t] = pc[t]] /\ pc[t] \in Label
         /\ qpc = [qpc EXCEPT ![t] = qpc[t]] /\ qpc[t] \in QLabel
         /\ qpc[t] \in DeqPc => t \in Dequeuer
         /\ pc[t] \in Putting => qpc[t] = "deq_put"
BY DEF AloneInv

LEMMA AloneEnq ==
  ASSUME AloneInv, NEW t \in Thread, Enq(t) PROVE AloneInv'
<1>1. CASE Enqueue(t)
  BY <1>1, AloneStep, AloneStays DEF Enqueue, Alloc, Goto, QGoto, AloneInv, Label,
     QLabel, DeqPc, Putting, Unlinked, Linked
<1>2. CASE EnqPick(t)
  <2>1. PICK m \in {"pick_head", "pick_tail", "pick_next", "pick_check", "pick_fail",
                    "pick_swing", "pick_take", "pick_count"} :
          pc' = [pc EXCEPT ![t] = m]
    BY <1>2 DEF EnqPick, PickHead, PickTail, PickNext, PickCheck, PickBranch,
       PickSwing, PickTake, Goto
  <2>2. qpc' = qpc /\ ~ overlap' /\ m \in Label /\ m \notin Putting
    BY <1>2, <2>1 DEF EnqPick, PickHead, PickTail, PickNext, PickCheck, PickSwing,
       PickTake, qvars, AloneInv, Label, Putting, Unlinked, Linked
  <2> QED BY <2>1, <2>2, AloneStep, AloneStays, Zenon
<1>3. CASE EnqFails(t)
  BY <1>3, AloneStep, AloneStays DEF EnqFails, PickFail, Goto, QGoto, AloneInv,
     Label, QLabel, DeqPc, Putting, Unlinked, Linked
<1>4. CASE EnqAlloc(t)
  BY <1>4, AloneStep, AloneStays DEF EnqAlloc, PickCount, Goto, QGoto, AloneInv,
     Label, QLabel, DeqPc, Putting, Unlinked, Linked
<1>5. CASE \/ EnqInit(t) \/ EnqData(t) \/ EnqTail(t) \/ EnqNextCount(t)
           \/ EnqNextVal(t) \/ EnqCheck(t) \/ EnqLink(t) \/ EnqSwing(t) \/ EnqEnd(t)
  <2>1. PICK l \in {"enq_data", "enq_tail", "enq_next_count", "enq_next_val",
                    "enq_check", "enq_link", "enq_swing", "enq_end", "idle"} :
          qpc' = [qpc EXCEPT ![t] = l]
    BY <1>5 DEF EnqInit, EnqData, EnqTail, EnqNextCount, EnqNextVal, EnqCheck,
       EnqLink, EnqSwing, EnqEnd, QGoto
  <2>2. pc' = pc /\ ~ overlap' /\ l \in QLabel /\ l \notin DeqPc
    BY <1>5, <2>1 DEF EnqInit, EnqData, EnqTail, EnqNextCount, EnqNextVal, EnqCheck,
       EnqLink, EnqSwing, EnqEnd, Store, vars, AloneInv, QLabel, DeqPc
  <2>3. pc[t] \notin Putting
    <3>1. qpc[t] # "deq_put"
      BY <1>5 DEF EnqInit, EnqData, EnqTail, EnqNextCount, EnqNextVal, EnqCheck,
         EnqLink, EnqSwing, EnqEnd
    <3> QED BY <3>1 DEF AloneInv
  <2> QED BY <2>1, <2>2, <2>3, AloneStep, AloneStays, Zenon
<1> QED BY <1>1, <1>2, <1>3, <1>4, <1>5, Zenon DEF Enq

LEMMA AloneDeq ==
  ASSUME OneDequeuer, AloneInv, NEW t \in Thread, Deq(t) PROVE AloneInv'
<1>1. t \in Dequeuer
  <2>1. CASE Dequeue(t)
    BY <2>1 DEF Dequeue
  <2>2. CASE qpc[t] \in DeqPc
    BY <2>2 DEF AloneInv
  <2> QED BY <2>1, <2>2 DEF Deq, DeqHead, DeqTail, DeqNext, DeqCheck, DeqEmpty,
          DeqSwing, DeqCopy, DeqTake, DeqFree, DeqPut, DeqDone, DeqPc
<1>2. CASE \/ Dequeue(t) \/ DeqHead(t) \/ DeqTail(t) \/ DeqNext(t) \/ DeqCheck(t)
           \/ DeqEmpty(t) \/ DeqSwing(t) \/ DeqCopy(t) \/ DeqTake(t)
  <2>1. PICK l \in {"deq_head", "deq_tail", "deq_next", "deq_check", "deq_empty",
                    "deq_swing", "deq_copy", "deq_take", "deq_free", "idle"} :
          qpc' = [qpc EXCEPT ![t] = l]
    BY <1>2 DEF Dequeue, DeqHead, DeqTail, DeqNext, DeqCheck, DeqBranch, DeqEmpty,
       DeqSwing, DeqCopy, DeqTake, QGoto
  <2>2. pc' = pc /\ ~ overlap' /\ l \in QLabel
    BY <1>2, <2>1 DEF Dequeue, DeqHead, DeqTail, DeqNext, DeqCheck, DeqEmpty,
       DeqSwing, DeqCopy, DeqTake, vars, AloneInv, QLabel
  <2>3. pc[t] \notin Putting
    <3>1. qpc[t] # "deq_put"
      BY <1>2 DEF Dequeue, DeqHead, DeqTail, DeqNext, DeqCheck, DeqEmpty, DeqSwing,
         DeqCopy, DeqTake
    <3> QED BY <3>1 DEF AloneInv
  <2> QED BY <1>1, <2>1, <2>2, <2>3, AloneStep, AloneStays, Zenon
\* Nobody else is in mempool_free: it would be in queue_dequeue.
<1>3. CASE DeqFree(t)
  <2>1. ASSUME NEW u \in Thread, pc[u] \in Putting PROVE FALSE
    <3>1. qpc[u] = "deq_put"
      BY <2>1 DEF AloneInv
    <3>2. u \in Dequeuer
      BY <3>1 DEF AloneInv, DeqPc
    <3>3. u = t
      BY <1>1, <3>2 DEF OneDequeuer
    <3> QED BY <1>3, <3>1, <3>3 DEF DeqFree
  <2>2. ~ overlap'
    BY <1>3, <2>1 DEF DeqFree, FreeAt, AloneInv
  <2> QED BY <1>1, <1>3, <2>2, AloneStep DEF DeqFree, FreeAt, Goto, QGoto, Label,
          QLabel, Putting
<1>4. CASE DeqPut(t)
  <2>1. PICK m \in Unlinked \cup Linked : pc' = [pc EXCEPT ![t] = m]
    BY <1>4 DEF DeqPut, PutInit, PutTail, PutNextCount, PutNextFrag, PutCheck,
       PutLink, PutSwing, PutEnd, Goto, Unlinked, Linked
  <2>2. qpc' = qpc /\ qpc[t] = "deq_put" /\ ~ overlap' /\ m \in Label
    BY <1>4, <2>1 DEF DeqPut, PutInit, PutTail, PutNextCount, PutNextFrag, PutCheck,
       PutLink, PutSwing, PutEnd, qvars, AloneInv, Label, Putting
  <2> QED BY <2>1, <2>2, AloneStep, AloneStays, Zenon
<1>5. CASE DeqDone(t)
  BY <1>5, AloneStep, AloneStays DEF DeqDone, PutCount, Goto, QGoto, AloneInv, Label,
     QLabel, DeqPc, Putting, Unlinked, Linked
<1> QED BY <1>2, <1>3, <1>4, <1>5, Zenon DEF Deq

\* With one thread that dequeues, calls of mempool_free never overlap, whoever
\* enqueues (collections.c:650).
THEOREM NeverOverlaps ==
  ASSUME OneDequeuer PROVE QSpec => [](~ overlap)
<1>1. QInit => AloneInv
  BY DEF QInit, Init, AloneInv, Label, QLabel, DeqPc, Putting, Unlinked, Linked
<1>2. AloneInv /\ [QNext]_allvars => AloneInv'
  <2> SUFFICES ASSUME AloneInv, [QNext]_allvars PROVE AloneInv'
    OBVIOUS
  <2>1. CASE UNCHANGED allvars \/ QDone
    BY <2>1 DEF allvars, vars, qvars, QDone, AloneInv
  <2> QED BY <2>1, AloneEnq, AloneDeq DEF QNext
<1>3. AloneInv => ~ overlap
  BY DEF AloneInv
<1> QED BY <1>1, <1>2, <1>3, PTL DEF QSpec

\* With one thread at either end the queue is a bounded FIFO queue, throughout.
THEOREM OneOfEachFifo ==
  ASSUME OneEnqueuer, OneDequeuer, NoWrap PROVE QSpec => F!Spec
<1>1. QSpec => [](~ overlap)
  BY NeverOverlaps
<1>2. QSpec => ImplementsFifo
  BY FifoImplemented
<1>3. (~ overlap)' /\ [F!Next \/ overlap']_<<items, got>> => [F!Next]_<<items, got>>
  OBVIOUS
<1> QED BY <1>1, <1>2, <1>3, PTL DEF ImplementsFifo, F!Spec, F!vars
=============================================================================
