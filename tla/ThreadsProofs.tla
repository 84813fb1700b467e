--------------------------- MODULE ThreadsProofs ---------------------------
(***************************************************************************)
(* Theorems about Threads, for any clients, values of pthread_t, buckets,  *)
(* control blocks, keys and calls.                                         *)
(*                                                                         *)
(* The inductive invariant is built in layers, each proved with those      *)
(* before it: where threads are and what they hold (ControlInv), that a    *)
(* bucket has one holder (BucketInv), what the fields contain (DataInv,    *)
(* RecordInv), which call, thread and owner belong together (CallInv,      *)
(* NameInv), that a semaphore has one holder (SemInv), that buckets come   *)
(* round late (FreshInv), and what a block and its promise say until one   *)
(* is overwritten under its reader's eyes (KeepInv, BlockInv, StatusInv).  *)
(***************************************************************************)
EXTENDS Threads, FiniteSetTheorems, TLAPS

ClientPc == {"idle", "pthread", "wait", "name"}
\* A new thread before it frees its bucket, and while it still reads it.
Owns   == {"entry", "insert", "give_up", "key", "specific", "free"}
LatePc == {"refuse", "suspend", "promise", "clear", "func"}
\* A thread that is registered, and one that has left the list.
Listed == {"key", "specific", "free", "suspend", "promise", "clear", "func",
           "run", "name", "delete"}
Gone   == {"release", "unkey", "dead"}
ThrPc  == Owns \cup LatePc
            \cup {"none", "run", "name", "delete", "release", "unkey", "dead"}

Block  == [func : Call \cup {None}, prms : Call \cup {None},
           suspend : Sem \cup {None}]
Naming == [of : Thr, block : Entry]

\* Who holds a bucket that is not free.
Holder(t) == pc[t] = "pthread" \/ pc[t] \in Owns

\* Where clients and threads can be, and that they hold a bucket and belong to
\* a call in the places where they use them.
ControlInv ==
  /\ pc \in [Client \cup Thr -> ClientPc \cup ThrPc]
  /\ \A c \in Client : pc[c] \in ClientPc
  /\ \A p \in Thr : pc[p] \in ThrPc
  /\ buckets \in Seq(Bucket)
  /\ boot \in [Client \cup Thr -> Bucket \cup {None}]
  /\ \A t \in Client \cup Thr :
       Holder(t) \/ pc[t] \in LatePc => boot[t] \in Bucket
  /\ calls \in 0 .. MaxCalls
  /\ cur \in [Client -> Call \cup {None}]
  /\ \A c \in Client :
       IF pc[c] \in {"pthread", "wait"} THEN cur[c] \in 1 .. calls
                                        ELSE cur[c] = None
  /\ born \in [Thr -> Call \cup {None}]
  /\ \A p \in Thr :
       IF pc[p] = "none" THEN born[p] = None ELSE born[p] \in 1 .. calls

\* A bucket is free once or has one holder.
BucketInv ==
  /\ IsInjective(buckets)
  /\ \A t \in Client \cup Thr : Holder(t) => boot[t] \notin Range(buckets)
  /\ \A t, u \in Client \cup Thr :
       Holder(t) /\ Holder(u) /\ boot[t] = boot[u] => t = u

\* What blocks, entries of the list and copies of them contain where they are
\* read.
DataInv ==
  /\ suspends \in Seq(Sem)
  /\ tcb \in [Bucket -> Block]
  /\ tcbs \in [Thr -> Entry \cup {None}]
  /\ copy \in [Client \cup Thr -> Entry \cup {None} \cup Naming]
  /\ suspend \in [Thr -> Sem \cup {None}]
  /\ \A p \in Thr : pc[p] = "insert" => tcb[boot[p]].suspend \in Sem
  /\ \A p \in Thr : pc[p] \in Listed => tcbs[p] # None
  /\ \A p \in Thr : pc[p] = "release" => copy[p] \in Entry
  /\ \A t \in Client \cup Thr : pc[t] = "name" => copy[t] \in Naming

RecordInv ==
  /\ keys \subseteq Call /\ tcb_key \in Call \cup {None}
  /\ status \in [Call -> {"unset", "zero", "nomem"}]
  /\ result \in [Call -> {"none", "zero", "nomem", "again", "refused"}]
  /\ specific \in [Thr -> Call \cup {None}]
  /\ owner \in [Thr -> Client \cup {None}] /\ detached \subseteq Thr
  /\ func \in [Thr -> Call \cup {None}]
  /\ reused \in BOOLEAN

\* Calls are not shared; a thread is joined or detached by nobody before its
\* call has returned.
CallInv ==
  /\ \A c, d \in Client : cur[c] # None /\ cur[c] = cur[d] => c = d
  /\ \A p, q \in Thr : born[p] # None /\ born[p] = born[q] => p = q
  /\ \A c \in Client : pc[c] = "pthread" => \A p \in Thr : born[p] # cur[c]
  /\ \A p \in Thr : owner[p] # None \/ p \in detached =>
       born[p] # None /\ \A c \in Client : cur[c] # born[p]
  /\ \A p \in detached : owner[p] = None
  /\ \A p \in Thr :
       func[p] # None => pc[p] \in {"run", "name", "delete"} \cup Gone

\* What thrd_set_name writes back is the present entry but for the name, or
\* the thread has left the list for good: it cannot be joined meanwhile.
NameInv ==
  \A t \in Client \cup Thr : pc[t] = "name" =>
    \E p \in Thr :
      /\ p = copy[t].of
      /\ p = t \/ owner[p] = t
      /\ tcbs[p] = None => pc[p] \in Gone
      /\ tcbs[p] # None => copy[t].block.suspend = tcbs[p].suspend

\* The semaphore of a thread on its way into the list or out of it.
InHand(p) == pc[p] \in {"insert", "release"}
Hand(p)   == IF pc[p] = "insert" THEN tcb[boot[p]].suspend ELSE copy[p].suspend

\* A semaphore is free once, in one entry of the list or in one hand.
SemInv ==
  /\ IsInjective(suspends)
  /\ \A p \in Thr : tcbs[p] # None => tcbs[p].suspend \notin Range(suspends)
  /\ \A p, q \in Thr :
       tcbs[p] # None /\ tcbs[q] # None /\ tcbs[p].suspend = tcbs[q].suspend
         => p = q
  /\ \A p \in Thr : InHand(p) => Hand(p) \notin Range(suspends)
  /\ \A p, q \in Thr : InHand(p) /\ tcbs[q] # None => Hand(p) # tcbs[q].suspend
  /\ \A p, q \in Thr : InHand(p) /\ InHand(q) /\ Hand(p) = Hand(q) => p = q

\* The first calls take the buckets in order; those that have been freed are
\* behind the ones that nobody has had yet.
FreshInv ==
  calls <= NumBuckets + 1 =>
    /\ ~reused
    /\ NumBuckets + 1 - calls <= Len(buckets)
    /\ \A i \in 1 .. NumBuckets + 1 - calls : buckets[i] = calls + i
    /\ \A t \in Client \cup Thr :
         Holder(t) \/ pc[t] \in LatePc => boot[t] <= calls

\* A bucket that is still read lies in the pool, and no two threads read it.
KeepInv ==
  ~reused =>
    /\ \A p \in Thr : pc[p] \in LatePc => boot[p] \in Range(buckets)
    /\ \A p, q \in Thr :
         pc[p] \in LatePc /\ pc[q] \in LatePc /\ boot[p] = boot[q] => p = q

\* A block says what thrd_create has written as long as its thread reads it.
BlockInv ==
  ~reused =>
    /\ \A c \in Client : pc[c] = "pthread" =>
         tcb[boot[c]].func = cur[c] /\ tcb[boot[c]].prms = cur[c]
    /\ \A p \in Thr : pc[p] \in Owns \cup LatePc => tcb[boot[p]].func = born[p]
    /\ \A p \in Thr : pc[p] \in Owns \cup {"refuse", "suspend", "promise"} =>
         tcb[boot[p]].prms = born[p]
    /\ \A p \in Thr : pc[p] \in {"key", "specific", "free", "suspend"} =>
         tcb[boot[p]].suspend = tcbs[p].suspend
    /\ \A p \in Thr : pc[p] \in {"promise", "clear", "func", "run", "name"} =>
         suspend[p] = tcbs[p].suspend

Waits(p) == \E c \in Client : pc[c] = "wait" /\ cur[c] = born[p]

\* The call of a thread waits until the thread has announced itself.
StatusInv ==
  ~reused =>
    /\ \A k \in Call : k > calls => status[k] = "unset"
    /\ \A c \in Client : pc[c] = "pthread" => status[cur[c]] = "unset"
    /\ \A p \in Thr : pc[p] \in Owns \cup {"refuse", "suspend", "promise"} =>
         status[born[p]] = "unset" /\ Waits(p)
    /\ \A p \in Thr : pc[p] \in {"clear", "func"} => status[born[p]] = "zero"
    /\ \A p \in Thr :
         func[p] # None => func[p] = born[p] /\ status[born[p]] = "zero"

IndInv ==
  /\ ControlInv /\ BucketInv /\ RecordInv /\ DataInv /\ CallInv /\ NameInv
  /\ SemInv /\ FreshInv /\ KeepInv /\ BlockInv /\ StatusInv

-----------------------------------------------------------------------------
(***************************************************************************)
(* A sequence as a free list.                                              *)
(***************************************************************************)
\* The elements of a sequence.
LEMMA SeqRange == ASSUME NEW S, NEW s \in Seq(S)
                  PROVE  Range(s) = {s[i] : i \in 1 .. Len(s)}
  BY DEF Range

\* Taking the first element of a free list.
LEMMA TailFacts ==
  ASSUME NEW S, NEW s \in Seq(S), IsInjective(s), s # <<>>
  PROVE  /\ Tail(s) \in Seq(S) /\ IsInjective(Tail(s))
         /\ Len(Tail(s)) = Len(s) - 1
         /\ Head(s) \in S /\ Head(s) = s[1]
         /\ Head(s) \in Range(s) /\ Head(s) \notin Range(Tail(s))
         /\ \A x : x \in Range(Tail(s)) => x \in Range(s)
         /\ \A x : x \in Range(s) /\ x # Head(s) => x \in Range(Tail(s))
<1>1. /\ Tail(s) \in Seq(S) /\ Len(Tail(s)) = Len(s) - 1 /\ Head(s) = s[1]
      /\ Head(s) \in S
      /\ \A i \in 1 .. Len(s) - 1 : Tail(s)[i] = s[i + 1]
      /\ 1 \in 1 .. Len(s)
  OBVIOUS
<1>2. Range(Tail(s)) = {Tail(s)[i] : i \in 1 .. Len(s) - 1}
  BY <1>1, SeqRange
<1>3. Range(s) = {s[i] : i \in 1 .. Len(s)}
  BY SeqRange
<1>4. \A i, j \in 1 .. Len(s) - 1 : Tail(s)[i] = Tail(s)[j] => i = j
  <2>1. TAKE i, j \in 1 .. Len(s) - 1
  <2>2. i + 1 \in 1 .. Len(s) /\ j + 1 \in 1 .. Len(s)
    OBVIOUS
  <2>3. s[i + 1] = s[j + 1] => i + 1 = j + 1
    BY <2>2 DEF IsInjective
  <2> QED BY <1>1, <2>3
<1>5. IsInjective(Tail(s))
  BY <1>1, <1>4 DEF IsInjective
<1>6. Head(s) \notin Range(Tail(s))
  <2>1. ASSUME NEW i \in 1 .. Len(s) - 1 PROVE Tail(s)[i] # Head(s)
    <3>1. i + 1 \in 1 .. Len(s) /\ i + 1 # 1
      OBVIOUS
    <3>2. s[i + 1] # s[1]
      BY <3>1, <1>1 DEF IsInjective
    <3> QED BY <3>2, <1>1
  <2> QED BY <2>1, <1>2
<1>7. ASSUME NEW x, x \in Range(Tail(s)) PROVE x \in Range(s)
  <2>1. PICK i \in 1 .. Len(s) - 1 : x = Tail(s)[i]
    BY <1>2, <1>7
  <2>2. i + 1 \in 1 .. Len(s) /\ x = s[i + 1]
    BY <1>1, <2>1
  <2> QED BY <2>2, <1>3
<1>8. Head(s) \in Range(s)
  BY <1>1, <1>3
<1>9. ASSUME NEW x, x \in Range(s), x # Head(s) PROVE x \in Range(Tail(s))
  <2>1. PICK i \in 1 .. Len(s) : x = s[i]
    BY <1>3, <1>9
  <2>2. i - 1 \in 1 .. Len(s) - 1 /\ (i - 1) + 1 = i
    BY <1>1, <1>9, <2>1
  <2>3. x = Tail(s)[i - 1]
    BY <1>1, <2>1, <2>2
  <2> QED BY <1>2, <2>2, <2>3
<1> QED BY <1>1, <1>5, <1>6, <1>7, <1>8, <1>9

\* Giving an element back to a free list.
LEMMA AppendFacts ==
  ASSUME NEW S, NEW s \in Seq(S), NEW x \in S
  PROVE  /\ Append(s, x) \in Seq(S)
         /\ Len(Append(s, x)) = Len(s) + 1
         /\ \A y : (y \in Range(Append(s, x))) <=> (y \in Range(s) \/ y = x)
         /\ IsInjective(s) /\ x \notin Range(s) => IsInjective(Append(s, x))
<1>1. /\ Append(s, x) \in Seq(S) /\ Len(Append(s, x)) = Len(s) + 1
      /\ Append(s, x)[Len(s) + 1] = x
      /\ \A i \in 1 .. Len(s) : Append(s, x)[i] = s[i]
      /\ Len(s) \in Nat
  OBVIOUS
<1>2. Range(Append(s, x)) = {Append(s, x)[i] : i \in 1 .. Len(s) + 1}
  BY <1>1, SeqRange
<1>3. Range(s) = {s[i] : i \in 1 .. Len(s)}
  BY SeqRange
<1>4. ASSUME NEW y
      PROVE  (y \in Range(Append(s, x))) <=> (y \in Range(s) \/ y = x)
  <2>1. ASSUME y \in Range(s) \/ y = x PROVE y \in Range(Append(s, x))
    <3>1. CASE y = x
      BY <1>1, <1>2, <3>1, Len(s) + 1 \in 1 .. Len(s) + 1
    <3>2. CASE y \in Range(s)
      <4>1. PICK i \in 1 .. Len(s) : y = s[i]
        BY <1>3, <3>2
      <4>2. i \in 1 .. Len(s) + 1 /\ y = Append(s, x)[i]
        BY <1>1, <4>1
      <4> QED BY <4>2, <1>2
    <3> QED BY <2>1, <3>1, <3>2
  <2>2. ASSUME y \in Range(Append(s, x)) PROVE y \in Range(s) \/ y = x
    <3>1. PICK i \in 1 .. Len(s) + 1 : y = Append(s, x)[i]
      BY <1>2, <2>2
    <3>2. CASE i = Len(s) + 1
      BY <1>1, <3>1, <3>2
    <3>3. CASE i \in 1 .. Len(s)
      BY <1>1, <1>3, <3>1, <3>3
    <3> QED BY <3>2, <3>3, <1>1
  <2> QED BY <2>1, <2>2
<1>5. ASSUME IsInjective(s), x \notin Range(s) PROVE IsInjective(Append(s, x))
  <2>1. \A i \in 1 .. Len(s) : s[i] # x
    BY <1>3, <1>5
  <2>2. \A i, j \in 1 .. Len(s) + 1 : Append(s, x)[i] = Append(s, x)[j]
          => i = j
    <3>1. TAKE i, j \in 1 .. Len(s) + 1
    <3>2. (i = Len(s) + 1 \/ i \in 1 .. Len(s)) /\ (j = Len(s) + 1
            \/ j \in 1 .. Len(s))
      BY <1>1
    <3> QED BY <3>2, <1>1, <2>1, <1>5 DEF IsInjective
  <2> QED BY <1>1, <2>2 DEF IsInjective
<1> QED BY <1>1, <1>4, <1>5

-----------------------------------------------------------------------------
\* Each layer of the invariant is kept by every step.
LEMMA ControlStep == ControlInv /\ [Next \/ Done]_vars => ControlInv'
<1> SUFFICES ASSUME ControlInv, [Next \/ Done]_vars PROVE ControlInv'
  OBVIOUS
<1> USE ThreadsAssumption DEF ControlInv, Holder, ClientPc, ThrPc, Owns,
       LatePc, Goto,
        pools, keyvars, frame, thread, after, Call, Bucket
<1>1. ASSUME NEW c \in Client, CreateCall(c) PROVE ControlInv'
  <2>1. CASE Avail(buckets)
    <3>1. /\ Head(buckets) \in Bucket /\ Tail(buckets) \in Seq(Bucket)
      BY <2>1 DEF Avail
    <3>2. /\ pc[c] = "idle" /\ calls < MaxCalls /\ calls' = calls + 1
          /\ buckets' = Tail(buckets)
          /\ boot' = [boot EXCEPT ![c] = Head(buckets)]
          /\ cur' = [cur EXCEPT ![c] = calls']
          /\ pc' = [pc EXCEPT ![c] = "pthread"]
          /\ born' = born
      BY <1>1, <2>1 DEF CreateCall
    <3> QED BY <3>1, <3>2
  <2>2. CASE ~Avail(buckets)
    BY <1>1, <2>2 DEF CreateCall
  <2> QED BY <2>1, <2>2
<1>2. ASSUME NEW c \in Client, PthreadCreate(c) PROVE ControlInv'
  <2>1. PICK p \in Thr :
          /\ pc[p] = "none" /\ pc[c] = "pthread"
          /\ pc' = [pc EXCEPT ![c] = "wait", ![p] = "entry"]
          /\ boot' = [boot EXCEPT ![c] = None, ![p] = boot[c]]
          /\ born' = [born EXCEPT ![p] = cur[c]]
          /\ UNCHANGED <<buckets, calls, cur>>
    BY <1>2 DEF PthreadCreate
  <2>2. c # p
    OBVIOUS
  <2> QED BY <2>1, <2>2
<1>3. ASSUME NEW c \in Client, PthreadFails(c) PROVE ControlInv'
  BY <1>3 DEF PthreadFails
<1>4. ASSUME NEW c \in Client, CreateReturn(c) PROVE ControlInv'
  BY <1>4 DEF CreateReturn
<1>5. ASSUME NEW c \in Client, NEW p \in Thr, Join(c, p) PROVE ControlInv'
  BY <1>5 DEF Join, Reaped
<1>6. ASSUME NEW c \in Client, NEW p \in Thr, Detach(c, p) PROVE ControlInv'
  BY <1>6 DEF Detach
<1>7. ASSUME NEW p \in Thr, EntryAlloc(p) PROVE ControlInv'
  <2>1. /\ pc[p] = "entry"
        /\ \/ pc' = [pc EXCEPT ![p] = "insert"]
           \/ pc' = [pc EXCEPT ![p] = "give_up"]
        /\ UNCHANGED <<buckets, boot, calls, cur, born>>
    BY <1>7, Zenon DEF EntryAlloc
  <2>2. CASE pc' = [pc EXCEPT ![p] = "insert"]
    BY <2>1, <2>2
  <2>3. CASE pc' = [pc EXCEPT ![p] = "give_up"]
    BY <2>1, <2>3
  <2> QED BY <2>1, <2>2, <2>3
<1>8. ASSUME NEW p \in Thr, EntryInsert(p) PROVE ControlInv'
  BY <1>8 DEF EntryInsert
<1>9. ASSUME NEW p \in Thr, EntryInsertFails(p) PROVE ControlInv'
  BY <1>9 DEF EntryInsertFails
<1>10. ASSUME NEW p \in Thr, FreeBucket(p) PROVE ControlInv'
  BY <1>10 DEF FreeBucket
<1>11. ASSUME NEW p \in Thr, Refuse(p) PROVE ControlInv'
  BY <1>11 DEF Refuse, SetPromise
<1>12. ASSUME NEW p \in Thr, KeyCreate(p) PROVE ControlInv'
  BY <1>12 DEF KeyCreate
<1>13. ASSUME NEW p \in Thr, SetSpecific(p) PROVE ControlInv'
  BY <1>13 DEF SetSpecific
<1>14. ASSUME NEW p \in Thr, TakeSuspend(p) PROVE ControlInv'
  BY <1>14 DEF TakeSuspend
<1>15. ASSUME NEW p \in Thr, Announce(p) PROVE ControlInv'
  BY <1>15 DEF Announce, SetPromise
<1>16. ASSUME NEW p \in Thr, ClearPromise(p) PROVE ControlInv'
  BY <1>16 DEF ClearPromise
<1>17. ASSUME NEW p \in Thr, RunFunc(p) PROVE ControlInv'
  BY <1>17 DEF RunFunc
<1>18. ASSUME NEW p \in Thr, End(p) PROVE ControlInv'
  BY <1>18 DEF End
<1>19. ASSUME NEW p \in Thr, FinalDelete(p) PROVE ControlInv'
  BY <1>19 DEF FinalDelete
<1>20. ASSUME NEW p \in Thr, FinalFree(p) PROVE ControlInv'
  BY <1>20 DEF FinalFree
<1>21. ASSUME NEW p \in Thr, FinalKey(p) PROVE ControlInv'
  BY <1>21 DEF FinalKey
<1>22. ASSUME NEW p \in Thr, Vanish(p) PROVE ControlInv'
  BY <1>22 DEF Vanish, Reaped
<1>23. ASSUME NEW t \in Client \cup Thr, NEW p \in Thr, NameSearch(t, p)
       PROVE  ControlInv'
  BY <1>23 DEF NameSearch, Subject
<1>24. ASSUME NEW t \in Client \cup Thr, NameUpdate(t) PROVE ControlInv'
  BY <1>24 DEF NameUpdate
<1>25. CASE UNCHANGED vars
  BY <1>25 DEF vars
<1>26. QED
  BY <1>1, <1>2, <1>3, <1>4, <1>5, <1>6, <1>7, <1>8, <1>9, <1>10,
     <1>11, <1>12, <1>13, <1>14, <1>15, <1>16, <1>17, <1>18, <1>19,
     <1>20, <1>21, <1>22, <1>23, <1>24, <1>25
     DEF Next, ThrStep, Progress, Done

\* Allocation takes the head, free appends what was held.
LEMMA BucketStep ==
  ControlInv /\ ControlInv' /\ BucketInv /\ [Next \/ Done]_vars => BucketInv'
<1> SUFFICES ASSUME ControlInv, ControlInv', BucketInv, [Next \/ Done]_vars
             PROVE  BucketInv'
  OBVIOUS
<1> USE DEF BucketInv, Holder, Owns, LatePc, Goto, pools, keyvars, frame,
       thread, after
<1> DEFINE PcType == pc \in [Client \cup Thr -> ClientPc \cup ThrPc]
  /\ boot \in [Client \cup Thr -> Bucket \cup {None}]
<1>0. PcType /\ (\A p \in Thr : pc[p] # "pthread")
        /\ (\A c \in Client : pc[c] \notin Owns)
             /\ (\A p \in Thr : boot[p] \in Bucket \cup {None})
  BY DEF ControlInv, ClientPc, ThrPc
<1>1. ASSUME NEW c \in Client, CreateCall(c) PROVE BucketInv'
  <2>1. CASE Avail(buckets)
    <3>1. buckets \in Seq(Bucket) /\ buckets # <<>>
      BY <2>1 DEF Avail, ControlInv
    <3>2. /\ buckets' = Tail(buckets)
          /\ boot' = [boot EXCEPT ![c] = Head(buckets)]
          /\ pc' = [pc EXCEPT ![c] = "pthread"]
      BY <1>1, <2>1 DEF CreateCall
    <3>3. /\ IsInjective(Tail(buckets))
          /\ Head(buckets) \in Range(buckets)
          /\ Head(buckets) \notin Range(Tail(buckets))
          /\ \A x : x \in Range(Tail(buckets)) => x \in Range(buckets)
      BY <3>1, TailFacts
    <3> QED BY <1>0, <3>2, <3>3
  <2>2. CASE ~Avail(buckets)
    BY <1>1, <2>2 DEF CreateCall
  <2> QED BY <2>1, <2>2
<1>2. ASSUME NEW c \in Client, PthreadCreate(c) PROVE BucketInv'
  <2>1. PICK p \in Thr :
          /\ pc[p] = "none" /\ pc[c] = "pthread"
          /\ pc' = [pc EXCEPT ![c] = "wait", ![p] = "entry"]
          /\ boot' = [boot EXCEPT ![c] = None, ![p] = boot[c]]
          /\ UNCHANGED <<buckets, calls, cur>>
    BY <1>2 DEF PthreadCreate
  <2>2. c # p
    BY ThreadsAssumption
  <2> QED BY <1>0, <2>1, <2>2
<1>3. ASSUME NEW c \in Client, PthreadFails(c) PROVE BucketInv'
  BY <1>0, <1>3 DEF PthreadFails
<1>4. ASSUME NEW c \in Client, CreateReturn(c) PROVE BucketInv'
  BY <1>0, <1>4 DEF CreateReturn
<1>5. ASSUME NEW c \in Client, NEW p \in Thr, Join(c, p) PROVE BucketInv'
  BY <1>0, <1>5 DEF Join, Reaped
<1>6. ASSUME NEW c \in Client, NEW p \in Thr, Detach(c, p) PROVE BucketInv'
  BY <1>0, <1>6 DEF Detach
<1>7. ASSUME NEW p \in Thr, EntryAlloc(p) PROVE BucketInv'
  <2>1. /\ pc[p] = "entry"
        /\ \/ pc' = [pc EXCEPT ![p] = "insert"]
           \/ pc' = [pc EXCEPT ![p] = "give_up"]
        /\ UNCHANGED <<buckets, boot>>
    BY <1>7, Zenon DEF EntryAlloc
  <2> QED BY <1>0, <2>1
<1>8. ASSUME NEW p \in Thr, EntryInsert(p) PROVE BucketInv'
  BY <1>0, <1>8 DEF EntryInsert
<1>9. ASSUME NEW p \in Thr, EntryInsertFails(p) PROVE BucketInv'
  BY <1>0, <1>9 DEF EntryInsertFails
<1>10. ASSUME NEW p \in Thr, FreeBucket(p) PROVE BucketInv'
  <2>1. boot[p] \in Bucket /\ buckets \in Seq(Bucket) /\ pc[p] \in Owns
          /\ boot[p] \notin Range(buckets)
    BY <1>10 DEF FreeBucket, ControlInv
  <2>2. /\ IsInjective(Append(buckets, boot[p]))
        /\ \A y : (y \in Range(Append(buckets, boot[p])))
             <=> (y \in Range(buckets) \/ y = boot[p])
    BY <2>1, AppendFacts
  <2>3. /\ buckets' = Append(buckets, boot[p]) /\ boot' = boot
        /\ \E l \in {"suspend", "refuse"} : pc' = [pc EXCEPT ![p] = l]
    BY <1>10 DEF FreeBucket
  <2> QED BY <1>0, <2>1, <2>2, <2>3
<1>11. ASSUME NEW p \in Thr, Refuse(p) PROVE BucketInv'
  BY <1>0, <1>11 DEF Refuse, SetPromise
<1>12. ASSUME NEW p \in Thr, KeyCreate(p) PROVE BucketInv'
  BY <1>0, <1>12 DEF KeyCreate
<1>13. ASSUME NEW p \in Thr, SetSpecific(p) PROVE BucketInv'
  BY <1>0, <1>13 DEF SetSpecific
<1>14. ASSUME NEW p \in Thr, TakeSuspend(p) PROVE BucketInv'
  BY <1>0, <1>14 DEF TakeSuspend
<1>15. ASSUME NEW p \in Thr, Announce(p) PROVE BucketInv'
  BY <1>0, <1>15 DEF Announce, SetPromise
<1>16. ASSUME NEW p \in Thr, ClearPromise(p) PROVE BucketInv'
  BY <1>0, <1>16 DEF ClearPromise
<1>17. ASSUME NEW p \in Thr, RunFunc(p) PROVE BucketInv'
  BY <1>0, <1>17 DEF RunFunc
<1>18. ASSUME NEW p \in Thr, End(p) PROVE BucketInv'
  BY <1>0, <1>18 DEF End
<1>19. ASSUME NEW p \in Thr, FinalDelete(p) PROVE BucketInv'
  BY <1>0, <1>19 DEF FinalDelete
<1>20. ASSUME NEW p \in Thr, FinalFree(p) PROVE BucketInv'
  BY <1>0, <1>20 DEF FinalFree
<1>21. ASSUME NEW p \in Thr, FinalKey(p) PROVE BucketInv'
  BY <1>0, <1>21 DEF FinalKey
<1>22. ASSUME NEW p \in Thr, Vanish(p) PROVE BucketInv'
  BY <1>0, <1>22 DEF Vanish, Reaped
<1>23. ASSUME NEW t \in Client \cup Thr, NEW p \in Thr, NameSearch(t, p)
       PROVE  BucketInv'
  BY <1>0, <1>23 DEF NameSearch, Subject
<1>24. ASSUME NEW t \in Client \cup Thr, NameUpdate(t) PROVE BucketInv'
  BY <1>0, <1>24 DEF NameUpdate
<1>25. CASE UNCHANGED vars
  BY <1>0, <1>25 DEF vars
<1>26. QED
  BY <1>1, <1>2, <1>3, <1>4, <1>5, <1>6, <1>7, <1>8, <1>9, <1>10,
     <1>11, <1>12, <1>13, <1>14, <1>15, <1>16, <1>17, <1>18, <1>19,
     <1>20, <1>21, <1>22, <1>23, <1>24, <1>25
     DEF Next, ThrStep, Progress, Done
\* The other variables keep their types.
LEMMA RecordStep ==
  ControlInv /\ DataInv /\ RecordInv /\ [Next \/ Done]_vars => RecordInv'
<1> SUFFICES ASSUME ControlInv, DataInv, RecordInv, [Next \/ Done]_vars
             PROVE  RecordInv'
  OBVIOUS
<1> USE ThreadsAssumption DEF RecordInv, Goto, pools, keyvars, frame, thread,
       after, Call
<1>0. /\ \A c \in Client : pc[c] \in {"pthread", "wait"} => cur[c] \in Call
      /\ \A p \in Thr : pc[p] # "none" => born[p] \in Call
      /\ \A p \in Thr : pc[p] \in LatePc => boot[p] \in Bucket
      /\ \A b \in Bucket : tcb[b].prms \in Call \cup {None}
           /\ tcb[b].func \in Call \cup {None}
      /\ calls \in 0 .. MaxCalls
  BY DEF ControlInv, DataInv, Block
<1>1. ASSUME NEW c \in Client, CreateCall(c) PROVE RecordInv'
  BY <1>0, <1>1 DEF CreateCall
<1>2. ASSUME NEW c \in Client, PthreadCreate(c) PROVE RecordInv'
  BY <1>0, <1>2 DEF PthreadCreate
<1>3. ASSUME NEW c \in Client, PthreadFails(c) PROVE RecordInv'
  BY <1>0, <1>3 DEF PthreadFails
<1>4. ASSUME NEW c \in Client, CreateReturn(c) PROVE RecordInv'
  BY <1>0, <1>4 DEF CreateReturn
<1>5. ASSUME NEW c \in Client, NEW p \in Thr, Join(c, p) PROVE RecordInv'
  BY <1>0, <1>5 DEF Join, Reaped
<1>6. ASSUME NEW c \in Client, NEW p \in Thr, Detach(c, p) PROVE RecordInv'
  BY <1>0, <1>6 DEF Detach
<1>7. ASSUME NEW p \in Thr, EntryAlloc(p) PROVE RecordInv'
  <2>1. UNCHANGED <<keys, tcb_key, status, result, specific, owner, detached,
                    func, reused>>
    BY <1>7, Zenon DEF EntryAlloc
  <2> QED BY <2>1
<1>8. ASSUME NEW p \in Thr, EntryInsert(p) PROVE RecordInv'
  BY <1>0, <1>8 DEF EntryInsert
<1>9. ASSUME NEW p \in Thr, EntryInsertFails(p) PROVE RecordInv'
  BY <1>0, <1>9 DEF EntryInsertFails
<1>10. ASSUME NEW p \in Thr, FreeBucket(p) PROVE RecordInv'
  BY <1>0, <1>10 DEF FreeBucket
<1>11. ASSUME NEW p \in Thr, Refuse(p) PROVE RecordInv'
  BY <1>0, <1>11 DEF Refuse, SetPromise, LatePc
<1>12. ASSUME NEW p \in Thr, KeyCreate(p) PROVE RecordInv'
  <2>1. born[p] \in Call
    BY <1>0, <1>12 DEF KeyCreate
  <2>2. \/ keys' = keys \cup {born[p]} /\ tcb_key' = born[p]
        \/ UNCHANGED <<keys, tcb_key>>
    BY <1>12 DEF KeyCreate
  <2>3. UNCHANGED <<status, result, specific, owner, detached, func, reused>>
    BY <1>12 DEF KeyCreate
  <2> QED BY <2>1, <2>2, <2>3
<1>13. ASSUME NEW p \in Thr, SetSpecific(p) PROVE RecordInv'
  BY <1>0, <1>13 DEF SetSpecific
<1>14. ASSUME NEW p \in Thr, TakeSuspend(p) PROVE RecordInv'
  BY <1>0, <1>14 DEF TakeSuspend
<1>15. ASSUME NEW p \in Thr, Announce(p) PROVE RecordInv'
  BY <1>0, <1>15 DEF Announce, SetPromise, LatePc
<1>16. ASSUME NEW p \in Thr, ClearPromise(p) PROVE RecordInv'
  <2>1. UNCHANGED <<keys, tcb_key, status, result, specific, owner, detached,
                    func, reused>>
    BY <1>16, Zenon DEF ClearPromise
  <2> QED BY <2>1
<1>17. ASSUME NEW p \in Thr, RunFunc(p) PROVE RecordInv'
  BY <1>0, <1>17 DEF RunFunc, LatePc
<1>18. ASSUME NEW p \in Thr, End(p) PROVE RecordInv'
  BY <1>0, <1>18 DEF End
<1>19. ASSUME NEW p \in Thr, FinalDelete(p) PROVE RecordInv'
  BY <1>0, <1>19 DEF FinalDelete
<1>20. ASSUME NEW p \in Thr, FinalFree(p) PROVE RecordInv'
  BY <1>0, <1>20 DEF FinalFree
<1>21. ASSUME NEW p \in Thr, FinalKey(p) PROVE RecordInv'
  BY <1>0, <1>21 DEF FinalKey
<1>22. ASSUME NEW p \in Thr, Vanish(p) PROVE RecordInv'
  BY <1>0, <1>22 DEF Vanish, Reaped
<1>23. ASSUME NEW t \in Client \cup Thr, NEW p \in Thr, NameSearch(t, p)
       PROVE  RecordInv'
  BY <1>0, <1>23 DEF NameSearch, Subject
<1>24. ASSUME NEW t \in Client \cup Thr, NameUpdate(t) PROVE RecordInv'
  BY <1>0, <1>24 DEF NameUpdate
<1>25. CASE UNCHANGED vars
  BY <1>0, <1>25 DEF vars
<1>26. QED
  BY <1>1, <1>2, <1>3, <1>4, <1>5, <1>6, <1>7, <1>8, <1>9, <1>10,
     <1>11, <1>12, <1>13, <1>14, <1>15, <1>16, <1>17, <1>18, <1>19,
     <1>20, <1>21, <1>22, <1>23, <1>24, <1>25
     DEF Next, ThrStep, Progress, Done
\* A new call overwrites a free block only, and the list is entered before it is
\* left.
LEMMA DataStep ==
  ControlInv /\ ControlInv' /\ BucketInv /\ DataInv /\ [Next \/ Done]_vars
    => DataInv'
<1> SUFFICES ASSUME ControlInv, ControlInv', BucketInv, DataInv,
                    [Next \/ Done]_vars PROVE DataInv'
  OBVIOUS
<1> USE ThreadsAssumption DEF DataInv, Listed, Goto, pools, keyvars, frame,
       thread, after, Block, Naming, Entry
<1>0. /\ pc \in [Client \cup Thr -> ClientPc \cup ThrPc]
      /\ \A c \in Client : pc[c] \in ClientPc
      /\ \A p \in Thr : pc[p] \in ThrPc
      /\ \A p \in Thr : pc[p] \in Owns \cup LatePc => boot[p] \in Bucket
      /\ boot \in [Client \cup Thr -> Bucket \cup {None}]
      /\ \A c \in Client : pc[c] \in {"pthread", "wait"} => cur[c] \in Call
      /\ calls \in 0 .. MaxCalls
  BY DEF ControlInv, Holder, Call
<1> USE DEF ClientPc, ThrPc, Owns, LatePc
<1>1. ASSUME NEW c \in Client, CreateCall(c) PROVE DataInv'
  <2>1. CASE Avail(buckets)
    <3> DEFINE b == Head(buckets)
               new == [func |-> calls + 1, prms |-> calls + 1, suspend |-> None]
    <3>1. /\ pc' = [pc EXCEPT ![c] = "pthread"]
          /\ boot' = [boot EXCEPT ![c] = b]
          /\ tcb' = [tcb EXCEPT ![b] = new]
          /\ calls + 1 \in Call
          /\ UNCHANGED <<suspends, tcbs, copy, suspend>>
      BY <1>0, <1>1, <2>1 DEF CreateCall, Call
    <3>2. b \in Bucket /\ b \in Range(buckets)
      BY <2>1, TailFacts DEF Avail, ControlInv, BucketInv
    <3>3. \A p \in Thr : pc[p] = "insert" => boot[p] # b /\ boot[p] \in Bucket
      BY <1>0, <3>2 DEF BucketInv, Holder
    <3>4. new \in Block
      BY <3>1
    <3>5. tcb' \in [Bucket -> Block] /\ \A p \in Thr : pc[p] = "insert"
            => tcb'[boot[p]] = tcb[boot[p]]
      BY <3>1, <3>2, <3>3, <3>4
    <3> HIDE DEF b, new
    <3> QED BY <1>0, <3>1, <3>5
  <2>2. CASE ~Avail(buckets)
    BY <1>0, <1>1, <2>2 DEF CreateCall
  <2> QED BY <2>1, <2>2
<1>2. ASSUME NEW c \in Client, PthreadCreate(c) PROVE DataInv'
  BY <1>0, <1>2 DEF PthreadCreate
<1>3. ASSUME NEW c \in Client, PthreadFails(c) PROVE DataInv'
  BY <1>0, <1>3 DEF PthreadFails
<1>4. ASSUME NEW c \in Client, CreateReturn(c) PROVE DataInv'
  BY <1>0, <1>4 DEF CreateReturn
<1>5. ASSUME NEW c \in Client, NEW p \in Thr, Join(c, p) PROVE DataInv'
  BY <1>0, <1>5 DEF Join, Reaped
<1>6. ASSUME NEW c \in Client, NEW p \in Thr, Detach(c, p) PROVE DataInv'
  BY <1>0, <1>6 DEF Detach
<1>7. ASSUME NEW p \in Thr, EntryAlloc(p) PROVE DataInv'
  <2>1. CASE Avail(suspends)
    <3> DEFINE b == boot[p]
               new == [tcb[b] EXCEPT !.suspend = Head(suspends)]
    <3>1. /\ pc' = [pc EXCEPT ![p] = "insert"] /\ pc[p] = "entry"
          /\ suspends' = Tail(suspends)
          /\ UNCHANGED <<boot, tcbs, copy, suspend>>
      BY <1>7, <2>1, Zenon DEF EntryAlloc
    <3>2. tcb' = [tcb EXCEPT ![b] = new]
      BY <1>7, <2>1, Zenon DEF EntryAlloc
    <3>3. Head(suspends) \in Sem /\ Tail(suspends) \in Seq(Sem)
      BY <2>1 DEF Avail
    <3>4. b \in Bucket
      BY <1>0, <3>1
    <3>5. new \in Block /\ new.suspend = Head(suspends)
      BY <3>3, <3>4
    <3>6. tcb' \in [Bucket -> Block] /\ tcb'[b] = new
      BY <3>2, <3>4, <3>5
    <3>7. \A q \in Thr : pc[q] = "insert" => tcb'[boot[q]] = tcb[boot[q]]
      <4>1. \A q \in Thr : pc[q] = "insert" => boot[q] # b
        BY <3>1 DEF BucketInv, Holder
      <4> QED BY <1>0, <3>2, <4>1
    <3> HIDE DEF b, new
    <3> QED BY <1>0, <3>1, <3>3, <3>5, <3>6, <3>7 DEF b
  <2>2. CASE ~Avail(suspends)
    <3>1. /\ pc' = [pc EXCEPT ![p] = "give_up"] /\ pc[p] = "entry"
          /\ UNCHANGED <<boot, tcbs, copy, suspend, tcb, suspends>>
      BY <1>7, <2>2, Zenon DEF EntryAlloc
    <3> QED BY <1>0, <3>1
  <2> QED BY <2>1, <2>2
<1>8. ASSUME NEW p \in Thr, EntryInsert(p) PROVE DataInv'
  BY <1>0, <1>8 DEF EntryInsert
<1>9. ASSUME NEW p \in Thr, EntryInsertFails(p) PROVE DataInv'
  BY <1>0, <1>9 DEF EntryInsertFails
<1>10. ASSUME NEW p \in Thr, FreeBucket(p) PROVE DataInv'
  BY <1>0, <1>10 DEF FreeBucket
<1>11. ASSUME NEW p \in Thr, Refuse(p) PROVE DataInv'
  BY <1>0, <1>11 DEF Refuse, SetPromise
<1>12. ASSUME NEW p \in Thr, KeyCreate(p) PROVE DataInv'
  BY <1>0, <1>12 DEF KeyCreate
<1>13. ASSUME NEW p \in Thr, SetSpecific(p) PROVE DataInv'
  BY <1>0, <1>13 DEF SetSpecific
<1>14. ASSUME NEW p \in Thr, TakeSuspend(p) PROVE DataInv'
  BY <1>0, <1>14 DEF TakeSuspend
<1>15. ASSUME NEW p \in Thr, Announce(p) PROVE DataInv'
  BY <1>0, <1>15 DEF Announce, SetPromise
<1>16. ASSUME NEW p \in Thr, ClearPromise(p) PROVE DataInv'
  BY <1>0, <1>16 DEF ClearPromise
<1>17. ASSUME NEW p \in Thr, RunFunc(p) PROVE DataInv'
  BY <1>0, <1>17 DEF RunFunc
<1>18. ASSUME NEW p \in Thr, End(p) PROVE DataInv'
  BY <1>0, <1>18 DEF End
<1>19. ASSUME NEW p \in Thr, FinalDelete(p) PROVE DataInv'
  BY <1>0, <1>19 DEF FinalDelete
<1>20. ASSUME NEW p \in Thr, FinalFree(p) PROVE DataInv'
  BY <1>0, <1>20 DEF FinalFree
<1>21. ASSUME NEW p \in Thr, FinalKey(p) PROVE DataInv'
  BY <1>0, <1>21 DEF FinalKey
<1>22. ASSUME NEW p \in Thr, Vanish(p) PROVE DataInv'
  BY <1>0, <1>22 DEF Vanish, Reaped
<1>23. ASSUME NEW t \in Client \cup Thr, NEW p \in Thr, NameSearch(t, p)
       PROVE  DataInv'
  BY <1>0, <1>23 DEF NameSearch, Subject
<1>24. ASSUME NEW t \in Client \cup Thr, NameUpdate(t) PROVE DataInv'
  BY <1>0, <1>24 DEF NameUpdate
<1>25. CASE UNCHANGED vars
  BY <1>0, <1>25 DEF vars
<1>26. QED
  BY <1>1, <1>2, <1>3, <1>4, <1>5, <1>6, <1>7, <1>8, <1>9, <1>10,
     <1>11, <1>12, <1>13, <1>14, <1>15, <1>16, <1>17, <1>18, <1>19,
     <1>20, <1>21, <1>22, <1>23, <1>24, <1>25
     DEF Next, ThrStep, Progress, Done
\* A call, a thread and its owner stay together.
LEMMA CallStep ==
  ControlInv /\ ControlInv' /\ RecordInv /\ CallInv /\ [Next \/ Done]_vars
    => CallInv'
<1> SUFFICES ASSUME ControlInv, ControlInv', RecordInv, CallInv,
                    [Next \/ Done]_vars PROVE CallInv'
  OBVIOUS
<1> USE ThreadsAssumption DEF CallInv, Gone, Goto, pools, keyvars, frame,
       thread, after, Call
<1>0. /\ pc \in [Client \cup Thr -> ClientPc \cup ThrPc]
      /\ \A c \in Client : pc[c] \in ClientPc
      /\ \A p \in Thr : pc[p] \in ThrPc
      /\ \A c \in Client :
           IF pc[c] \in {"pthread", "wait"} THEN cur[c] \in 1 .. calls
                                            ELSE cur[c] = None
      /\ \A p \in Thr :
           IF pc[p] = "none" THEN born[p] = None ELSE born[p] \in 1 .. calls
      /\ cur \in [Client -> Call \cup {None}]
      /\ born \in [Thr -> Call \cup {None}]
      /\ calls \in 0 .. MaxCalls
      /\ owner \in [Thr -> Client \cup {None}] /\ detached \subseteq Thr
      /\ func \in [Thr -> Call \cup {None}]
  BY DEF ControlInv, RecordInv
<1> USE DEF ClientPc, ThrPc, Owns, LatePc
<1>1. ASSUME NEW c \in Client, CreateCall(c) PROVE CallInv'
  <2>1. CASE Avail(buckets)
    <3>1. /\ pc' = [pc EXCEPT ![c] = "pthread"]
          /\ cur' = [cur EXCEPT ![c] = calls + 1]
          /\ calls' = calls + 1 /\ calls < MaxCalls
          /\ UNCHANGED <<born, owner, detached, func>>
      BY <1>1, <2>1 DEF CreateCall
    <3>2. /\ \A d \in Client : cur[d] # calls + 1
          /\ \A p \in Thr : born[p] # calls + 1
      BY <1>0
    <3> QED BY <1>0, <3>1, <3>2
  <2>2. CASE ~Avail(buckets)
    BY <1>0, <1>1, <2>2 DEF CreateCall
  <2> QED BY <2>1, <2>2
<1>2. ASSUME NEW c \in Client, PthreadCreate(c) PROVE CallInv'
  BY <1>0, <1>2 DEF PthreadCreate
<1>3. ASSUME NEW c \in Client, PthreadFails(c) PROVE CallInv'
  BY <1>0, <1>3 DEF PthreadFails
<1>4. ASSUME NEW c \in Client, CreateReturn(c) PROVE CallInv'
  BY <1>0, <1>4 DEF CreateReturn
<1>5. ASSUME NEW c \in Client, NEW p \in Thr, Join(c, p) PROVE CallInv'
  BY <1>0, <1>5 DEF Join, Reaped
<1>6. ASSUME NEW c \in Client, NEW p \in Thr, Detach(c, p) PROVE CallInv'
  BY <1>0, <1>6 DEF Detach
<1>7. ASSUME NEW p \in Thr, EntryAlloc(p) PROVE CallInv'
  <2>1. /\ pc[p] = "entry"
        /\ \/ pc' = [pc EXCEPT ![p] = "insert"]
           \/ pc' = [pc EXCEPT ![p] = "give_up"]
        /\ UNCHANGED <<calls, cur, born, owner, detached, func>>
    BY <1>7, Zenon DEF EntryAlloc
  <2> QED BY <1>0, <2>1
<1>8. ASSUME NEW p \in Thr, EntryInsert(p) PROVE CallInv'
  BY <1>0, <1>8 DEF EntryInsert
<1>9. ASSUME NEW p \in Thr, EntryInsertFails(p) PROVE CallInv'
  BY <1>0, <1>9 DEF EntryInsertFails
<1>10. ASSUME NEW p \in Thr, FreeBucket(p) PROVE CallInv'
  BY <1>0, <1>10 DEF FreeBucket
<1>11. ASSUME NEW p \in Thr, Refuse(p) PROVE CallInv'
  BY <1>0, <1>11 DEF Refuse, SetPromise
<1>12. ASSUME NEW p \in Thr, KeyCreate(p) PROVE CallInv'
  BY <1>0, <1>12 DEF KeyCreate
<1>13. ASSUME NEW p \in Thr, SetSpecific(p) PROVE CallInv'
  BY <1>0, <1>13 DEF SetSpecific
<1>14. ASSUME NEW p \in Thr, TakeSuspend(p) PROVE CallInv'
  BY <1>0, <1>14 DEF TakeSuspend
<1>15. ASSUME NEW p \in Thr, Announce(p) PROVE CallInv'
  BY <1>0, <1>15 DEF Announce, SetPromise
<1>16. ASSUME NEW p \in Thr, ClearPromise(p) PROVE CallInv'
  <2>1. /\ pc[p] = "clear" /\ pc' = [pc EXCEPT ![p] = "func"]
        /\ UNCHANGED <<calls, cur, born, owner, detached, func>>
    BY <1>16, Zenon DEF ClearPromise
  <2> QED BY <1>0, <2>1
<1>17. ASSUME NEW p \in Thr, RunFunc(p) PROVE CallInv'
  BY <1>0, <1>17 DEF RunFunc
<1>18. ASSUME NEW p \in Thr, End(p) PROVE CallInv'
  BY <1>0, <1>18 DEF End
<1>19. ASSUME NEW p \in Thr, FinalDelete(p) PROVE CallInv'
  BY <1>0, <1>19 DEF FinalDelete
<1>20. ASSUME NEW p \in Thr, FinalFree(p) PROVE CallInv'
  BY <1>0, <1>20 DEF FinalFree
<1>21. ASSUME NEW p \in Thr, FinalKey(p) PROVE CallInv'
  BY <1>0, <1>21 DEF FinalKey
<1>22. ASSUME NEW p \in Thr, Vanish(p) PROVE CallInv'
  BY <1>0, <1>22 DEF Vanish, Reaped
<1>23. ASSUME NEW t \in Client \cup Thr, NEW p \in Thr, NameSearch(t, p)
       PROVE  CallInv'
  BY <1>0, <1>23 DEF NameSearch, Subject
<1>24. ASSUME NEW t \in Client \cup Thr, NameUpdate(t) PROVE CallInv'
  BY <1>0, <1>24 DEF NameUpdate
<1>25. CASE UNCHANGED vars
  BY <1>0, <1>25 DEF vars
<1>26. QED
  BY <1>1, <1>2, <1>3, <1>4, <1>5, <1>6, <1>7, <1>8, <1>9, <1>10,
     <1>11, <1>12, <1>13, <1>14, <1>15, <1>16, <1>17, <1>18, <1>19,
     <1>20, <1>21, <1>22, <1>23, <1>24, <1>25
     DEF Next, ThrStep, Progress, Done
\* Entries do not change under thrd_set_name but for the name.
LEMMA NameStep ==
  ControlInv /\ RecordInv /\ DataInv /\ CallInv /\ NameInv /\ [Next
    \/ Done]_vars => NameInv'
<1> SUFFICES ASSUME ControlInv, RecordInv, DataInv, CallInv, NameInv,
                    [Next \/ Done]_vars PROVE NameInv'
  OBVIOUS
<1> USE ThreadsAssumption DEF NameInv, Gone, Goto, pools, keyvars, frame,
       thread, after
<1>0. /\ pc \in [Client \cup Thr -> ClientPc \cup ThrPc]
      /\ \A c \in Client : pc[c] \in ClientPc
      /\ \A p \in Thr : pc[p] \in ThrPc
      /\ \A p \in Thr : pc[p] = "none" => born[p] = None
      /\ \A p \in Thr : owner[p] # None \/ p \in detached =>
           born[p] # None /\ \A c \in Client : cur[c] # born[p]
      /\ \A p \in detached : owner[p] = None
      /\ owner \in [Thr -> Client \cup {None}]
      /\ tcbs \in [Thr -> Entry \cup {None}]
      /\ copy \in [Client \cup Thr -> Entry \cup {None} \cup Naming]
      /\ \A p \in Thr : pc[p] \in Listed => tcbs[p] # None
      /\ \A t \in Client \cup Thr : pc[t] = "name" => copy[t] \in Naming
  BY DEF ControlInv, RecordInv, DataInv, CallInv
<1> USE DEF ClientPc, ThrPc, Owns, LatePc, Listed, Naming, Entry
<1>1. ASSUME NEW c \in Client, CreateCall(c) PROVE NameInv'
  BY <1>0, <1>1 DEF CreateCall
<1>2. ASSUME NEW c \in Client, PthreadCreate(c) PROVE NameInv'
  BY <1>0, <1>2 DEF PthreadCreate
<1>3. ASSUME NEW c \in Client, PthreadFails(c) PROVE NameInv'
  BY <1>0, <1>3 DEF PthreadFails
<1>4. ASSUME NEW c \in Client, CreateReturn(c) PROVE NameInv'
  BY <1>0, <1>4 DEF CreateReturn
<1>5. ASSUME NEW c \in Client, NEW p \in Thr, Join(c, p) PROVE NameInv'
  BY <1>0, <1>5 DEF Join, Reaped
<1>6. ASSUME NEW c \in Client, NEW p \in Thr, Detach(c, p) PROVE NameInv'
  BY <1>0, <1>6 DEF Detach
<1>7. ASSUME NEW p \in Thr, EntryAlloc(p) PROVE NameInv'
  BY <1>0, <1>7 DEF EntryAlloc
<1>8. ASSUME NEW p \in Thr, EntryInsert(p) PROVE NameInv'
  BY <1>0, <1>8 DEF EntryInsert
<1>9. ASSUME NEW p \in Thr, EntryInsertFails(p) PROVE NameInv'
  BY <1>0, <1>9 DEF EntryInsertFails
<1>10. ASSUME NEW p \in Thr, FreeBucket(p) PROVE NameInv'
  BY <1>0, <1>10 DEF FreeBucket
<1>11. ASSUME NEW p \in Thr, Refuse(p) PROVE NameInv'
  BY <1>0, <1>11 DEF Refuse, SetPromise
<1>12. ASSUME NEW p \in Thr, KeyCreate(p) PROVE NameInv'
  BY <1>0, <1>12 DEF KeyCreate
<1>13. ASSUME NEW p \in Thr, SetSpecific(p) PROVE NameInv'
  BY <1>0, <1>13 DEF SetSpecific
<1>14. ASSUME NEW p \in Thr, TakeSuspend(p) PROVE NameInv'
  BY <1>0, <1>14 DEF TakeSuspend
<1>15. ASSUME NEW p \in Thr, Announce(p) PROVE NameInv'
  BY <1>0, <1>15 DEF Announce, SetPromise
<1>16. ASSUME NEW p \in Thr, ClearPromise(p) PROVE NameInv'
  BY <1>0, <1>16 DEF ClearPromise
<1>17. ASSUME NEW p \in Thr, RunFunc(p) PROVE NameInv'
  BY <1>0, <1>17 DEF RunFunc
<1>18. ASSUME NEW p \in Thr, End(p) PROVE NameInv'
  BY <1>0, <1>18 DEF End
<1>19. ASSUME NEW p \in Thr, FinalDelete(p) PROVE NameInv'
  BY <1>0, <1>19 DEF FinalDelete
<1>20. ASSUME NEW p \in Thr, FinalFree(p) PROVE NameInv'
  BY <1>0, <1>20 DEF FinalFree
<1>21. ASSUME NEW p \in Thr, FinalKey(p) PROVE NameInv'
  BY <1>0, <1>21 DEF FinalKey
<1>22. ASSUME NEW p \in Thr, Vanish(p) PROVE NameInv'
  BY <1>0, <1>22 DEF Vanish, Reaped
<1>23. ASSUME NEW t \in Client \cup Thr, NEW p \in Thr, NameSearch(t, p)
       PROVE  NameInv'
  BY <1>0, <1>23 DEF NameSearch, Subject
<1>24. ASSUME NEW t \in Client \cup Thr, NameUpdate(t) PROVE NameInv'
  BY <1>0, <1>24 DEF NameUpdate
<1>25. CASE UNCHANGED vars
  BY <1>0, <1>25 DEF vars
<1>26. QED
  BY <1>1, <1>2, <1>3, <1>4, <1>5, <1>6, <1>7, <1>8, <1>9, <1>10,
     <1>11, <1>12, <1>13, <1>14, <1>15, <1>16, <1>17, <1>18, <1>19,
     <1>20, <1>21, <1>22, <1>23, <1>24, <1>25
     DEF Next, ThrStep, Progress, Done
\* Semaphores move between pool, hand and list.
LEMMA SemStep ==
  ControlInv /\ BucketInv /\ DataInv /\ DataInv' /\ NameInv /\ SemInv
    /\ [Next \/ Done]_vars => SemInv'
<1> SUFFICES ASSUME ControlInv, BucketInv, DataInv, DataInv', NameInv, SemInv,
                    [Next \/ Done]_vars
             PROVE SemInv'
  OBVIOUS
<1> USE DEF SemInv, Goto, pools, keyvars, frame, thread, after
<1>0. /\ pc \in [Client \cup Thr -> ClientPc \cup ThrPc]
      /\ \A c \in Client : pc[c] \in ClientPc
      /\ \A p \in Thr : pc[p] \in ThrPc
      /\ boot \in [Client \cup Thr -> Bucket \cup {None}]
      /\ copy \in [Client \cup Thr -> Entry \cup {None} \cup Naming]
      /\ tcbs \in [Thr -> Entry \cup {None}]
      /\ tcb \in [Bucket -> Block]
      /\ suspends \in Seq(Sem)
      /\ \A p \in Thr : pc[p] \in Owns => boot[p] \in Bucket
      /\ Client \cap Thr = {}
  BY ThreadsAssumption DEF ControlInv, DataInv, Holder
<1> USE DEF ClientPc, ThrPc, Owns, LatePc
<1>1. ASSUME NEW c \in Client, CreateCall(c) PROVE SemInv'
  <2>1. CASE Avail(buckets)
    <3>1. /\ pc' = [pc EXCEPT ![c] = "pthread"] /\ pc[c] = "idle"
          /\ boot' = [boot EXCEPT ![c] = Head(buckets)]
          /\ tcb' = [tcb EXCEPT ![Head(buckets)]
               = [func |-> calls', prms |-> calls', suspend |-> None]]
          /\ UNCHANGED <<suspends, tcbs, copy>>
      BY <1>1, <2>1 DEF CreateCall
    <3>2. Head(buckets) \in Bucket /\ Head(buckets) \in Range(buckets)
      BY <2>1, TailFacts DEF Avail, ControlInv, BucketInv
    <3>3. \A p \in Thr : pc[p] = "insert" => boot[p] # Head(buckets)
      BY <1>0, <3>2 DEF BucketInv, Holder
    <3>4. \A p \in Thr : (InHand(p))' <=> InHand(p)
      BY <1>0, <3>1 DEF InHand
    <3>5. \A p \in Thr : InHand(p) => Hand(p)' = Hand(p)
      BY <1>0, <3>1, <3>2, <3>3 DEF InHand, Hand
    <3> QED BY <3>1, <3>4, <3>5
  <2>2. CASE ~Avail(buckets)
    <3>1. UNCHANGED <<pc, boot, tcb, suspends, tcbs, copy>>
      BY <1>1, <2>2 DEF CreateCall
    <3> QED BY <3>1 DEF InHand, Hand
  <2> QED BY <2>1, <2>2
<1>2. ASSUME NEW c \in Client, PthreadCreate(c) PROVE SemInv'
  <2>1. \A q \in Thr : (InHand(q))' <=> InHand(q)
    BY <1>0, <1>2 DEF PthreadCreate, InHand
  <2>2. \A q \in Thr : InHand(q) => Hand(q)' = Hand(q)
    BY <1>0, <2>1, <1>2 DEF PthreadCreate, Hand, InHand
  <2>3. UNCHANGED <<suspends, tcbs>>
    BY <1>2 DEF PthreadCreate
  <2> QED BY <1>0, <2>1, <2>2, <2>3
<1>3. ASSUME NEW c \in Client, PthreadFails(c) PROVE SemInv'
  <2>1. \A q \in Thr : (InHand(q))' <=> InHand(q)
    BY <1>0, <1>3 DEF PthreadFails, InHand
  <2>2. \A q \in Thr : InHand(q) => Hand(q)' = Hand(q)
    BY <1>0, <2>1, <1>3 DEF PthreadFails, Hand, InHand
  <2>3. UNCHANGED <<suspends, tcbs>>
    BY <1>3 DEF PthreadFails
  <2> QED BY <1>0, <2>1, <2>2, <2>3
<1>4. ASSUME NEW c \in Client, CreateReturn(c) PROVE SemInv'
  <2>1. \A q \in Thr : (InHand(q))' <=> InHand(q)
    BY <1>0, <1>4 DEF CreateReturn, InHand
  <2>2. \A q \in Thr : InHand(q) => Hand(q)' = Hand(q)
    BY <1>0, <2>1, <1>4 DEF CreateReturn, Hand, InHand
  <2>3. UNCHANGED <<suspends, tcbs>>
    BY <1>4 DEF CreateReturn
  <2> QED BY <1>0, <2>1, <2>2, <2>3
<1>5. ASSUME NEW c \in Client, NEW p \in Thr, Join(c, p) PROVE SemInv'
  <2>1. \A q \in Thr : (InHand(q))' <=> InHand(q)
    BY <1>0, <1>5 DEF Join, Reaped, InHand
  <2>2. \A q \in Thr : InHand(q) => Hand(q)' = Hand(q)
    BY <1>0, <2>1, <1>5 DEF Join, Reaped, Hand, InHand
  <2>3. UNCHANGED <<suspends, tcbs>>
    BY <1>5 DEF Join, Reaped
  <2> QED BY <1>0, <2>1, <2>2, <2>3
<1>6. ASSUME NEW c \in Client, NEW p \in Thr, Detach(c, p) PROVE SemInv'
  <2>1. \A q \in Thr : (InHand(q))' <=> InHand(q)
    BY <1>0, <1>6 DEF Detach, InHand
  <2>2. \A q \in Thr : InHand(q) => Hand(q)' = Hand(q)
    BY <1>0, <2>1, <1>6 DEF Detach, Hand, InHand
  <2>3. UNCHANGED <<suspends, tcbs>>
    BY <1>6 DEF Detach
  <2> QED BY <1>0, <2>1, <2>2, <2>3
<1>7. ASSUME NEW p \in Thr, EntryAlloc(p) PROVE SemInv'
  <2>1. CASE Avail(suspends)
    <3>1. /\ pc' = [pc EXCEPT ![p] = "insert"] /\ pc[p] = "entry"
          /\ suspends' = Tail(suspends)
          /\ UNCHANGED <<boot, tcbs, copy>>
      BY <1>7, <2>1, Zenon DEF EntryAlloc
    <3>2. tcb' = [tcb EXCEPT ![boot[p]]
            = [tcb[boot[p]] EXCEPT !.suspend = Head(suspends)]]
      BY <1>7, <2>1, Zenon DEF EntryAlloc
    <3>3. /\ IsInjective(Tail(suspends))
          /\ Head(suspends) \in Range(suspends)
          /\ Head(suspends) \notin Range(Tail(suspends))
          /\ \A x : x \in Range(Tail(suspends)) => x \in Range(suspends)
      BY <1>0, <2>1, TailFacts DEF Avail
    <3>4. boot[p] \in Bucket
      BY <1>0, <3>1
    <3>5. (Hand(p))' = Head(suspends)
      BY <1>0, <3>1, <3>2, <3>4 DEF Hand, Block
    <3>6. \A q \in Thr \ {p} : (InHand(q))' <=> InHand(q)
      BY <1>0, <3>1 DEF InHand
    <3>7. \A q \in Thr \ {p} : InHand(q) => (Hand(q))' = Hand(q)
      <4>1. \A q \in Thr \ {p} : pc[q] = "insert" => boot[q] # boot[p]
        BY <3>1 DEF BucketInv, Holder
      <4> QED BY <1>0, <3>1, <3>2, <4>1 DEF InHand, Hand
    <3> QED BY <3>1, <3>3, <3>5, <3>6, <3>7
  <2>2. CASE ~Avail(suspends)
    <3>1. /\ pc' = [pc EXCEPT ![p] = "give_up"] /\ pc[p] = "entry"
          /\ UNCHANGED <<boot, tcbs, copy, tcb, suspends>>
      BY <1>7, <2>2, Zenon DEF EntryAlloc
    <3>2. \A q \in Thr : (InHand(q))' <=> InHand(q)
      BY <1>0, <3>1 DEF InHand
    <3>3. \A q \in Thr : InHand(q) => (Hand(q))' = Hand(q)
      BY <1>0, <3>1 DEF InHand, Hand
    <3> QED BY <3>1, <3>2, <3>3
  <2> QED BY <2>1, <2>2
<1>8. ASSUME NEW p \in Thr, EntryInsert(p) PROVE SemInv'
  <2>1. /\ pc[p] = "insert" /\ pc' = [pc EXCEPT ![p] = "key"]
        /\ tcbs[p] = None
        /\ tcbs' = [tcbs EXCEPT ![p] = [suspend |-> Hand(p), name |-> None]]
        /\ UNCHANGED <<boot, copy, tcb, suspends>>
    BY <1>8 DEF EntryInsert, Hand
  <2>2. tcbs'[p].suspend = Hand(p) /\ \A q \in Thr \ {p} : tcbs'[q] = tcbs[q]
    BY <1>0, <2>1
  <2>3. \A q \in Thr : (InHand(q))' <=> (InHand(q) /\ q # p)
    BY <1>0, <2>1 DEF InHand
  <2>4. \A q \in Thr \ {p} : (Hand(q))' = Hand(q)
    BY <1>0, <2>1 DEF Hand
  <2>5. InHand(p)
    BY <2>1 DEF InHand
  <2> QED BY <2>1, <2>2, <2>3, <2>4, <2>5
<1>9. ASSUME NEW p \in Thr, EntryInsertFails(p) PROVE SemInv'
  <2>1. /\ pc[p] = "insert" /\ pc' = [pc EXCEPT ![p] = "give_up"]
        /\ UNCHANGED <<boot, copy, tcb, suspends, tcbs>>
    BY <1>9 DEF EntryInsertFails
  <2>2. \A q \in Thr : (InHand(q))' <=> (InHand(q) /\ q # p)
    BY <1>0, <2>1 DEF InHand
  <2>3. \A q \in Thr \ {p} : (Hand(q))' = Hand(q)
    BY <1>0, <2>1 DEF Hand
  <2> QED BY <2>1, <2>2, <2>3
<1>10. ASSUME NEW p \in Thr, FreeBucket(p) PROVE SemInv'
  <2>1. \A q \in Thr : (InHand(q))' <=> InHand(q)
    BY <1>0, <1>10 DEF FreeBucket, InHand
  <2>2. \A q \in Thr : InHand(q) => Hand(q)' = Hand(q)
    BY <1>0, <2>1, <1>10 DEF FreeBucket, Hand, InHand
  <2>3. UNCHANGED <<suspends, tcbs>>
    BY <1>10 DEF FreeBucket
  <2> QED BY <1>0, <2>1, <2>2, <2>3
<1>11. ASSUME NEW p \in Thr, Refuse(p) PROVE SemInv'
  <2>1. \A q \in Thr : (InHand(q))' <=> InHand(q)
    BY <1>0, <1>11 DEF Refuse, SetPromise, InHand
  <2>2. \A q \in Thr : InHand(q) => Hand(q)' = Hand(q)
    BY <1>0, <2>1, <1>11 DEF Refuse, SetPromise, Hand, InHand
  <2>3. UNCHANGED <<suspends, tcbs>>
    BY <1>11 DEF Refuse, SetPromise
  <2> QED BY <1>0, <2>1, <2>2, <2>3
<1>12. ASSUME NEW p \in Thr, KeyCreate(p) PROVE SemInv'
  <2>1. \A q \in Thr : (InHand(q))' <=> InHand(q)
    BY <1>0, <1>12 DEF KeyCreate, InHand
  <2>2. \A q \in Thr : InHand(q) => Hand(q)' = Hand(q)
    BY <1>0, <2>1, <1>12 DEF KeyCreate, Hand, InHand
  <2>3. UNCHANGED <<suspends, tcbs>>
    BY <1>12 DEF KeyCreate
  <2> QED BY <1>0, <2>1, <2>2, <2>3
<1>13. ASSUME NEW p \in Thr, SetSpecific(p) PROVE SemInv'
  <2>1. \A q \in Thr : (InHand(q))' <=> InHand(q)
    BY <1>0, <1>13 DEF SetSpecific, InHand
  <2>2. \A q \in Thr : InHand(q) => Hand(q)' = Hand(q)
    BY <1>0, <2>1, <1>13 DEF SetSpecific, Hand, InHand
  <2>3. UNCHANGED <<suspends, tcbs>>
    BY <1>13 DEF SetSpecific
  <2> QED BY <1>0, <2>1, <2>2, <2>3
<1>14. ASSUME NEW p \in Thr, TakeSuspend(p) PROVE SemInv'
  <2>1. \A q \in Thr : (InHand(q))' <=> InHand(q)
    BY <1>0, <1>14 DEF TakeSuspend, InHand
  <2>2. \A q \in Thr : InHand(q) => Hand(q)' = Hand(q)
    BY <1>0, <2>1, <1>14 DEF TakeSuspend, Hand, InHand
  <2>3. UNCHANGED <<suspends, tcbs>>
    BY <1>14 DEF TakeSuspend
  <2> QED BY <1>0, <2>1, <2>2, <2>3
<1>15. ASSUME NEW p \in Thr, Announce(p) PROVE SemInv'
  <2>1. \A q \in Thr : (InHand(q))' <=> InHand(q)
    BY <1>0, <1>15 DEF Announce, SetPromise, InHand
  <2>2. \A q \in Thr : InHand(q) => Hand(q)' = Hand(q)
    BY <1>0, <2>1, <1>15 DEF Announce, SetPromise, Hand, InHand
  <2>3. UNCHANGED <<suspends, tcbs>>
    BY <1>15 DEF Announce, SetPromise
  <2> QED BY <1>0, <2>1, <2>2, <2>3
<1>16. ASSUME NEW p \in Thr, ClearPromise(p) PROVE SemInv'
  <2>1. /\ pc[p] = "clear" /\ pc' = [pc EXCEPT ![p] = "func"]
        /\ UNCHANGED <<boot, copy, suspends, tcbs>>
    BY <1>16, Zenon DEF ClearPromise
  <2>2. tcb' = [tcb EXCEPT ![boot[p]] = [tcb[boot[p]] EXCEPT !.prms = None]]
    BY <1>16, Zenon DEF ClearPromise
  <2>3. \A b \in Bucket : tcb'[b].suspend = tcb[b].suspend
    BY <1>0, <2>2 DEF Block
  <2>4. \A q \in Thr : (InHand(q))' <=> InHand(q)
    BY <1>0, <2>1 DEF InHand
  <2>5. \A q \in Thr : InHand(q) => (Hand(q))' = Hand(q)
    BY <1>0, <2>1, <2>3 DEF InHand, Hand
  <2> QED BY <2>1, <2>4, <2>5
<1>17. ASSUME NEW p \in Thr, RunFunc(p) PROVE SemInv'
  <2>1. \A q \in Thr : (InHand(q))' <=> InHand(q)
    BY <1>0, <1>17 DEF RunFunc, InHand
  <2>2. \A q \in Thr : InHand(q) => Hand(q)' = Hand(q)
    BY <1>0, <2>1, <1>17 DEF RunFunc, Hand, InHand
  <2>3. UNCHANGED <<suspends, tcbs>>
    BY <1>17 DEF RunFunc
  <2> QED BY <1>0, <2>1, <2>2, <2>3
<1>18. ASSUME NEW p \in Thr, End(p) PROVE SemInv'
  <2>1. \A q \in Thr : (InHand(q))' <=> InHand(q)
    BY <1>0, <1>18 DEF End, InHand
  <2>2. \A q \in Thr : InHand(q) => Hand(q)' = Hand(q)
    BY <1>0, <2>1, <1>18 DEF End, Hand, InHand
  <2>3. UNCHANGED <<suspends, tcbs>>
    BY <1>18 DEF End
  <2> QED BY <1>0, <2>1, <2>2, <2>3
<1>19. ASSUME NEW p \in Thr, FinalDelete(p) PROVE SemInv'
  <2>1. /\ pc[p] = "delete" /\ pc' = [pc EXCEPT ![p] = "release"]
        /\ copy' = [copy EXCEPT ![p] = tcbs[p]]
        /\ tcbs' = [tcbs EXCEPT ![p] = None]
        /\ UNCHANGED <<boot, tcb, suspends>>
    BY <1>19 DEF FinalDelete
  <2>2. tcbs[p] # None
    BY <2>1 DEF DataInv, Listed
  <2>3. (Hand(p))' = tcbs[p].suspend /\ ~InHand(p)
    BY <1>0, <2>1 DEF Hand, InHand
  <2>4. \A q \in Thr \ {p} : ((InHand(q))'
          <=> InHand(q)) /\ (Hand(q))' = Hand(q) /\ tcbs'[q] = tcbs[q]
    BY <1>0, <2>1 DEF InHand, Hand
  <2>5. tcbs'[p] = None
    BY <1>0, <2>1
  <2> QED BY <2>1, <2>2, <2>3, <2>4, <2>5
<1>20. ASSUME NEW p \in Thr, FinalFree(p) PROVE SemInv'
  <2>1. /\ pc[p] = "release" /\ pc' = [pc EXCEPT ![p] = "unkey"]
        /\ suspends' = Append(suspends, Hand(p))
        /\ copy' = [copy EXCEPT ![p] = None]
        /\ UNCHANGED <<boot, tcb, tcbs>>
    BY <1>20 DEF FinalFree, Hand
  <2>2. Hand(p) \in Sem /\ InHand(p)
    BY <2>1 DEF DataInv, Hand, Entry, InHand
  <2>3. /\ \A y : (y \in Range(Append(suspends, Hand(p))))
             <=> (y \in Range(suspends) \/ y = Hand(p))
        /\ IsInjective(suspends) /\ Hand(p) \notin Range(suspends)
             => IsInjective(Append(suspends, Hand(p)))
    BY <1>0, <2>2, AppendFacts
  <2>4. \A q \in Thr : (InHand(q))' <=> (InHand(q) /\ q # p)
    BY <1>0, <2>1 DEF InHand
  <2>5. \A q \in Thr \ {p} : (Hand(q))' = Hand(q)
    BY <1>0, <2>1 DEF Hand
  <2> QED BY <2>1, <2>2, <2>3, <2>4, <2>5
<1>21. ASSUME NEW p \in Thr, FinalKey(p) PROVE SemInv'
  <2>1. \A q \in Thr : (InHand(q))' <=> InHand(q)
    BY <1>0, <1>21 DEF FinalKey, InHand
  <2>2. \A q \in Thr : InHand(q) => Hand(q)' = Hand(q)
    BY <1>0, <2>1, <1>21 DEF FinalKey, Hand, InHand
  <2>3. UNCHANGED <<suspends, tcbs>>
    BY <1>21 DEF FinalKey
  <2> QED BY <1>0, <2>1, <2>2, <2>3
<1>22. ASSUME NEW p \in Thr, Vanish(p) PROVE SemInv'
  <2>1. \A q \in Thr : (InHand(q))' <=> InHand(q)
    BY <1>0, <1>22 DEF Vanish, Reaped, InHand
  <2>2. \A q \in Thr : InHand(q) => Hand(q)' = Hand(q)
    BY <1>0, <2>1, <1>22 DEF Vanish, Reaped, Hand, InHand
  <2>3. UNCHANGED <<suspends, tcbs>>
    BY <1>22 DEF Vanish, Reaped
  <2> QED BY <1>0, <2>1, <2>2, <2>3
<1>23. ASSUME NEW t \in Client \cup Thr, NEW p \in Thr, NameSearch(t, p)
       PROVE  SemInv'
  <2>1. \A q \in Thr : (InHand(q))' <=> InHand(q)
    BY <1>0, <1>23 DEF NameSearch, Subject, InHand
  <2>2. \A q \in Thr : InHand(q) => Hand(q)' = Hand(q)
    BY <1>0, <2>1, <1>23 DEF NameSearch, Subject, Hand, InHand
  <2>3. UNCHANGED <<suspends, tcbs>>
    BY <1>23 DEF NameSearch, Subject
  <2> QED BY <1>0, <2>1, <2>2, <2>3
<1>24. ASSUME NEW t \in Client \cup Thr, NameUpdate(t) PROVE SemInv'
  <2>1. PICK p \in Thr :
          /\ p = copy[t].of
          /\ tcbs[p] # None => copy[t].block.suspend = tcbs[p].suspend
    BY <1>24 DEF NameUpdate, NameInv
  <2>2. /\ \A q \in Thr : tcbs[q] = None => tcbs'[q] = None
        /\ \A q \in Thr : tcbs[q] # None
             => tcbs'[q] # None /\ tcbs'[q].suspend = tcbs[q].suspend
    <3>1. copy[t] \in Naming
      BY <1>24 DEF NameUpdate, DataInv
    <3> QED BY <1>0, <2>1, <3>1, <1>24, ThreadsAssumption DEF NameUpdate,
               Naming
  <2>3. \A q \in Thr : ((InHand(q))' <=> InHand(q)) /\ (InHand(q)
          => (Hand(q))' = Hand(q))
    BY <1>0, <1>24 DEF NameUpdate, InHand, Hand
  <2>4. suspends' = suspends
    BY <1>24 DEF NameUpdate
  <2> QED BY <2>2, <2>3, <2>4
<1>25. CASE UNCHANGED vars
  <2>1. \A q \in Thr : (InHand(q))' <=> InHand(q)
    BY <1>0, <1>25 DEF vars, InHand
  <2>2. \A q \in Thr : InHand(q) => Hand(q)' = Hand(q)
    BY <1>0, <2>1, <1>25 DEF vars, Hand, InHand
  <2>3. UNCHANGED <<suspends, tcbs>>
    BY <1>25 DEF vars
  <2> QED BY <1>0, <2>1, <2>2, <2>3
<1>26. QED
  BY <1>1, <1>2, <1>3, <1>4, <1>5, <1>6, <1>7, <1>8, <1>9, <1>10,
     <1>11, <1>12, <1>13, <1>14, <1>15, <1>16, <1>17, <1>18, <1>19,
     <1>20, <1>21, <1>22, <1>23, <1>24, <1>25
     DEF Next, ThrStep, Progress, Done
\* The first calls take fresh buckets.
LEMMA FreshStep == ControlInv /\ FreshInv /\ [Next \/ Done]_vars => FreshInv'
<1> SUFFICES ASSUME ControlInv, FreshInv, [Next \/ Done]_vars,
                    calls' <= NumBuckets + 1
             PROVE  /\ ~reused'
                    /\ NumBuckets + 1 - calls' <= Len(buckets')
                    /\ \A i \in 1 .. NumBuckets + 1 - calls' :
                         buckets'[i] = calls' + i
                    /\ \A t \in Client \cup Thr : (Holder(t)
                         \/ pc[t] \in LatePc)' => boot'[t] <= calls'
  BY DEF FreshInv
<1> DEFINE Goal == /\ ~reused'
                   /\ NumBuckets + 1 - calls' <= Len(buckets')
                   /\ \A i \in 1 .. NumBuckets + 1 - calls' :
                        buckets'[i] = calls' + i
                   /\ \A t \in Client \cup Thr : (Holder(t)
                        \/ pc[t] \in LatePc)' => boot'[t] <= calls'
<1> USE DEF Goto, pools, keyvars, frame, thread, after, Holder
<1>0. /\ pc \in [Client \cup Thr -> ClientPc \cup ThrPc]
      /\ boot \in [Client \cup Thr -> Bucket \cup {None}]
      /\ \A t \in Client \cup Thr : Holder(t) \/ pc[t] \in LatePc
           => boot[t] \in Bucket
      /\ buckets \in Seq(Bucket)
      /\ calls \in Nat /\ NumBuckets \in Nat
      /\ \A c \in Client : pc[c] \in ClientPc
      /\ \A p \in Thr : pc[p] \in ThrPc
      /\ Client \cap Thr = {}
  BY ThreadsAssumption DEF ControlInv
<1>f. calls <= NumBuckets + 1 =>
        /\ ~reused
        /\ NumBuckets + 1 - calls <= Len(buckets)
        /\ \A i \in 1 .. NumBuckets + 1 - calls : buckets[i] = calls + i
        /\ \A t \in Client \cup Thr : Holder(t) \/ pc[t] \in LatePc
             => boot[t] <= calls
  BY DEF FreshInv
<1> USE DEF ClientPc, ThrPc, Owns, LatePc, Bucket
<1>1. ASSUME NEW c \in Client, CreateCall(c) PROVE Goal
  <2>0. calls' = calls + 1 /\ calls <= NumBuckets /\ pc[c] = "idle"
    BY <1>1, <1>0 DEF CreateCall
  <2>1. CASE Avail(buckets)
    <3>1. /\ pc' = [pc EXCEPT ![c] = "pthread"]
          /\ boot' = [boot EXCEPT ![c] = Head(buckets)]
          /\ buckets' = Tail(buckets)
          /\ reused' = (reused \/ \E p \in Late : boot[p] = Head(buckets))
      BY <1>1, <2>1 DEF CreateCall
    <3>2. /\ Len(Tail(buckets)) = Len(buckets) - 1
          /\ Head(buckets) = buckets[1]
          /\ \A i \in 1 .. Len(buckets) - 1 : Tail(buckets)[i] = buckets[i + 1]
      BY <1>0, <2>1 DEF Avail
    <3>3. Head(buckets) = calls + 1
      BY <1>0, <1>f, <2>0, <3>2
    <3>4. ~reused'
      <4>1. \A p \in Late : boot[p] \in Nat /\ boot[p] <= calls
        BY <1>0, <1>f, <2>0 DEF Late
      <4>2. \A p \in Late : boot[p] # Head(buckets)
        BY <1>0, <3>3, <4>1
      <4>3. ~reused
        BY <1>0, <1>f, <2>0
      <4> QED BY <3>1, <4>2, <4>3, Zenon
    <3>5. NumBuckets + 1 - calls' <= Len(buckets')
      BY <1>0, <1>f, <2>0, <3>1, <3>2
    <3>6. \A i \in 1 .. NumBuckets + 1 - calls' : buckets'[i] = calls' + i
      <4>1. TAKE i \in 1 .. NumBuckets + 1 - calls'
      <4>2. i + 1 \in 1 .. NumBuckets + 1 - calls
              /\ i \in 1 .. Len(buckets) - 1
        BY <1>0, <1>f, <2>0
      <4>3. buckets[i + 1] = calls + (i + 1)
        BY <1>f, <1>0, <2>0, <4>2
      <4> QED BY <1>0, <2>0, <3>1, <3>2, <4>2, <4>3
    <3>7. \A t \in Client \cup Thr : (Holder(t) \/ pc[t] \in LatePc)'
            => boot'[t] <= calls'
      BY <1>0, <1>f, <2>0, <3>1, <3>3
    <3> QED BY <3>4, <3>5, <3>6, <3>7
  <2>2. CASE ~Avail(buckets)
    <3>1. UNCHANGED <<pc, boot, buckets, reused>>
      BY <1>1, <2>2 DEF CreateCall
    <3>2. NumBuckets + 1 - calls' = 0
      BY <1>0, <1>f, <2>0, <2>2 DEF Avail
    <3> QED BY <1>0, <1>f, <2>0, <3>1, <3>2
  <2> QED BY <2>1, <2>2
<1>2. ASSUME NEW c \in Client, PthreadCreate(c) PROVE Goal
  <2>1. PICK p \in Thr :
          /\ pc[p] = "none" /\ pc[c] = "pthread"
          /\ pc' = [pc EXCEPT ![c] = "wait", ![p] = "entry"]
          /\ boot' = [boot EXCEPT ![c] = None, ![p] = boot[c]]
          /\ UNCHANGED <<buckets, calls, cur, reused>>
    BY <1>2 DEF PthreadCreate
  <2>2. c # p
    BY <1>0
  <2> QED BY <1>0, <1>f, <2>1, <2>2
<1>3. ASSUME NEW c \in Client, PthreadFails(c) PROVE Goal
  BY <1>0, <1>f, <1>3 DEF PthreadFails
<1>4. ASSUME NEW c \in Client, CreateReturn(c) PROVE Goal
  BY <1>0, <1>f, <1>4 DEF CreateReturn
<1>5. ASSUME NEW c \in Client, NEW p \in Thr, Join(c, p) PROVE Goal
  BY <1>0, <1>f, <1>5 DEF Join, Reaped
<1>6. ASSUME NEW c \in Client, NEW p \in Thr, Detach(c, p) PROVE Goal
  BY <1>0, <1>f, <1>6 DEF Detach
<1>7. ASSUME NEW p \in Thr, EntryAlloc(p) PROVE Goal
  <2>1. /\ pc[p] = "entry"
        /\ \/ pc' = [pc EXCEPT ![p] = "insert"]
           \/ pc' = [pc EXCEPT ![p] = "give_up"]
        /\ UNCHANGED <<buckets, boot, calls, reused>>
    BY <1>7, Zenon DEF EntryAlloc
  <2> QED BY <1>0, <1>f, <2>1
<1>8. ASSUME NEW p \in Thr, EntryInsert(p) PROVE Goal
  BY <1>0, <1>f, <1>8 DEF EntryInsert
<1>9. ASSUME NEW p \in Thr, EntryInsertFails(p) PROVE Goal
  BY <1>0, <1>f, <1>9 DEF EntryInsertFails
<1>10. ASSUME NEW p \in Thr, FreeBucket(p) PROVE Goal
  <2>1. boot[p] \in Bucket /\ pc[p] \in Owns
    BY <1>0, <1>10 DEF FreeBucket
  <2>2. /\ Len(Append(buckets, boot[p])) = Len(buckets) + 1
        /\ \A i \in 1 .. Len(buckets) : Append(buckets, boot[p])[i] = buckets[i]
    BY <1>0, <2>1
  <2>3. /\ buckets' = Append(buckets, boot[p]) /\ UNCHANGED <<boot, calls,
                                                              reused>>
        /\ \E l \in {"suspend", "refuse"} : pc' = [pc EXCEPT ![p] = l]
    BY <1>10 DEF FreeBucket
  <2>4. \A i \in 1 .. NumBuckets + 1 - calls' : buckets'[i] = calls' + i
    BY <1>0, <1>f, <2>2, <2>3
  <2>5. \A t \in Client \cup Thr : (Holder(t) \/ pc[t] \in LatePc)'
          => boot'[t] <= calls'
    BY <1>0, <1>f, <2>1, <2>3
  <2> QED BY <1>0, <1>f, <2>2, <2>3, <2>4, <2>5
<1>11. ASSUME NEW p \in Thr, Refuse(p) PROVE Goal
  BY <1>0, <1>f, <1>11 DEF Refuse, SetPromise
<1>12. ASSUME NEW p \in Thr, KeyCreate(p) PROVE Goal
  BY <1>0, <1>f, <1>12 DEF KeyCreate
<1>13. ASSUME NEW p \in Thr, SetSpecific(p) PROVE Goal
  BY <1>0, <1>f, <1>13 DEF SetSpecific
<1>14. ASSUME NEW p \in Thr, TakeSuspend(p) PROVE Goal
  BY <1>0, <1>f, <1>14 DEF TakeSuspend
<1>15. ASSUME NEW p \in Thr, Announce(p) PROVE Goal
  BY <1>0, <1>f, <1>15 DEF Announce, SetPromise
<1>16. ASSUME NEW p \in Thr, ClearPromise(p) PROVE Goal
  <2>1. /\ pc[p] = "clear" /\ pc' = [pc EXCEPT ![p] = "func"]
        /\ UNCHANGED <<buckets, boot, calls, reused>>
    BY <1>16, Zenon DEF ClearPromise
  <2> QED BY <1>0, <1>f, <2>1
<1>17. ASSUME NEW p \in Thr, RunFunc(p) PROVE Goal
  BY <1>0, <1>f, <1>17 DEF RunFunc
<1>18. ASSUME NEW p \in Thr, End(p) PROVE Goal
  BY <1>0, <1>f, <1>18 DEF End
<1>19. ASSUME NEW p \in Thr, FinalDelete(p) PROVE Goal
  BY <1>0, <1>f, <1>19 DEF FinalDelete
<1>20. ASSUME NEW p \in Thr, FinalFree(p) PROVE Goal
  BY <1>0, <1>f, <1>20 DEF FinalFree
<1>21. ASSUME NEW p \in Thr, FinalKey(p) PROVE Goal
  BY <1>0, <1>f, <1>21 DEF FinalKey
<1>22. ASSUME NEW p \in Thr, Vanish(p) PROVE Goal
  BY <1>0, <1>f, <1>22 DEF Vanish, Reaped
<1>23. ASSUME NEW t \in Client \cup Thr, NEW p \in Thr, NameSearch(t, p)
       PROVE  Goal
  BY <1>0, <1>f, <1>23 DEF NameSearch, Subject
<1>24. ASSUME NEW t \in Client \cup Thr, NameUpdate(t) PROVE Goal
  BY <1>0, <1>f, <1>24 DEF NameUpdate
<1>25. CASE UNCHANGED vars
  BY <1>0, <1>f, <1>25 DEF vars
<1>26. QED
  BY <1>1, <1>2, <1>3, <1>4, <1>5, <1>6, <1>7, <1>8, <1>9, <1>10,
     <1>11, <1>12, <1>13, <1>14, <1>15, <1>16, <1>17, <1>18, <1>19,
     <1>20, <1>21, <1>22, <1>23, <1>24, <1>25
     DEF Next, ThrStep, Progress, Done
\* What has been overwritten stays overwritten.
LEMMA ReusedStays == [Next \/ Done]_vars /\ ~reused' => ~reused
<1> SUFFICES ASSUME [Next \/ Done]_vars, ~reused' PROVE ~reused
  OBVIOUS
<1> USE DEF pools, keyvars, frame, thread, after, Reaped
<1>1. ASSUME NEW c \in Client, CreateCall(c) PROVE ~reused
  <2>1. (reused' = (reused \/ \E p \in Late : boot[p] = Head(buckets)))
          \/ reused' = reused
    BY <1>1 DEF CreateCall
  <2> QED BY <2>1, Zenon
<1>2. ASSUME NEW c \in Client, PthreadCreate(c) PROVE ~reused
  BY <1>2, Zenon DEF PthreadCreate
<1>3. ASSUME NEW c \in Client, PthreadFails(c) PROVE ~reused
  BY <1>3, Zenon DEF PthreadFails
<1>4. ASSUME NEW c \in Client, CreateReturn(c) PROVE ~reused
  BY <1>4, Zenon DEF CreateReturn
<1>5. ASSUME NEW c \in Client, NEW p \in Thr, Join(c, p) PROVE ~reused
  BY <1>5, Zenon DEF Join, Reaped
<1>6. ASSUME NEW c \in Client, NEW p \in Thr, Detach(c, p) PROVE ~reused
  BY <1>6, Zenon DEF Detach
<1>7. ASSUME NEW p \in Thr, EntryAlloc(p) PROVE ~reused
  BY <1>7, Zenon DEF EntryAlloc
<1>8. ASSUME NEW p \in Thr, EntryInsert(p) PROVE ~reused
  BY <1>8, Zenon DEF EntryInsert
<1>9. ASSUME NEW p \in Thr, EntryInsertFails(p) PROVE ~reused
  BY <1>9, Zenon DEF EntryInsertFails
<1>10. ASSUME NEW p \in Thr, FreeBucket(p) PROVE ~reused
  BY <1>10, Zenon DEF FreeBucket
<1>11. ASSUME NEW p \in Thr, Refuse(p) PROVE ~reused
  BY <1>11, Zenon DEF Refuse, SetPromise
<1>12. ASSUME NEW p \in Thr, KeyCreate(p) PROVE ~reused
  BY <1>12, Zenon DEF KeyCreate
<1>13. ASSUME NEW p \in Thr, SetSpecific(p) PROVE ~reused
  BY <1>13, Zenon DEF SetSpecific
<1>14. ASSUME NEW p \in Thr, TakeSuspend(p) PROVE ~reused
  BY <1>14, Zenon DEF TakeSuspend
<1>15. ASSUME NEW p \in Thr, Announce(p) PROVE ~reused
  BY <1>15, Zenon DEF Announce, SetPromise
<1>16. ASSUME NEW p \in Thr, ClearPromise(p) PROVE ~reused
  BY <1>16, Zenon DEF ClearPromise
<1>17. ASSUME NEW p \in Thr, RunFunc(p) PROVE ~reused
  BY <1>17, Zenon DEF RunFunc
<1>18. ASSUME NEW p \in Thr, End(p) PROVE ~reused
  BY <1>18, Zenon DEF End
<1>19. ASSUME NEW p \in Thr, FinalDelete(p) PROVE ~reused
  BY <1>19, Zenon DEF FinalDelete
<1>20. ASSUME NEW p \in Thr, FinalFree(p) PROVE ~reused
  BY <1>20, Zenon DEF FinalFree
<1>21. ASSUME NEW p \in Thr, FinalKey(p) PROVE ~reused
  BY <1>21, Zenon DEF FinalKey
<1>22. ASSUME NEW p \in Thr, Vanish(p) PROVE ~reused
  BY <1>22, Zenon DEF Vanish, Reaped
<1>23. ASSUME NEW t \in Client \cup Thr, NEW p \in Thr, NameSearch(t, p)
       PROVE  ~reused
  BY <1>23, Zenon DEF NameSearch, Subject
<1>24. ASSUME NEW t \in Client \cup Thr, NameUpdate(t) PROVE ~reused
  BY <1>24, Zenon DEF NameUpdate
<1>25. CASE UNCHANGED vars
  BY <1>25, Zenon DEF vars
<1>26. QED
  BY <1>1, <1>2, <1>3, <1>4, <1>5, <1>6, <1>7, <1>8, <1>9, <1>10,
     <1>11, <1>12, <1>13, <1>14, <1>15, <1>16, <1>17, <1>18, <1>19,
     <1>20, <1>21, <1>22, <1>23, <1>24, <1>25
     DEF Next, ThrStep, Progress, Done

\* A bucket that is read late stays in the pool until it is handed out.
LEMMA KeepStep ==
  ControlInv /\ BucketInv /\ KeepInv /\ [Next \/ Done]_vars => KeepInv'
<1> SUFFICES ASSUME ControlInv, BucketInv, KeepInv, [Next \/ Done]_vars,
                    ~reused'
             PROVE  KeepInv'
  BY DEF KeepInv
<1> USE DEF KeepInv, Goto, pools, keyvars, frame, thread, after
<1>0. /\ pc \in [Client \cup Thr -> ClientPc \cup ThrPc]
      /\ boot \in [Client \cup Thr -> Bucket \cup {None}]
      /\ \A c \in Client : pc[c] \in ClientPc
      /\ \A p \in Thr : pc[p] \in ThrPc
      /\ Client \cap Thr = {}
      /\ ~reused
  BY ThreadsAssumption, ReusedStays DEF ControlInv
<1> USE DEF ClientPc, ThrPc, Owns, LatePc
<1>1. ASSUME NEW c \in Client, CreateCall(c) PROVE KeepInv'
  <2>1. CASE Avail(buckets)
    <3>1. /\ pc' = [pc EXCEPT ![c] = "pthread"] /\ pc[c] = "idle"
          /\ boot' = [boot EXCEPT ![c] = Head(buckets)]
          /\ buckets' = Tail(buckets)
      BY <1>1, <2>1 DEF CreateCall
    <3>2. reused' = (reused \/ \E p \in Late : boot[p] = Head(buckets))
      BY <1>1, <2>1 DEF CreateCall
    <3>3. \A p \in Late : boot[p] # Head(buckets)
      BY <3>2, Zenon
    <3>4. \A x : x \in Range(buckets) /\ x # Head(buckets)
            => x \in Range(Tail(buckets))
      BY <2>1, TailFacts DEF ControlInv, BucketInv, Avail
    <3> QED BY <1>0, <3>1, <3>3, <3>4 DEF Late
  <2>2. CASE ~Avail(buckets)
    BY <1>0, <1>1, <2>2 DEF CreateCall
  <2> QED BY <2>1, <2>2
<1>2. ASSUME NEW c \in Client, PthreadCreate(c) PROVE KeepInv'
  <2>1. PICK p \in Thr :
          /\ pc[p] = "none" /\ pc[c] = "pthread"
          /\ pc' = [pc EXCEPT ![c] = "wait", ![p] = "entry"]
          /\ boot' = [boot EXCEPT ![c] = None, ![p] = boot[c]]
          /\ UNCHANGED <<buckets, calls, cur>>
    BY <1>2 DEF PthreadCreate
  <2>2. c # p
    BY <1>0
  <2> QED BY <1>0, <2>1, <2>2
<1>3. ASSUME NEW c \in Client, PthreadFails(c) PROVE KeepInv'
  BY <1>0, <1>3 DEF PthreadFails
<1>4. ASSUME NEW c \in Client, CreateReturn(c) PROVE KeepInv'
  BY <1>0, <1>4 DEF CreateReturn
<1>5. ASSUME NEW c \in Client, NEW p \in Thr, Join(c, p) PROVE KeepInv'
  BY <1>0, <1>5 DEF Join, Reaped
<1>6. ASSUME NEW c \in Client, NEW p \in Thr, Detach(c, p) PROVE KeepInv'
  BY <1>0, <1>6 DEF Detach
<1>7. ASSUME NEW p \in Thr, EntryAlloc(p) PROVE KeepInv'
  <2>1. /\ pc[p] = "entry"
        /\ \/ pc' = [pc EXCEPT ![p] = "insert"]
           \/ pc' = [pc EXCEPT ![p] = "give_up"]
        /\ UNCHANGED <<buckets, boot>>
    BY <1>7, Zenon DEF EntryAlloc
  <2> QED BY <1>0, <2>1
<1>8. ASSUME NEW p \in Thr, EntryInsert(p) PROVE KeepInv'
  BY <1>0, <1>8 DEF EntryInsert
<1>9. ASSUME NEW p \in Thr, EntryInsertFails(p) PROVE KeepInv'
  BY <1>0, <1>9 DEF EntryInsertFails
<1>10. ASSUME NEW p \in Thr, FreeBucket(p) PROVE KeepInv'
  <2>1. boot[p] \in Bucket /\ buckets \in Seq(Bucket) /\ pc[p] \in Owns
          /\ boot[p] \notin Range(buckets)
    BY <1>0, <1>10 DEF FreeBucket, ControlInv, BucketInv, Holder
  <2>2. \A y : (y \in Range(Append(buckets, boot[p])))
          <=> (y \in Range(buckets) \/ y = boot[p])
    BY <2>1, AppendFacts
  <2>3. /\ buckets' = Append(buckets, boot[p]) /\ boot' = boot
        /\ \E l \in {"suspend", "refuse"} : pc' = [pc EXCEPT ![p] = l]
    BY <1>10 DEF FreeBucket
  <2> QED BY <1>0, <2>1, <2>2, <2>3
<1>11. ASSUME NEW p \in Thr, Refuse(p) PROVE KeepInv'
  BY <1>0, <1>11 DEF Refuse, SetPromise
<1>12. ASSUME NEW p \in Thr, KeyCreate(p) PROVE KeepInv'
  BY <1>0, <1>12 DEF KeyCreate
<1>13. ASSUME NEW p \in Thr, SetSpecific(p) PROVE KeepInv'
  BY <1>0, <1>13 DEF SetSpecific
<1>14. ASSUME NEW p \in Thr, TakeSuspend(p) PROVE KeepInv'
  BY <1>0, <1>14 DEF TakeSuspend
<1>15. ASSUME NEW p \in Thr, Announce(p) PROVE KeepInv'
  BY <1>0, <1>15 DEF Announce, SetPromise
<1>16. ASSUME NEW p \in Thr, ClearPromise(p) PROVE KeepInv'
  <2>1. /\ pc[p] = "clear" /\ pc' = [pc EXCEPT ![p] = "func"]
        /\ UNCHANGED <<buckets, boot>>
    BY <1>16, Zenon DEF ClearPromise
  <2> QED BY <1>0, <2>1
<1>17. ASSUME NEW p \in Thr, RunFunc(p) PROVE KeepInv'
  BY <1>0, <1>17 DEF RunFunc
<1>18. ASSUME NEW p \in Thr, End(p) PROVE KeepInv'
  BY <1>0, <1>18 DEF End
<1>19. ASSUME NEW p \in Thr, FinalDelete(p) PROVE KeepInv'
  BY <1>0, <1>19 DEF FinalDelete
<1>20. ASSUME NEW p \in Thr, FinalFree(p) PROVE KeepInv'
  BY <1>0, <1>20 DEF FinalFree
<1>21. ASSUME NEW p \in Thr, FinalKey(p) PROVE KeepInv'
  BY <1>0, <1>21 DEF FinalKey
<1>22. ASSUME NEW p \in Thr, Vanish(p) PROVE KeepInv'
  BY <1>0, <1>22 DEF Vanish, Reaped
<1>23. ASSUME NEW t \in Client \cup Thr, NEW p \in Thr, NameSearch(t, p)
       PROVE  KeepInv'
  BY <1>0, <1>23 DEF NameSearch, Subject
<1>24. ASSUME NEW t \in Client \cup Thr, NameUpdate(t) PROVE KeepInv'
  BY <1>0, <1>24 DEF NameUpdate
<1>25. CASE UNCHANGED vars
  BY <1>0, <1>25 DEF vars
<1>26. QED
  BY <1>1, <1>2, <1>3, <1>4, <1>5, <1>6, <1>7, <1>8, <1>9, <1>10,
     <1>11, <1>12, <1>13, <1>14, <1>15, <1>16, <1>17, <1>18, <1>19,
     <1>20, <1>21, <1>22, <1>23, <1>24, <1>25
     DEF Next, ThrStep, Progress, Done
\* Until then nobody shares a bucket, late readers included.
LEMMA UniqueBoot ==
  ControlInv /\ BucketInv /\ KeepInv /\ ~reused =>
    \A t, u \in Client \cup Thr :
      /\ Holder(t) \/ pc[t] \in LatePc
      /\ Holder(u) \/ pc[u] \in LatePc
      /\ boot[t] = boot[u]
      => t = u
<1> SUFFICES ASSUME ControlInv, BucketInv, KeepInv, ~reused,
                    NEW t \in Client \cup Thr, NEW u \in Client \cup Thr,
                    Holder(t) \/ pc[t] \in LatePc,
                    Holder(u) \/ pc[u] \in LatePc,
                    boot[t] = boot[u]
             PROVE  t = u
  OBVIOUS
<1>1. \A v \in Client \cup Thr : pc[v] \in LatePc
        => v \in Thr /\ boot[v] \in Range(buckets)
  BY ThreadsAssumption DEF ControlInv, KeepInv, LatePc, ClientPc
<1>2. CASE Holder(t) /\ Holder(u)
  BY <1>2 DEF BucketInv
<1>3. CASE pc[t] \in LatePc /\ pc[u] \in LatePc
  BY <1>1, <1>3 DEF KeepInv
<1> QED BY <1>1, <1>2, <1>3 DEF BucketInv

\* A block is written by the client that fills it and by its own thread.
LEMMA BlockStep ==
  ControlInv /\ BucketInv /\ DataInv /\ NameInv /\ KeepInv /\ BlockInv
    /\ [Next \/ Done]_vars => BlockInv'
<1> SUFFICES ASSUME ControlInv, BucketInv, DataInv, NameInv, KeepInv, BlockInv,
                    [Next \/ Done]_vars, ~reused'
             PROVE  BlockInv'
  BY DEF BlockInv
<1> USE DEF BlockInv, Goto, pools, keyvars, frame, thread, after
<1>0. /\ pc \in [Client \cup Thr -> ClientPc \cup ThrPc]
      /\ boot \in [Client \cup Thr -> Bucket \cup {None}]
      /\ \A c \in Client : pc[c] \in ClientPc
      /\ \A p \in Thr : pc[p] \in ThrPc
      /\ Client \cap Thr = {}
      /\ ~reused
      /\ cur \in [Client -> Call \cup {None}]
      /\ born \in [Thr -> Call \cup {None}]
      /\ tcb \in [Bucket -> Block]
      /\ tcbs \in [Thr -> Entry \cup {None}]
      /\ suspend \in [Thr -> Sem \cup {None}]
      /\ \A p \in Thr : pc[p] \in Listed => tcbs[p] # None
  BY ThreadsAssumption, ReusedStays DEF ControlInv, DataInv
<1>b. /\ \A c \in Client : pc[c] = "pthread" => boot[c] \in Bucket
      /\ \A p \in Thr : pc[p] \in Owns \cup LatePc => boot[p] \in Bucket
  BY DEF ControlInv, Holder
<1>u. /\ \A p, q \in Thr : pc[p] \in Owns \cup LatePc
           /\ pc[q] \in Owns \cup LatePc
                           /\ boot[p] = boot[q] => p = q
      /\ \A p \in Thr, c \in Client : pc[p] \in Owns \cup LatePc
           /\ pc[c] = "pthread"
                           => boot[p] # boot[c]
      /\ \A c, d \in Client : pc[d] = "pthread" /\ pc[c] = "pthread"
           /\ boot[d] = boot[c] => c = d
  BY <1>0, UniqueBoot DEF Holder
<1> USE DEF ClientPc, ThrPc, Owns, LatePc, Listed, Block, Entry
<1>1. ASSUME NEW c \in Client, CreateCall(c) PROVE BlockInv'
  <2>1. CASE Avail(buckets)
    <3> DEFINE b == Head(buckets)
    <3>1. /\ pc' = [pc EXCEPT ![c] = "pthread"] /\ pc[c] = "idle"
          /\ boot' = [boot EXCEPT ![c] = b]
          /\ cur' = [cur EXCEPT ![c] = calls']
          /\ tcb' = [tcb EXCEPT ![b]
               = [func |-> calls', prms |-> calls', suspend |-> None]]
          /\ UNCHANGED <<tcbs, suspend, born>>
      BY <1>1, <2>1 DEF CreateCall
    <3>2. reused' = (reused \/ \E p \in Late : boot[p] = b)
      BY <1>1, <2>1 DEF CreateCall
    <3>3. \A p \in Late : boot[p] # b
      BY <3>2, Zenon
    <3>4. b \in Range(buckets) /\ b \in Bucket
      BY <2>1, TailFacts DEF ControlInv, BucketInv, Avail
    <3>5. \A t \in Client \cup Thr : Holder(t) => boot[t] # b
      BY <3>4 DEF BucketInv
    <3>6. /\ \A p \in Thr : pc[p] \in Owns \cup LatePc
               => tcb'[boot[p]] = tcb[boot[p]]
          /\ \A d \in Client : pc[d] = "pthread"
               => tcb'[boot[d]] = tcb[boot[d]]
      BY <1>b, <3>1, <3>3, <3>4, <3>5 DEF Holder, Late
    <3>7. tcb'[b].func = calls' /\ tcb'[b].prms = calls'
      BY <1>0, <3>1, <3>4
    <3> HIDE DEF b
    <3> QED BY <1>0, <3>1, <3>6, <3>7
  <2>2. CASE ~Avail(buckets)
    BY <1>0, <1>1, <2>2 DEF CreateCall
  <2> QED BY <2>1, <2>2
<1>2. ASSUME NEW c \in Client, PthreadCreate(c) PROVE BlockInv'
  <2>1. PICK p \in Thr :
          /\ pc[p] = "none" /\ pc[c] = "pthread"
          /\ pc' = [pc EXCEPT ![c] = "wait", ![p] = "entry"]
          /\ boot' = [boot EXCEPT ![c] = None, ![p] = boot[c]]
          /\ born' = [born EXCEPT ![p] = cur[c]]
          /\ suspend' = [suspend EXCEPT ![p] = None]
          /\ UNCHANGED <<tcb, tcbs, cur>>
    BY <1>2 DEF PthreadCreate
  <2>2. c # p
    BY <1>0
  <2> QED BY <1>0, <2>1, <2>2
<1>3. ASSUME NEW c \in Client, PthreadFails(c) PROVE BlockInv'
  BY <1>0, <1>3 DEF PthreadFails
<1>4. ASSUME NEW c \in Client, CreateReturn(c) PROVE BlockInv'
  BY <1>0, <1>4 DEF CreateReturn
<1>5. ASSUME NEW c \in Client, NEW p \in Thr, Join(c, p) PROVE BlockInv'
  BY <1>0, <1>5 DEF Join, Reaped
<1>6. ASSUME NEW c \in Client, NEW p \in Thr, Detach(c, p) PROVE BlockInv'
  BY <1>0, <1>6 DEF Detach
<1>7. ASSUME NEW p \in Thr, EntryAlloc(p) PROVE BlockInv'
  <2>1. /\ pc[p] = "entry"
        /\ \/ pc' = [pc EXCEPT ![p] = "insert"]
           \/ pc' = [pc EXCEPT ![p] = "give_up"]
        /\ \/ tcb' = tcb
           \/ tcb' = [tcb EXCEPT ![boot[p]]
                = [tcb[boot[p]] EXCEPT !.suspend = Head(suspends)]]
        /\ UNCHANGED <<tcbs, suspend, born, cur, boot>>
    BY <1>7, Zenon DEF EntryAlloc
  <2>2. boot[p] \in Bucket
    BY <1>b, <2>1
  <2>3. /\ \A b \in Bucket : tcb'[b].func = tcb[b].func
             /\ tcb'[b].prms = tcb[b].prms
        /\ \A b \in Bucket \ {boot[p]} : tcb'[b] = tcb[b]
    BY <1>0, <2>1, <2>2
  <2>4. \A q \in Thr : pc[q] \in {"key", "specific", "free", "suspend"}
          => boot[q] # boot[p]
    BY <1>u, <2>1
  <2>5. \A q \in Thr : (pc'[q] \in Owns \cup LatePc)
          <=> (pc[q] \in Owns \cup LatePc)
    BY <1>0, <2>1
  <2> QED BY <1>0, <1>b, <2>1, <2>3, <2>4
<1>8. ASSUME NEW p \in Thr, EntryInsert(p) PROVE BlockInv'
  BY <1>0, <1>8 DEF EntryInsert
<1>9. ASSUME NEW p \in Thr, EntryInsertFails(p) PROVE BlockInv'
  BY <1>0, <1>9 DEF EntryInsertFails
<1>10. ASSUME NEW p \in Thr, FreeBucket(p) PROVE BlockInv'
  BY <1>0, <1>10 DEF FreeBucket
<1>11. ASSUME NEW p \in Thr, Refuse(p) PROVE BlockInv'
  BY <1>0, <1>11 DEF Refuse, SetPromise
<1>12. ASSUME NEW p \in Thr, KeyCreate(p) PROVE BlockInv'
  BY <1>0, <1>12 DEF KeyCreate
<1>13. ASSUME NEW p \in Thr, SetSpecific(p) PROVE BlockInv'
  BY <1>0, <1>13 DEF SetSpecific
<1>14. ASSUME NEW p \in Thr, TakeSuspend(p) PROVE BlockInv'
  BY <1>0, <1>14 DEF TakeSuspend
<1>15. ASSUME NEW p \in Thr, Announce(p) PROVE BlockInv'
  BY <1>0, <1>15 DEF Announce, SetPromise
<1>16. ASSUME NEW p \in Thr, ClearPromise(p) PROVE BlockInv'
  <2>1. /\ pc[p] = "clear" /\ pc' = [pc EXCEPT ![p] = "func"]
        /\ tcb' = [tcb EXCEPT ![boot[p]] = [tcb[boot[p]] EXCEPT !.prms = None]]
        /\ UNCHANGED <<tcbs, suspend, born, cur, boot>>
    BY <1>16, Zenon DEF ClearPromise
  <2>2. boot[p] \in Bucket
    BY <1>b, <2>1
  <2>3. /\ \A b \in Bucket : tcb'[b].func = tcb[b].func
             /\ tcb'[b].suspend = tcb[b].suspend
        /\ \A b \in Bucket \ {boot[p]} : tcb'[b] = tcb[b]
    BY <1>0, <2>1, <2>2
  <2>4. /\ \A q \in Thr :
             pc[q] \in Owns \cup {"refuse", "suspend", "promise"}
               => boot[q] # boot[p]
        /\ \A c \in Client : pc[c] = "pthread" => boot[c] # boot[p]
    BY <1>u, <1>0, <2>1
  <2> QED BY <1>0, <1>b, <2>1, <2>3, <2>4
<1>17. ASSUME NEW p \in Thr, RunFunc(p) PROVE BlockInv'
  BY <1>0, <1>17 DEF RunFunc
<1>18. ASSUME NEW p \in Thr, End(p) PROVE BlockInv'
  BY <1>0, <1>18 DEF End
<1>19. ASSUME NEW p \in Thr, FinalDelete(p) PROVE BlockInv'
  BY <1>0, <1>19 DEF FinalDelete
<1>20. ASSUME NEW p \in Thr, FinalFree(p) PROVE BlockInv'
  BY <1>0, <1>20 DEF FinalFree
<1>21. ASSUME NEW p \in Thr, FinalKey(p) PROVE BlockInv'
  BY <1>0, <1>21 DEF FinalKey
<1>22. ASSUME NEW p \in Thr, Vanish(p) PROVE BlockInv'
  BY <1>0, <1>22 DEF Vanish, Reaped
<1>23. ASSUME NEW t \in Client \cup Thr, NEW p \in Thr, NameSearch(t, p)
       PROVE  BlockInv'
  BY <1>0, <1>23 DEF NameSearch, Subject
<1>24. ASSUME NEW t \in Client \cup Thr, NameUpdate(t) PROVE BlockInv'
  <2>1. PICK p \in Thr :
          /\ p = copy[t].of
          /\ tcbs[p] # None => copy[t].block.suspend = tcbs[p].suspend
    BY <1>24 DEF NameUpdate, NameInv
  <2>2. \A q \in Thr : tcbs[q] # None => tcbs'[q].suspend = tcbs[q].suspend
    <3>1. copy[t] \in Naming
      BY <1>24 DEF NameUpdate, DataInv
    <3> QED BY <1>0, <2>1, <3>1, <1>24, ThreadsAssumption DEF NameUpdate,
               Naming
  <2>3. /\ UNCHANGED <<tcb, suspend, born, cur, boot>>
        /\ pc[t] = "name"
        /\ pc' = [pc EXCEPT ![t] = IF t \in Thr THEN "run" ELSE "idle"]
    BY <1>24 DEF NameUpdate
  <2> QED BY <1>0, <2>2, <2>3
<1>25. CASE UNCHANGED vars
  BY <1>0, <1>25 DEF vars
<1>26. QED
  BY <1>1, <1>2, <1>3, <1>4, <1>5, <1>6, <1>7, <1>8, <1>9, <1>10,
     <1>11, <1>12, <1>13, <1>14, <1>15, <1>16, <1>17, <1>18, <1>19,
     <1>20, <1>21, <1>22, <1>23, <1>24, <1>25
     DEF Next, ThrStep, Progress, Done
\* A promise is set by the thread of the call, and no other.
LEMMA StatusStep ==
  ControlInv /\ RecordInv /\ CallInv /\ BlockInv /\ StatusInv /\ [Next
    \/ Done]_vars
    => StatusInv'
<1> SUFFICES ASSUME ControlInv, RecordInv, CallInv, BlockInv, StatusInv,
                    [Next \/ Done]_vars, ~reused'
             PROVE  StatusInv'
  BY DEF StatusInv
<1> USE DEF StatusInv, Goto, pools, keyvars, frame, thread, after
<1>0. /\ pc \in [Client \cup Thr -> ClientPc \cup ThrPc]
      /\ \A c \in Client : pc[c] \in ClientPc
      /\ \A p \in Thr : pc[p] \in ThrPc
      /\ Client \cap Thr = {}
      /\ None \notin Nat
      /\ ~reused
      /\ calls \in 0 .. MaxCalls /\ MaxCalls \in Nat /\ Call = 1 .. MaxCalls
      /\ cur \in [Client -> Call \cup {None}]
      /\ born \in [Thr -> Call \cup {None}]
      /\ func \in [Thr -> Call \cup {None}]
      /\ status \in [Call -> {"unset", "zero", "nomem"}]
      /\ \A c \in Client :
           IF pc[c] \in {"pthread", "wait"} THEN cur[c] \in 1 .. calls
                                            ELSE cur[c] = None
      /\ \A p \in Thr :
           IF pc[p] = "none" THEN born[p] = None ELSE born[p] \in 1 .. calls
      /\ \A p, q \in Thr : born[p] # None /\ born[p] = born[q] => p = q
      /\ \A c \in Client : pc[c] = "pthread" => \A p \in Thr : born[p] # cur[c]
      /\ \A c, d \in Client : cur[c] # None /\ cur[c] = cur[d] => c = d
      /\ \A p \in Thr : func[p] # None
           => pc[p] \in {"run", "name", "delete"} \cup Gone
  BY ThreadsAssumption, ReusedStays DEF ControlInv, RecordInv, CallInv, Call
<1> USE DEF ClientPc, ThrPc, Owns, LatePc, Waits, Gone
<1>1. ASSUME NEW c \in Client, CreateCall(c) PROVE StatusInv'
  <2>1. CASE Avail(buckets)
    <3>1. /\ pc' = [pc EXCEPT ![c] = "pthread"] /\ pc[c] = "idle"
          /\ cur' = [cur EXCEPT ![c] = calls'] /\ calls' = calls + 1
          /\ calls < MaxCalls
          /\ UNCHANGED <<status, born, func>>
      BY <1>1, <2>1 DEF CreateCall
    <3> QED BY <1>0, <3>1
  <2>2. CASE ~Avail(buckets)
    <3>1. calls' = calls + 1 /\ UNCHANGED <<status, born, func, pc, cur>>
      BY <1>1, <2>2 DEF CreateCall
    <3> QED BY <1>0, <3>1
  <2> QED BY <2>1, <2>2
<1>2. ASSUME NEW c \in Client, PthreadCreate(c) PROVE StatusInv'
  <2>1. PICK p \in Thr :
          /\ pc[p] = "none" /\ pc[c] = "pthread"
          /\ pc' = [pc EXCEPT ![c] = "wait", ![p] = "entry"]
          /\ born' = [born EXCEPT ![p] = cur[c]]
          /\ UNCHANGED <<cur, status, calls, func>>
    BY <1>2 DEF PthreadCreate
  <2>2. c # p /\ cur[c] \in Call
    BY <1>0, <2>1
  <2> QED BY <1>0, <2>1, <2>2
<1>3. ASSUME NEW c \in Client, PthreadFails(c) PROVE StatusInv'
  BY <1>0, <1>3 DEF PthreadFails
<1>4. ASSUME NEW c \in Client, CreateReturn(c) PROVE StatusInv'
  BY <1>0, <1>4 DEF CreateReturn
<1>5. ASSUME NEW c \in Client, NEW p \in Thr, Join(c, p) PROVE StatusInv'
  BY <1>0, <1>5 DEF Join, Reaped
<1>6. ASSUME NEW c \in Client, NEW p \in Thr, Detach(c, p) PROVE StatusInv'
  BY <1>0, <1>6 DEF Detach
<1>7. ASSUME NEW p \in Thr, EntryAlloc(p) PROVE StatusInv'
  <2>1. /\ pc[p] = "entry"
        /\ \/ pc' = [pc EXCEPT ![p] = "insert"]
           \/ pc' = [pc EXCEPT ![p] = "give_up"]
        /\ UNCHANGED <<born, cur, calls, func, status>>
    BY <1>7, Zenon DEF EntryAlloc
  <2> QED BY <1>0, <2>1
<1>8. ASSUME NEW p \in Thr, EntryInsert(p) PROVE StatusInv'
  BY <1>0, <1>8 DEF EntryInsert
<1>9. ASSUME NEW p \in Thr, EntryInsertFails(p) PROVE StatusInv'
  BY <1>0, <1>9 DEF EntryInsertFails
<1>10. ASSUME NEW p \in Thr, FreeBucket(p) PROVE StatusInv'
  BY <1>0, <1>10 DEF FreeBucket
<1>11. ASSUME NEW p \in Thr, Refuse(p) PROVE StatusInv'
  <2>1. pc[p] = "refuse" /\ pc' = [pc EXCEPT ![p] = "dead"]
    BY <1>11 DEF Refuse
  <2>2. tcb[boot[p]].prms = born[p] /\ born[p] \in Call /\ born[p] # None
    BY <1>0, <2>1 DEF BlockInv
  <2>3. /\ status' = [status EXCEPT ![born[p]] = "nomem"]
        /\ UNCHANGED <<born, cur, calls, func>>
    BY <2>2, <1>11 DEF Refuse, SetPromise
  <2> QED BY <1>0, <2>1, <2>2, <2>3
<1>12. ASSUME NEW p \in Thr, KeyCreate(p) PROVE StatusInv'
  BY <1>0, <1>12 DEF KeyCreate
<1>13. ASSUME NEW p \in Thr, SetSpecific(p) PROVE StatusInv'
  BY <1>0, <1>13 DEF SetSpecific
<1>14. ASSUME NEW p \in Thr, TakeSuspend(p) PROVE StatusInv'
  BY <1>0, <1>14 DEF TakeSuspend
<1>15. ASSUME NEW p \in Thr, Announce(p) PROVE StatusInv'
  <2>1. pc[p] = "promise" /\ pc' = [pc EXCEPT ![p] = "clear"]
    BY <1>15 DEF Announce
  <2>2. tcb[boot[p]].prms = born[p] /\ born[p] \in Call /\ born[p] # None
    BY <1>0, <2>1 DEF BlockInv
  <2>3. /\ status' = [status EXCEPT ![born[p]] = "zero"]
        /\ UNCHANGED <<born, cur, calls, func>>
    BY <2>2, <1>15 DEF Announce, SetPromise
  <2> QED BY <1>0, <2>1, <2>2, <2>3
<1>16. ASSUME NEW p \in Thr, ClearPromise(p) PROVE StatusInv'
  <2>1. /\ pc[p] = "clear" /\ pc' = [pc EXCEPT ![p] = "func"]
        /\ UNCHANGED <<born, cur, calls, func, status>>
    BY <1>16, Zenon DEF ClearPromise
  <2> QED BY <1>0, <2>1
<1>17. ASSUME NEW p \in Thr, RunFunc(p) PROVE StatusInv'
  <2>1. pc[p] = "func" /\ pc' = [pc EXCEPT ![p] = "run"]
        /\ func' = [func EXCEPT ![p] = tcb[boot[p]].func]
        /\ UNCHANGED <<born, cur, calls, status>>
    BY <1>17 DEF RunFunc
  <2>2. tcb[boot[p]].func = born[p]
    BY <1>0, <2>1 DEF BlockInv
  <2> QED BY <1>0, <2>1, <2>2
<1>18. ASSUME NEW p \in Thr, End(p) PROVE StatusInv'
  BY <1>0, <1>18 DEF End
<1>19. ASSUME NEW p \in Thr, FinalDelete(p) PROVE StatusInv'
  BY <1>0, <1>19 DEF FinalDelete
<1>20. ASSUME NEW p \in Thr, FinalFree(p) PROVE StatusInv'
  BY <1>0, <1>20 DEF FinalFree
<1>21. ASSUME NEW p \in Thr, FinalKey(p) PROVE StatusInv'
  BY <1>0, <1>21 DEF FinalKey
<1>22. ASSUME NEW p \in Thr, Vanish(p) PROVE StatusInv'
  BY <1>0, <1>22 DEF Vanish, Reaped
<1>23. ASSUME NEW t \in Client \cup Thr, NEW p \in Thr, NameSearch(t, p)
       PROVE  StatusInv'
  BY <1>0, <1>23 DEF NameSearch, Subject
<1>24. ASSUME NEW t \in Client \cup Thr, NameUpdate(t) PROVE StatusInv'
  BY <1>0, <1>24 DEF NameUpdate
<1>25. CASE UNCHANGED vars
  BY <1>0, <1>25 DEF vars
<1>26. QED
  BY <1>1, <1>2, <1>3, <1>4, <1>5, <1>6, <1>7, <1>8, <1>9, <1>10,
     <1>11, <1>12, <1>13, <1>14, <1>15, <1>16, <1>17, <1>18, <1>19,
     <1>20, <1>21, <1>22, <1>23, <1>24, <1>25
     DEF Next, ThrStep, Progress, Done

-----------------------------------------------------------------------------
\* A full free list.
LEMMA Boxes ==
  ASSUME NEW n \in Nat, NEW s, s = [i \in 1 .. n |-> i]
  PROVE  /\ s \in Seq(1 .. n) /\ Len(s) = n /\ IsInjective(s)
         /\ Range(s) = 1 .. n
<1>1. s \in Seq(1 .. n) /\ Len(s) = n
  OBVIOUS
<1> QED BY <1>1 DEF IsInjective, Range

\* The invariant holds initially.
LEMMA InitInv == Init => IndInv
<1> SUFFICES ASSUME Init PROVE IndInv
  OBVIOUS
<1> USE ThreadsAssumption DEF Init
<1>1. /\ buckets \in Seq(Bucket) /\ Len(buckets) = NumBuckets + 1
      /\ IsInjective(buckets)
      /\ suspends \in Seq(Sem) /\ Len(suspends) = MaxThreads + 1
      /\ IsInjective(suspends)
  BY Boxes DEF Bucket, Sem
<1>2. /\ \A c \in Client : pc[c] = "idle"
      /\ \A p \in Thr : pc[p] = "none"
      /\ pc \in [Client \cup Thr -> ClientPc \cup ThrPc]
  BY DEF ClientPc, ThrPc
<1>p. \A t \in Client \cup Thr : ~Holder(t) /\ pc[t] \notin LatePc
        /\ pc[t] # "name"
  BY <1>2 DEF Holder, Owns, LatePc
<1>3. ControlInv
  <2>1. /\ calls = 0 /\ 0 \in 0 .. MaxCalls
        /\ boot \in [Client \cup Thr -> Bucket \cup {None}]
        /\ cur \in [Client -> Call \cup {None}]
        /\ \A c \in Client : cur[c] = None
        /\ born \in [Thr -> Call \cup {None}] /\ \A p \in Thr : born[p] = None
    OBVIOUS
  <2>2. /\ \A c \in Client : pc[c] \in ClientPc
             /\ pc[c] \notin {"pthread", "wait"}
        /\ \A p \in Thr : pc[p] \in ThrPc
    BY <1>2 DEF ClientPc, ThrPc
  <2> HIDE DEF Init
  <2> QED BY <1>1, <1>2, <1>p, <2>1, <2>2 DEF ControlInv
<1>4. BucketInv
  BY <1>1, <1>p DEF BucketInv
<1>5. RecordInv
  BY DEF RecordInv
<1>6. DataInv
  BY <1>1, <1>2, <1>p DEF DataInv, Block, Listed
<1>7. CallInv
  BY <1>2 DEF CallInv
<1>8. NameInv
  BY <1>p DEF NameInv
<1>9. SemInv
  BY <1>1, <1>2 DEF SemInv, InHand
<1>10. FreshInv
  <2>1. ~reused /\ calls = 0 /\ \A i \in 1 .. NumBuckets + 1 : buckets[i] = i
    BY DEF Bucket
  <2> HIDE DEF Init
  <2>2. NumBuckets + 1 - calls = NumBuckets + 1 /\ NumBuckets \in Nat
    BY <2>1
  <2>3. \A i \in 1 .. NumBuckets + 1 : buckets[i] = calls + i
    BY <2>1
  <2> QED BY <2>1, <2>2, <2>3, <1>1, <1>p DEF FreshInv
<1>11. KeepInv
  BY <1>p DEF KeepInv
<1>12. BlockInv
  BY <1>2 DEF BlockInv, Owns, LatePc
<1>13. StatusInv
  BY <1>2 DEF StatusInv, Owns
<1> QED BY <1>3, <1>4, <1>5, <1>6, <1>7, <1>8, <1>9, <1>10, <1>11, <1>12,
       <1>13 DEF IndInv

\* Buckets and semaphores have one holder each, and blocks, promises and entries
\* of the list say the truth about their threads (threads_posix.c:149-194).
THEOREM Ownership == Spec => []IndInv
<1>1. IndInv /\ [Next \/ Done]_vars => IndInv'
  BY ControlStep, BucketStep, RecordStep, DataStep, CallStep, NameStep,
     SemStep, FreshStep, KeepStep, BlockStep, StatusStep DEF IndInv
<1> QED BY InitInv, <1>1, PTL DEF Spec

\* A free list is no longer than there are fragments.
LEMMA Pigeonhole ==
  ASSUME NEW n \in Nat, NEW s \in Seq(1 .. n), IsInjective(s)
  PROVE  Len(s) <= n
<1>1. s \in Injection(1 .. Len(s), 1 .. n) /\ Len(s) \in Nat
  BY DEF Injection, IsInjective
<1>2. 1 \in Int /\ n \in Int /\ Len(s) \in Int
  BY <1>1
<1>3. /\ IsFiniteSet(1 .. n)
      /\ Cardinality(1 .. n) = IF 1 > n THEN 0 ELSE n - 1 + 1
  BY <1>2, FS_Interval
<1>4. Cardinality(1 .. Len(s)) = IF 1 > Len(s) THEN 0 ELSE Len(s) - 1 + 1
  BY <1>2, FS_Interval
<1>5. Cardinality(1 .. Len(s)) <= Cardinality(1 .. n)
  BY <1>1, <1>3, FS_Injection
<1> QED BY <1>1, <1>3, <1>4, <1>5

\* The state is well typed, and no pool ever holds more fragments than it has:
\* no bucket or semaphore is freed twice (threads_posix.c:144, 160-181).
THEOREM TypeCorrect == Spec => []TypeOK
<1>1. IndInv => TypeOK
  <2> SUFFICES ASSUME IndInv PROVE TypeOK
    OBVIOUS
  <2>1. Len(buckets) <= NumBuckets + 1
    BY Pigeonhole, ThreadsAssumption DEF IndInv, ControlInv, BucketInv, Bucket
  <2>2. Len(suspends) <= MaxThreads + 1
    BY Pigeonhole, ThreadsAssumption DEF IndInv, DataInv, SemInv, Sem
  <2> QED BY <2>1, <2>2 DEF IndInv, ControlInv, DataInv, RecordInv, TypeOK,
             Block
<1> QED BY <1>1, Ownership, PTL

\* A thread that runs is in the list with a semaphore of its own, until a block
\* is overwritten (threads_posix.c:142, 144, 189, 453).
THEOREM SemaphoreOwnedHolds == Spec => []SemaphoreOwned
<1>1. IndInv => SemaphoreOwned
  BY DEF IndInv, DataInv, SemInv, BlockInv, SemaphoreOwned, Running, Listed
<1> QED BY <1>1, Ownership, PTL

\* A thread runs the function it was created for, until a block is overwritten
\* (threads_posix.c:181, 193).
THEOREM RunsItsFunctionHolds == Spec => []RunsItsFunction
<1>1. IndInv => RunsItsFunction
  BY DEF IndInv, StatusInv, RunsItsFunction
<1> QED BY <1>1, Ownership, PTL

\* No block is overwritten before NumBuckets + 2 calls have been made
\* (threads_posix.c:96).
THEOREM ReusedLateHolds == Spec => []ReusedLate
<1>1. IndInv => ReusedLate
  BY DEF IndInv, FreshInv, ReusedLate
<1> QED BY <1>1, Ownership, PTL

\* So the threads of the first NumBuckets + 1 calls run the function that was
\* passed, whatever happens (threads_posix.c:193).
THEOREM FirstCallsRun ==
  Spec => [](calls <= NumBuckets + 1 => RunsWhatWasPassed)
<1>1. IndInv => (calls <= NumBuckets + 1 => RunsWhatWasPassed)
  BY DEF IndInv, FreshInv, StatusInv, RunsWhatWasPassed
<1> QED BY <1>1, Ownership, PTL

\* A promise is set once and in a live stack frame, until a block is overwritten
\* (threads_posix.c:163, 191).
THEOREM PromiseAliveHolds == Spec => PromiseAlive
<1> DEFINE Alive == ~reused => \A k \in Call : status'[k] # status[k] =>
     status[k] = "unset" /\ \E c \in Client : cur[c] = k /\ pc[c] = "wait"
<1>1. IndInv /\ [Next \/ Done]_vars => [Alive]_vars
  <2> SUFFICES ASSUME IndInv, [Next \/ Done]_vars, ~reused,
                      NEW k \in Call, status'[k] # status[k]
               PROVE  status[k] = "unset" /\ \E c \in Client : cur[c] = k
                 /\ pc[c] = "wait"
    OBVIOUS
  <2>1. PICK p \in Thr : Refuse(p) \/ Announce(p)
    BY DEF Next, Done, ThrStep, Progress, vars, pools, keyvars, frame, thread,
       after, Reaped,
      CreateCall, PthreadCreate, PthreadFails, CreateReturn, Join, Detach,
      EntryAlloc, EntryInsert,
      EntryInsertFails, FreeBucket, KeyCreate, SetSpecific, TakeSuspend,
      ClearPromise, RunFunc, End,
      FinalDelete, FinalFree, FinalKey, Vanish, NameSearch, NameUpdate
  <2>2. pc[p] \in {"refuse", "promise"}
    BY <2>1 DEF Refuse, Announce
  <2>3. tcb[boot[p]].prms = born[p] /\ status[born[p]] = "unset" /\ Waits(p)
    BY <2>2 DEF IndInv, BlockInv, StatusInv
  <2>4. k = born[p]
    BY <2>1, <2>3 DEF Refuse, Announce, SetPromise, IndInv, RecordInv
  <2> QED BY <2>3, <2>4 DEF Waits
<1> QED BY <1>1, Ownership, PTL DEF Spec, PromiseAlive
=============================================================================
