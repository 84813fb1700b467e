----------------------------- MODULE ListResults -----------------------------
(***************************************************************************)
(* Proofs about what the calls of List return: until a hazard comes about, *)
(* it was right at some moment of the call.                                *)
(*                                                                         *)
(* D is the set of nodes that a call may go by: those that were in the     *)
(* list and live when it began, and those that have been linked since.  A  *)
(* call for k only ever goes from a node of D to a node of D, along links  *)
(* and backlinks.  Each node of D that has the key was bound while the     *)
(* call was in progress, and what a marked node of D tells of the key,     *)
(* that neither it nor anything between it and its successor is bound to   *)
(* it, was the case when it was marked, which is after the call began:     *)
(* links of marked nodes do not change.  V[u] is the set D of call u, and  *)
(* the history seen[u] is its Z.                                           *)
(***************************************************************************)
EXTENDS ListProofs

\* The key was bound, was not, and was bound to v, or an update was storing v.
Was(Z)    == \E v \in Value : <<"is", v>> \in Z
Gone(Z)   == <<"is", None>> \in Z
Had(Z, v) == {<<"is", v>>, <<"update", v>>} \cap Z # {}

\* The head, the tail and the live nodes.
Open(L) == {n \in L : succ[n].mark # MARKED}

\* The history Z of a call for k tells what is the case now.
Told(k, Z) ==
  /\ <<"is", items[k]>> \in Z
  /\ \A w \in Thread : pc[w] # "idle" /\ reg[w].op = "update" /\ reg[w].arg = k
                         => <<"update", reg[w].v>> \in Z

\* A node of the key was bound; a marked node no longer is, nor is a key that
\* its link jumps over.
Visited(L, D, k, Z) ==
  /\ Open(L) \subseteq D
  /\ \A n \in D : key[n] = k => Was(Z) /\ Had(Z, val[n])
  /\ \A n \in D : succ[n].mark = MARKED =>
       /\ succ[n].node \in D /\ back[n] \in D
       /\ key[n] = k => Gone(Z)
       /\ key[n] < k /\ k < key[succ[n].node] => Gone(Z)

FramesIn(D) ==
  \A w \in Thread : \A i \in 1 .. Len(stack[w]) :
    stack[w][i].del \in D => stack[w][i].prev \in D

\* What a call at l with frames s, locals r and history Z knows.
Knows(R, D, l, s, r, Z) ==
  /\ l \in Searching \cup Found =>
       /\ r.curr \in D /\ r.next \in R
       /\ key[r.next] = r.arg => r.next \in D \/ Gone(Z)
       /\ key[r.curr] < r.arg /\ r.arg < key[r.next] => Gone(Z)
  /\ l = "s_advance" => r.next \in D
  /\ l = "s_curr_next" => succ[r.curr].mark = MARKED
  /\ l \in Linking \cup Flagging \cup Helping => r.prev \in D
  /\ r.op = "delete" /\ r.node \in Node => r.node \in D \/ Gone(Z)
  /\ s # <<>> /\ s[Len(s)].ret = "lost" => s[Len(s)].del = r.node
  /\ s # <<>> /\ s[Len(s)].ret = "d_copy" => r.node \in D
  /\ l = "d_copy" => r.node \in D /\ key[r.node] = r.arg

HistOf(L, R, D, l, s, r, Z) ==
  IF l = "d_free" THEN Was(Z) /\ Had(Z, r.v)
  ELSE /\ D \subseteq R /\ Visited(L, D, r.arg, Z) /\ FramesIn(D)
       /\ Knows(R, D, l, s, r, Z)

\* A live node's backlink leads to the predecessor that its deletion flagged.
BackOk(L) ==
  \A w \in Thread : \A i \in 1 .. Len(stack[w]) :
    (i > 1 \/ pc[w] # "h_back") /\ stack[w][i].del \in Open(L) =>
      back[stack[w][i].del] = stack[w][i].prev

Hist(L, R, V) ==
  /\ BackOk(L)
  /\ \A u \in Thread : pc[u] # "idle" =>
       /\ Told(reg[u].arg, seen[u])
       /\ HistOf(L, R, V[u], pc[u], stack[u], reg[u], seen[u])

Known == \E L, R, sq, V : Inv(L, R, sq) /\ ValInv(L) /\ Hist(L, R, V)

\* What each step of t is to do.
Truthful(t) == /\ Known'
               /\ pc[t] # "idle" /\ pc'[t] = "idle" => Right(t)
               /\ \A u \in Thread : u # t => pc'[u] = pc[u]

-----------------------------------------------------------------------------
\* History tells each call what is the case after a step.
LEMMA SeenStep ==
  ASSUME History, NEW u \in Thread, pc'[u] # "idle"
  PROVE  seen[u] \subseteq seen'[u] /\ Told(reg[u].arg, seen[u])'
<1>1. seen'[u] = seen[u] \cup {<<"is", items'[reg'[u].arg]>>}
                    \cup {<<"update", reg'[w].v>> :
                            w \in {w \in Thread :
                                     /\ pc'[w] # "idle" /\ reg'[w].op = "update"
                                     /\ reg'[w].arg = reg'[u].arg}}
  BY DEF History
<1> QED BY <1>1 DEF Told

\* A key that no node of the list has, or only a marked one, is not bound.
LEMMA AbsentNow ==
  ASSUME NEW L, TypeInv, ListInv(L), NEW k \in Key, NEW Z, Told(k, Z),
         \A n \in Open(L) : key[n] # k
  PROVE  Gone(Z)
<1>1. \A n \in Live(L) : key[n] # k
  BY DEF Live, Open
<1>2. items[k] = None
  BY <1>1, ItemsNow DEF ItemsOk
<1> QED BY <1>2 DEF Told, Gone

\* A key that lies between a node of the list and its successor is not bound.
LEMMA GapNow ==
  ASSUME NEW L, TypeInv, ListInv(L), NEW k \in Key, NEW Z, Told(k, Z),
         NEW m \in L, m # TailN, key[m] < k, k < key[succ[m].node]
  PROVE  Gone(Z)
<1>1. ASSUME NEW n \in L, key[n] = k PROVE FALSE
  <2>1. key[succ[m].node] <= key[n]
    BY <1>1 DEF ListInv
  <2>2. succ[m].node \in L /\ L \subseteq Node
    BY DEF ListInv
  <2>3. key[n] \in Int /\ key[succ[m].node] \in Int
    BY <2>2, TypeFacts
  <2> QED BY <1>1, <2>1, <2>3
<1>2. \A n \in Open(L) : key[n] # k
  BY <1>1 DEF Open
<1> QED BY <1>2, AbsentNow

\* The value of a node in the list that is not marked is that of its key.
LEMMA BoundNow ==
  ASSUME NEW L, TypeInv, ListInv(L), ValInv(L), NEW k \in Key, NEW Z, Told(k, Z),
         NEW n \in Open(L), key[n] = k
  PROVE  Was(Z) /\ Had(Z, val[n])
<1>1. n # HeadN /\ n # TailN
  <2>1. key[HeadN] \notin Key /\ key[TailN] \notin Key
    BY TopFacts, NodeFacts DEF ListInv
  <2> QED BY <2>1
<1>2. n \in Live(L)
  BY <1>1 DEF Open, Live
<1>3. items[k] = val[n] /\ val[n] \in Value
  BY <1>1, <1>2, ItemsNow DEF ItemsOk, ValInv, Open
<1> QED BY <1>3 DEF Told, Was, Had

-----------------------------------------------------------------------------
\* A frame of a call of help_flagged for p and d that has set the backlink.
HasSet(w, d) == \E i \in 1 .. Len(stack[w]) :
  (i > 1 \/ pc[w] # "h_back") /\ stack[w][i].del = d

\* What a step does to the nodes R, when M and S are the new list and nodes.
Evolves(R, M, S) ==
  /\ R \subseteq S /\ \A n \in S \ R : n \in M /\ succ'[n].mark # MARKED
  /\ \A n \in R : key'[n] = key[n]
  /\ \A n \in R : succ[n].mark = MARKED => succ'[n] = succ[n]
  /\ \A n \in R : succ[n].mark # MARKED /\ succ'[n].mark = MARKED =>
       /\ n \in M /\ succ[n].mark = UNMARKED /\ succ'[n].node = succ[n].node
       /\ back'[n] = back[n] /\ \E w \in Thread : HasSet(w, n)
  /\ \A n \in R : \/ back'[n] = back[n]
                  \/ \E w \in Thread : \E i \in 1 .. Len(stack[w]) :
                       stack[w][i].del = n /\ stack[w][i].prev = back'[n]
  /\ \A n \in R : \/ val'[n] = val[n]
                  \/ \E w \in Thread :
                       /\ pc[w] # "idle" /\ reg[w].op = "update"
                       /\ reg[w].arg = key[n] /\ reg[w].v = val'[n]

\* What a step of t at l does to its frames: they become s.
FramesMove(R, t, l, s) ==
  \A i \in 1 .. Len(s) :
    \/ \E j \in 1 .. Len(stack[t]) :
         /\ s[i].prev = stack[t][j].prev /\ s[i].del = stack[t][j].del
         /\ \/ i = 1 /\ l = "h_back"
            \/ j > 1 \/ pc[t] # "h_back"
            \/ back'[s[i].del] = s[i].prev
    \/ /\ i = 1 /\ l = "h_back"
       /\ s[1].prev \in R /\ succ[s[1].prev].mark # MARKED

Moves(t, l, r, s) == /\ pc' = [pc EXCEPT ![t] = l]
                     /\ reg' = [reg EXCEPT ![t] = r]
                     /\ stack' = [stack EXCEPT ![t] = s]

\* The node of a frame is in R, and if it is live so is the predecessor, which
\* leads to it.
LEMMA FrameFacts ==
  ASSUME NEW L, NEW R, NEW sq, Inv(L, R, sq), NEW w \in Thread,
         NEW i \in 1 .. Len(stack[w])
  PROVE  /\ stack[w][i].prev \in R /\ stack[w][i].del \in R
         /\ succ[stack[w][i].del].mark # MARKED =>
              /\ Leads(stack[w][i].prev, stack[w][i].del, FLAGGED)
              /\ stack[w][i].prev \in L \ {TailN} /\ stack[w][i].prev \in Open(L)
              /\ stack[w][i].del \in Open(L)
<1>1. FrameOk(R, stack[w][i])
  BY DEF Inv, StackOk, FramesOk
<1> PICK p, d : p = stack[w][i].prev /\ d = stack[w][i].del
  OBVIOUS
<1>2. p \in R /\ d \in R
  BY <1>1 DEF FrameOk
<1>3. succ[d].mark # MARKED => Leads(p, d, FLAGGED)
  BY <1>1 DEF FrameOk
<1>4. ASSUME succ[d].mark # MARKED
      PROVE  p \in L /\ d \in L /\ succ[p].mark # MARKED /\ p # TailN
  BY <1>2, <1>3, <1>4 DEF Inv, RefInv, ListInv, Leads, MARKED, FLAGGED, UNMARKED
<1> QED BY <1>2, <1>3, <1>4 DEF Open

\* Two frames for the same live node have the same predecessor.
LEMMA FramesAgree ==
  ASSUME NEW L, NEW R, NEW sq, Inv(L, R, sq), NEW v \in Thread, NEW w \in Thread,
         NEW i \in 1 .. Len(stack[v]), NEW j \in 1 .. Len(stack[w]),
         stack[v][i].del = stack[w][j].del, succ[stack[v][i].del].mark # MARKED
  PROVE  stack[v][i].prev = stack[w][j].prev
<1> PICK p, q, d : p = stack[v][i].prev /\ q = stack[w][j].prev /\ d = stack[v][i].del
  OBVIOUS
<1>1. p \in L \ {TailN} /\ q \in L \ {TailN} /\ succ[p].node = d /\ succ[q].node = d
  BY FrameFacts DEF Leads
<1> QED BY <1>1, PredUnique DEF Inv

\* The nodes of R that are live after a step were live before it.
LEMMA OpenStep ==
  ASSUME NEW L, NEW R, NEW sq, Inv(L, R, sq), NEW M, NEW S, RefInv(M, S)',
         Evolves(R, M, S), NEW n \in Open(M)'
  PROVE  n \in S /\ (n \in R => n \in Open(L))
<1>1. n \in M /\ succ'[n].mark # MARKED
  BY DEF Open
<1>2. n \in S
  BY <1>1 DEF Inv, RefInv
<1>3. n \in R => succ[n].mark # MARKED
  BY <1>1 DEF Evolves
<1>4. n \in R => n \in L
  BY <1>3 DEF Inv, RefInv
<1> QED BY <1>2, <1>3, <1>4 DEF Open

LEMMA BackStep ==
  ASSUME NEW L, NEW R, NEW sq, Inv(L, R, sq), BackOk(L), NEW M, NEW S,
         RefInv(M, S)', Evolves(R, M, S), NEW t \in Thread, NEW l, NEW r, NEW s,
         Moves(t, l, r, s), FramesMove(R, t, l, s)
  PROVE  BackOk(M)'
<1> SUFFICES ASSUME NEW w \in Thread, NEW i \in 1 .. Len(stack'[w]),
                    i > 1 \/ pc'[w] # "h_back", stack'[w][i].del \in Open(M)'
             PROVE  back'[stack'[w][i].del] = stack'[w][i].prev
  BY DEF BackOk
<1> PICK p, d : p = stack'[w][i].prev /\ d = stack'[w][i].del
  OBVIOUS
<1>0. /\ w # t => pc'[w] = pc[w] /\ stack'[w] = stack[w]
      /\ w = t => pc'[w] = l /\ stack'[w] = s
  BY DEF Moves, Inv, TypeInv
<1>1. ASSUME back'[d] # p
      PROVE  \E j \in 1 .. Len(stack[w]) :
               /\ stack[w][j].prev = p /\ stack[w][j].del = d
               /\ j > 1 \/ pc[w] # "h_back"
  <2>1. CASE w # t
    BY <1>0, <2>1
  <2>2. CASE w = t
    BY <1>0, <1>1, <2>2 DEF FramesMove
  <2> QED BY <2>1, <2>2
<1>2. ASSUME NEW j \in 1 .. Len(stack[w]), stack[w][j].prev = p,
             stack[w][j].del = d, j > 1 \/ pc[w] # "h_back"
      PROVE  back'[d] = p
  <2>1. d \in R
    BY <1>2, FrameFacts
  <2>2. d \in Open(L)
    BY <2>1, OpenStep
  <2>3. back[d] = p
    BY <1>2, <2>2 DEF BackOk
  <2>4. ASSUME NEW v \in Thread, NEW k \in 1 .. Len(stack[v]),
               stack[v][k].del = d, stack[v][k].prev = back'[d]
        PROVE  back'[d] = p
    BY <1>2, <2>2, <2>4, FramesAgree DEF Open
  <2> QED BY <2>1, <2>3, <2>4 DEF Evolves
<1> QED BY <1>1, <1>2

-----------------------------------------------------------------------------
\* These three facts, before and after a step.
TellsOk ==
  \A L, Z : \A k \in Key : TypeInv /\ ListInv(L) /\ Told(k, Z) =>
    /\ (\A n \in Open(L) : key[n] # k) => Gone(Z)
    /\ \A m \in L : m # TailN /\ key[m] < k /\ k < key[succ[m].node] => Gone(Z)
    /\ ValInv(L) => \A n \in Open(L) : key[n] = k => Was(Z) /\ Had(Z, val[n])

LEMMA TellsNow == TellsOk
BY AbsentNow, GapNow, BoundNow DEF TellsOk

LEMMA TellsNext == TellsOk'
BY TellsNow, PTL

\* What a marked node says of the key after a step.
LEMMA MarkedStep ==
  ASSUME NEW L, NEW R, NEW sq, Inv(L, R, sq), BackOk(L), NEW M, NEW S, NEW tq,
         Inv(M, S, tq)', Evolves(R, M, S),
         NEW D \in SUBSET R, NEW k \in Key, NEW Z, Visited(L, D, k, Z), FramesIn(D),
         NEW Y, Z \subseteq Y, Told(k, Y)', NEW n \in D, succ'[n].mark = MARKED
  PROVE  /\ succ'[n].node \in D /\ back'[n] \in D
         /\ key'[n] = k => Gone(Y)
         /\ key'[n] < k /\ k < key'[succ'[n].node] => Gone(Y)
<1> PICK x : x = succ[n].node
  OBVIOUS
<1>0. Gone(Z) => Gone(Y)
  BY DEF Gone
<1>1. key'[n] = key[n] /\ \A m \in D : key'[m] = key[m]
  BY DEF Evolves
<1>2. \/ back'[n] = back[n]
      \/ \E w \in Thread : \E i \in 1 .. Len(stack[w]) :
           stack[w][i].del = n /\ stack[w][i].prev = back'[n]
  BY DEF Evolves
<1>3. (\E w \in Thread : \E i \in 1 .. Len(stack[w]) :
           stack[w][i].del = n /\ stack[w][i].prev = back'[n]) => back'[n] \in D
  BY DEF FramesIn
<1>4. CASE succ[n].mark = MARKED
  <2>1. succ'[n] = succ[n]
    BY <1>4 DEF Evolves
  <2>2. /\ x \in D /\ back[n] \in D
        /\ key[n] = k => Gone(Z)
        /\ key[n] < k /\ k < key[x] => Gone(Z)
    BY <1>4 DEF Visited
  <2> QED BY <1>0, <1>1, <1>2, <1>3, <2>1, <2>2
<1>5. CASE succ[n].mark # MARKED
  <2>1. /\ n \in M /\ succ[n].mark = UNMARKED /\ succ'[n].node = x
        /\ back'[n] = back[n] /\ \E w \in Thread : HasSet(w, n)
    BY <1>5 DEF Evolves
  <2>2. n \in L /\ n \in Open(L) /\ n # TailN
    <3>1. n \in R /\ (n \notin L => succ[n].mark = MARKED)
      BY DEF Inv, RefInv
    <3>2. n # TailN
      <4>1. key'[n] \in Key
        BY <2>1 DEF Inv, RefInv
      <4> QED BY <1>1, <4>1, TopFacts DEF Inv, ListInv
    <3> QED BY <1>5, <3>1, <3>2 DEF Open
  <2>3. back[n] \in D
    <3> PICK w \in Thread : HasSet(w, n)
      BY <2>1
    <3> PICK i \in 1 .. Len(stack[w]) :
               (i > 1 \/ pc[w] # "h_back") /\ stack[w][i].del = n
      BY DEF HasSet
    <3>1. back[n] = stack[w][i].prev
      BY <2>2 DEF BackOk
    <3>2. stack[w][i].prev \in Open(L)
      BY <1>5, FrameFacts
    <3> QED BY <3>1, <3>2 DEF Visited
  <2>4. x \in Open(L)
    <3>1. x \in L
      BY <2>2 DEF Inv, ListInv
    <3>2. ASSUME succ[x].mark = MARKED PROVE FALSE
      <4> PICK p \in L : Leads(p, x, FLAGGED)
        BY <3>1, <3>2 DEF Inv, FlagInv
      <4>1. p # TailN
        BY DEF Inv, ListInv, Leads, FLAGGED, UNMARKED
      <4>2. p = n
        BY <2>2, <4>1, PredUnique DEF Inv, Leads
      <4> QED BY <2>1, <4>2 DEF Leads, FLAGGED, UNMARKED
    <3> QED BY <3>1, <3>2 DEF Open
  <2>5. x \in D
    BY <2>4 DEF Visited
  <2>6. key[n] = k => Gone(Y)
    <3>1. ASSUME NEW m \in Open(M)', key'[m] = k, key[n] = k PROVE FALSE
      <4>1. m = n
        BY <1>1, <2>1, <3>1 DEF Inv, ListInv, Open
      <4> QED BY <4>1 DEF Open
    <3> QED BY <3>1, TellsNext DEF TellsOk, Inv
  <2>7. key[n] < k /\ k < key[x] => Gone(Y)
    <3>1. key'[x] = key[x]
      BY <1>1, <2>5
    <3> QED BY <1>1, <2>1, <2>2, <3>1, TellsNext DEF TellsOk, Inv
  <2> QED BY <1>1, <2>1, <2>3, <2>5, <2>6, <2>7
<1> QED BY <1>4, <1>5

\* What a call has visited, with the nodes that are new.
LEMMA VisitedStep ==
  ASSUME NEW L, NEW R, NEW sq, Inv(L, R, sq), BackOk(L), NEW M, NEW S, NEW tq,
         Inv(M, S, tq)', ValInv(M)', Evolves(R, M, S),
         NEW D \in SUBSET R, NEW k \in Key, NEW Z, Visited(L, D, k, Z), FramesIn(D),
         Told(k, Z), NEW Y, Z \subseteq Y, Told(k, Y)',
         NEW W, W = D \cup (S \ R)
  PROVE  W \subseteq S /\ Visited(M, W, k, Y)'
<1>1. D \subseteq S /\ W \subseteq S
  BY DEF Evolves
<1>2. Was(Z) => Was(Y)
  BY DEF Was
<1>3. ASSUME NEW n \in Open(M)' PROVE n \in W
  <2>1. n \in S /\ (n \in R => n \in Open(L))
    BY OpenStep DEF Inv
  <2> QED BY <2>1 DEF Visited
<1>4. ASSUME NEW n \in W, key'[n] = k PROVE Was(Y) /\ Had(Y, val'[n])
  <2>1. CASE n \in D
    <3>1. key[n] = k
      BY <1>4, <2>1 DEF Evolves
    <3>2. Was(Z) /\ Had(Z, val[n])
      BY <2>1, <3>1 DEF Visited
    <3>3. val'[n] = val[n] \/ <<"update", val'[n]>> \in Z
      BY <2>1, <3>1 DEF Evolves, Told
    <3> QED BY <1>2, <3>2, <3>3 DEF Had
  <2>2. CASE n \notin D
    <3>1. n \in Open(M)'
      BY <2>2 DEF Evolves, Open
    <3> QED BY <1>4, <3>1, TellsNext DEF TellsOk, Inv
  <2> QED BY <2>1, <2>2
<1>5. ASSUME NEW n \in W, succ'[n].mark = MARKED
      PROVE  /\ succ'[n].node \in W /\ back'[n] \in W
             /\ key'[n] = k => Gone(Y)
             /\ key'[n] < k /\ k < key'[succ'[n].node] => Gone(Y)
  <2>1. n \in D
    BY <1>5 DEF Evolves
  <2>2. /\ succ'[n].node \in D /\ back'[n] \in D
        /\ key'[n] = k => Gone(Y)
        /\ key'[n] < k /\ k < key'[succ'[n].node] => Gone(Y)
    BY <1>5, <2>1, MarkedStep
  <2> QED BY <2>2
<1> QED BY <1>1, <1>3, <1>4, <1>5 DEF Visited

LEMMA FramesInStep ==
  ASSUME NEW L, NEW R, NEW sq, Inv(L, R, sq), NEW M, NEW S, Evolves(R, M, S),
         NEW t \in Thread, NEW l, NEW r, NEW s,
         Moves(t, l, r, s), FramesMove(R, t, l, s),
         NEW D \in SUBSET R, Open(L) \subseteq D, FramesIn(D),
         NEW W, W = D \cup (S \ R)
  PROVE  FramesIn(W)'
<1> SUFFICES ASSUME NEW w \in Thread, NEW i \in 1 .. Len(stack'[w]),
                    stack'[w][i].del \in W
             PROVE  stack'[w][i].prev \in W
  BY DEF FramesIn
<1> PICK p, d : p = stack'[w][i].prev /\ d = stack'[w][i].del
  OBVIOUS
<1>1. \/ \E j \in 1 .. Len(stack[w]) : stack[w][j].prev = p /\ stack[w][j].del = d
      \/ p \in R /\ succ[p].mark # MARKED
  <2>1. CASE w # t
    BY <2>1 DEF Moves, Inv, TypeInv
  <2>2. CASE w = t
    <3>1. stack'[w] = s
      BY <2>2 DEF Moves, Inv, TypeInv
    <3> QED BY <2>2, <3>1 DEF FramesMove
  <2> QED BY <2>1, <2>2
<1>2. ASSUME NEW j \in 1 .. Len(stack[w]), stack[w][j].prev = p, stack[w][j].del = d
      PROVE  p \in W
  <2>1. d \in R
    BY <1>2, FrameFacts
  <2>2. d \in D
    BY <2>1
  <2> QED BY <1>2, <2>2 DEF FramesIn
<1>3. ASSUME p \in R, succ[p].mark # MARKED PROVE p \in W
  BY <1>3 DEF Open, Inv, RefInv
<1> QED BY <1>1, <1>2, <1>3

-----------------------------------------------------------------------------
\* What a call knows stays true.
LEMMA KnowsStep ==
  ASSUME NEW R, NEW M, NEW S, Evolves(R, M, S), NEW D \in SUBSET R,
         NEW l, NEW s, NEW r, NEW Z, Knows(R, D, l, s, r, Z),
         NEW Y, Z \subseteq Y, NEW W, D \subseteq W
  PROVE  Knows(S, W, l, s, r, Y)'
<1>1. R \subseteq S /\ \A n \in R : key'[n] = key[n]
  BY DEF Evolves
<1>2. Gone(Z) => Gone(Y)
  BY DEF Gone
<1>3. \A n \in R : succ[n].mark = MARKED => succ'[n] = succ[n]
  BY DEF Evolves
<1>4. l \in Searching \cup Found =>
        /\ r.curr \in W /\ r.next \in S
        /\ key'[r.next] = r.arg => r.next \in W \/ Gone(Y)
        /\ key'[r.curr] < r.arg /\ r.arg < key'[r.next] => Gone(Y)
  BY <1>1, <1>2 DEF Knows
<1>5. l = "s_curr_next" => succ'[r.curr].mark = MARKED
  BY <1>3 DEF Knows, Searching
<1>6. l = "d_copy" => r.node \in W /\ key'[r.node] = r.arg
  BY <1>1 DEF Knows
<1>7. /\ l = "s_advance" => r.next \in W
      /\ l \in Linking \cup Flagging \cup Helping => r.prev \in W
      /\ r.op = "delete" /\ r.node \in Node => r.node \in W \/ Gone(Y)
      /\ s # <<>> /\ s[Len(s)].ret = "lost" => s[Len(s)].del = r.node
      /\ s # <<>> /\ s[Len(s)].ret = "d_copy" => r.node \in W
  BY <1>2 DEF Knows
<1> QED BY <1>4, <1>5, <1>6, <1>7 DEF Knows

\* A step of a call that stays in progress as one for k.
LEMMA HistOfStep ==
  ASSUME NEW L, NEW R, NEW sq, Inv(L, R, sq), BackOk(L), NEW M, NEW S, NEW tq,
         Inv(M, S, tq)', ValInv(M)', Evolves(R, M, S),
         NEW t \in Thread, NEW l, NEW r, NEW s,
         Moves(t, l, r, s), FramesMove(R, t, l, s),
         NEW D, NEW a, NEW f, NEW z, NEW Z, z.arg \in Key \/ a = "d_free",
         Told(z.arg, Z), HistOf(L, R, D, a, f, z, Z),
         NEW Y, Z \subseteq Y, Told(z.arg, Y)', NEW W, W = D \cup (S \ R)
  PROVE  HistOf(M, S, W, a, f, z, Y)'
<1>1. CASE a = "d_free"
  <2>1. Was(Z) /\ Had(Z, z.v)
    BY <1>1 DEF HistOf
  <2>2. Was(Y) /\ Had(Y, z.v)
    BY <2>1 DEF Was, Had
  <2> QED BY <1>1, <2>2 DEF HistOf
<1>2. CASE a # "d_free"
  <2>1. /\ D \in SUBSET R /\ Visited(L, D, z.arg, Z) /\ FramesIn(D)
        /\ Knows(R, D, a, f, z, Z) /\ z.arg \in Key
    BY <1>2 DEF HistOf
  <2>2. W \subseteq S /\ Visited(M, W, z.arg, Y)'
    <3> PICK k \in Key : k = z.arg
      BY <2>1
    <3> QED BY <2>1, VisitedStep
  <2>3. FramesIn(W)'
    BY <2>1, FramesInStep DEF Visited
  <2>4. Knows(S, W, a, f, z, Y)'
    BY <2>1, KnowsStep
  <2> QED BY <1>2, <2>2, <2>3, <2>4 DEF HistOf
<1> QED BY <1>1, <1>2

\* What a step of t is to show for its own call.
Tells(R, D, t, l, r, s) ==
  \/ l = "idle"
  \/ /\ pc[t] \notin {"idle", "d_free"} /\ r.arg = reg[t].arg
     /\ IF l = "d_free" THEN Was(seen[t]) /\ Had(seen[t], r.v)
        ELSE Knows(R, D, l, s, r, seen[t])

\* A call in progress keeps what it knows through a step.
LEMMA GoesOn ==
  ASSUME NEW L, NEW R, NEW sq, Inv(L, R, sq), NEW V, Hist(L, R, V),
         NEW M, NEW S, NEW tq, Inv(M, S, tq)', ValInv(M)', Evolves(R, M, S),
         NEW t \in Thread, NEW l, NEW r, NEW s,
         Moves(t, l, r, s), FramesMove(R, t, l, s), History,
         NEW u \in Thread, pc'[u] # "idle", pc[u] # "idle",
         NEW a, NEW f, NEW z, a = pc'[u], f = stack'[u], z = reg'[u],
         z.arg = reg[u].arg, HistOf(L, R, V[u], a, f, z, seen[u]),
         NEW W, W = V[u] \cup (S \ R)
  PROVE  HistOf(M, S, W, pc[u], stack[u], reg[u], seen[u])'
<1>1. z.arg \in Key \/ a = "d_free"
  BY DEF Inv, RegOk
<1>2. Told(z.arg, seen[u]) /\ BackOk(L)
  BY DEF Hist
<1> PICK Y : Y = seen'[u]
  OBVIOUS
<1>3. seen[u] \subseteq Y /\ Told(reg[u].arg, seen[u])'
  BY SeenStep
<1>4. Told(z.arg, Y)'
  BY <1>3 DEF Told
<1>5. HistOf(M, S, W, a, f, z, Y)'
  BY <1>1, <1>2, <1>3, <1>4, HistOfStep
<1> QED BY <1>5

\* A step of t leaves the other calls with what they know.
LEMMA OthersGoOn ==
  ASSUME NEW L, NEW R, NEW sq, Inv(L, R, sq), NEW V, Hist(L, R, V),
         NEW M, NEW S, NEW tq, Inv(M, S, tq)', ValInv(M)', Evolves(R, M, S),
         NEW t \in Thread, NEW l, NEW r, NEW s,
         Moves(t, l, r, s), FramesMove(R, t, l, s), History,
         NEW u \in Thread, u # t, pc'[u] # "idle",
         NEW W, W = V[u] \cup (S \ R)
  PROVE  HistOf(M, S, W, pc[u], stack[u], reg[u], seen[u])'
<1> PICK a, f, z : a = pc[u] /\ f = stack[u] /\ z = reg[u]
  OBVIOUS
<1>1. pc'[u] = a /\ stack'[u] = f /\ reg'[u] = z
  BY DEF Moves, Inv, TypeInv
<1>2. pc[u] # "idle" /\ HistOf(L, R, V[u], a, f, z, seen[u])
  BY <1>1 DEF Hist
<1> QED BY <1>1, <1>2, GoesOn

\* The step of t gives it what it is to know.
LEMMA HistStep ==
  ASSUME NEW L, NEW R, NEW sq, Inv(L, R, sq), NEW V, Hist(L, R, V),
         NEW M, NEW S, NEW tq, Inv(M, S, tq)', ValInv(M)', Evolves(R, M, S),
         NEW t \in Thread, NEW l, NEW r, NEW s,
         Moves(t, l, r, s), FramesMove(R, t, l, s), Tells(R, V[t], t, l, r, s),
         History
  PROVE  Known'
<1> PICK W : W = [u \in Thread |-> V[u] \cup (S \ R)]
  OBVIOUS
<1>1. BackOk(M)'
  <2>1. BackOk(L)
    BY DEF Hist
  <2> QED BY <2>1, BackStep DEF Inv
<1>2. ASSUME NEW u \in Thread, pc'[u] # "idle"
      PROVE  /\ Told(reg[u].arg, seen[u])'
             /\ HistOf(M, S, W[u], pc[u], stack[u], reg[u], seen[u])'
  <2>1. seen[u] \subseteq seen'[u] /\ Told(reg[u].arg, seen[u])'
    BY <1>2, SeenStep
  <2> PICK X : X = W[u]
    OBVIOUS
  <2>2. X = V[u] \cup (S \ R)
    OBVIOUS
  <2>3. CASE u # t
    <3>1. HistOf(M, S, X, pc[u], stack[u], reg[u], seen[u])'
      BY <1>2, <2>2, <2>3, OthersGoOn
    <3> QED BY <2>1, <3>1
  <2>4. CASE u = t
    <3>1. pc'[u] = l /\ reg'[u] = r /\ stack'[u] = s
      BY <2>4 DEF Moves, Inv, TypeInv
    <3>2. HistOf(L, R, V[u], l, s, r, seen[u]) /\ pc[u] # "idle" /\ r.arg = reg[u].arg
      BY <1>2, <2>4, <3>1 DEF Tells, Hist, HistOf
    <3>3. HistOf(M, S, X, pc[u], stack[u], reg[u], seen[u])'
      BY <1>2, <2>2, <3>1, <3>2, GoesOn
    <3> QED BY <2>1, <3>3
  <2> QED BY <2>1, <2>3, <2>4
<1> QED BY <1>1, <1>2 DEF Known, Hist

-----------------------------------------------------------------------------
\* The list has values.
ValAll == \A M : TypeInv /\ ListInv(M) => ValInv(M)

LEMMA ValAllNow == Abstract => ValAll
<1> SUFFICES ASSUME Abstract, NEW M, TypeInv, ListInv(M) PROVE ValInv(M)
  BY DEF ValAll
<1> PICK L, R, sq : Inv(L, R, sq) /\ ValInv(L)
  BY DEF Abstract
<1>1. On(HeadN) = L /\ On(HeadN) = M
  BY ListPath DEF Inv
<1> QED BY <1>1

LEMMA ValAllNext == Abstract' => ValAll'
BY ValAllNow, PTL

\* A call in progress.
LEMMA BusyFacts ==
  ASSUME NEW L, NEW R, NEW sq, NEW V, Inv(L, R, sq), Hist(L, R, V),
         NEW t \in Thread, pc[t] \notin {"idle", "d_free"}
  PROVE  /\ V[t] \in SUBSET R /\ Visited(L, V[t], reg[t].arg, seen[t])
         /\ Knows(R, V[t], pc[t], stack[t], reg[t], seen[t])
         /\ Told(reg[t].arg, seen[t]) /\ reg[t].arg \in Key
         /\ pc[t] \notin Helping => stack[t] = <<>>
<1>1. /\ HistOf(L, R, V[t], pc[t], stack[t], reg[t], seen[t])
      /\ Told(reg[t].arg, seen[t])
  BY DEF Hist
<1>2. reg[t].arg \in Key /\ (pc[t] \notin Helping => stack[t] = <<>>)
  BY DEF Inv, RegOk, StackOk
<1> QED BY <1>1, <1>2 DEF HistOf

\* A step in the middle of the call of t.
LEMMA MiddleStep ==
  ASSUME NEW L, NEW R, NEW sq, NEW V, Inv(L, R, sq), Hist(L, R, V),
         NEW M, NEW S, NEW tq, Inv(M, S, tq)', ValAll', History, Evolves(R, M, S),
         NEW t \in Thread, NEW l, NEW r, NEW s,
         pc[t] \notin {"idle", "d_free"}, l \notin {"idle", "d_free"},
         r.arg = reg[t].arg,
         Moves(t, l, r, s), FramesMove(R, t, l, s),
         Knows(R, V[t], l, s, r, seen[t])
  PROVE  Truthful(t)
<1>1. ValInv(M)'
  BY DEF ValAll, Inv
<1>2. Tells(R, V[t], t, l, r, s)
  BY DEF Tells
<1>3. Known'
  BY <1>1, <1>2, HistStep
<1>4. pc'[t] = l /\ \A u \in Thread : u # t => pc'[u] = pc[u]
  BY DEF Moves, Inv, TypeInv
<1> QED BY <1>3, <1>4 DEF Truthful

\* The step with which the call of t returns.
LEMMA LastStep ==
  ASSUME NEW L, NEW R, NEW sq, NEW V, Inv(L, R, sq), Hist(L, R, V),
         NEW M, NEW S, NEW tq, Inv(M, S, tq)', ValAll', History, Evolves(R, M, S),
         NEW t \in Thread, NEW r, NEW s,
         Moves(t, "idle", r, s), s = <<>>, Right(t)
  PROVE  Truthful(t)
<1>1. ValInv(M)'
  BY DEF ValAll, Inv
<1>2. Tells(R, V[t], t, "idle", r, s)
  BY DEF Tells
<1>3. FramesMove(R, t, "idle", s)
  BY DEF FramesMove
<1>4. Known'
  BY <1>1, <1>2, <1>3, HistStep
<1>5. \A u \in Thread : u # t => pc'[u] = pc[u]
  BY DEF Moves, Inv, TypeInv
<1> QED BY <1>4, <1>5 DEF Truthful

\* Steps that leave the nodes alone.
LEMMA SameEvolves ==
  ASSUME NEW R, NEW M, UNCHANGED <<succ, back, key, val>>
  PROVE  Evolves(R, M, R)
BY DEF Evolves

LEMMA SameFrames ==
  ASSUME NEW R, NEW t, NEW l, NEW s, s = <<>>
  PROVE  FramesMove(R, t, l, s)
BY DEF FramesMove

\* A step of t outside help_flagged that only changes its locals.
LEMMA LocalTruth ==
  ASSUME NEW L, NEW R, NEW sq, NEW V, Inv(L, R, sq), Hist(L, R, V),
         NEW M, NEW S, NEW tq, Inv(M, S, tq)', ValAll', History, Evolves(R, M, S),
         NEW t \in Thread, NEW l, NEW r,
         pc[t] \notin {"idle", "d_free"} \cup Helping, l \notin {"idle", "d_free"},
         r.arg = reg[t].arg, Goto(t, l), reg' = [reg EXCEPT ![t] = r],
         UNCHANGED stack,
         Knows(R, V[t], l, <<>>, r, seen[t])
  PROVE  Truthful(t)
<1>0. stack[t] = <<>>
  BY BusyFacts
<1>1. stack' = [stack EXCEPT ![t] = <<>>]
  BY <1>0 DEF Inv, TypeInv
<1>2. Moves(t, l, r, <<>>)
  BY <1>1 DEF Goto, Moves
<1>3. FramesMove(R, t, l, <<>>)
  BY SameFrames
<1> QED BY <1>2, <1>3, MiddleStep

\* What the link of a node that t has visited tells.
LEMMA LinkTells ==
  ASSUME NEW L, NEW R, NEW sq, Inv(L, R, sq), NEW D \in SUBSET R, NEW k \in Key,
         NEW Z, Visited(L, D, k, Z), Told(k, Z), NEW c \in D, c # TailN,
         NEW x, x = succ[c].node
  PROVE  /\ x \in R
         /\ key[x] = k => x \in D \/ Gone(Z)
         /\ key[c] < k /\ k < key[x] => Gone(Z)
<1>1. x \in R
  BY DEF Inv, RefInv
<1>2. CASE succ[c].mark = MARKED
  BY <1>1, <1>2 DEF Visited
<1>3. CASE succ[c].mark # MARKED
  <2>1. c \in L
    BY <1>3 DEF Inv, RefInv
  <2>2. x \in L
    BY <2>1 DEF Inv, ListInv
  <2>3. ASSUME key[x] = k, x \notin D PROVE Gone(Z)
    <3>1. succ[x].mark = MARKED
      BY <2>2, <2>3 DEF Visited, Open
    <3>2. \A n \in Open(L) : key[n] # k
      BY <2>2, <2>3, <3>1 DEF Open, Inv, ListInv
    <3> QED BY <3>2, TellsNow DEF TellsOk, Inv
  <2>4. key[c] < k /\ k < key[x] => Gone(Z)
    BY <2>1, TellsNow DEF TellsOk, Inv
  <2> QED BY <1>1, <2>3, <2>4
<1> QED BY <1>2, <1>3

\* search_from has read the link of curr.
LEMMA SearchKnows ==
  ASSUME NEW L, NEW R, NEW sq, NEW V, Inv(L, R, sq), Hist(L, R, V),
         NEW t \in Thread, pc[t] \notin {"idle", "d_free"},
         NEW r, r.arg = reg[t].arg, r.op = reg[t].op, r.node = reg[t].node,
         r.curr \in V[t], r.curr # TailN, r.next = succ[r.curr].node,
         NEW l \in {"s_mark"} \cup Found
  PROVE  Knows(R, V[t], l, <<>>, r, seen[t])
<1>1. /\ V[t] \in SUBSET R /\ Visited(L, V[t], r.arg, seen[t])
      /\ Told(r.arg, seen[t]) /\ r.arg \in Key
      /\ r.op = "delete" /\ r.node \in Node => r.node \in V[t] \/ Gone(seen[t])
  BY BusyFacts DEF Knows
<1> PICK c, k, x : c = r.curr /\ k = r.arg /\ x = r.next
  OBVIOUS
<1>2. /\ x \in R
      /\ key[x] = k => x \in V[t] \/ Gone(seen[t])
      /\ key[c] < k /\ k < key[x] => Gone(seen[t])
  BY <1>1, LinkTells
<1>3. l \notin Linking \cup Flagging \cup Helping
                 \cup {"s_advance", "s_curr_next", "d_copy"}
  BY DEF Found, Linking, Flagging, Helping
<1> QED BY <1>1, <1>2, <1>3 DEF Knows

-----------------------------------------------------------------------------
\* search_from, whose curr and next are the same.
LEMMA StayKnows ==
  ASSUME NEW L, NEW R, NEW sq, NEW V, Inv(L, R, sq), Hist(L, R, V),
         NEW t \in Thread, pc[t] \in Searching,
         NEW r, r.arg = reg[t].arg, r.op = reg[t].op, r.node = reg[t].node,
         r.curr = reg[t].curr, r.next = reg[t].next,
         NEW l \in Searching \cup Found,
         l = "s_advance" => r.next \in V[t],
         l = "s_curr_next" => succ[r.curr].mark = MARKED
  PROVE  Knows(R, V[t], l, <<>>, r, seen[t])
<1>1. pc[t] \notin {"idle", "d_free"}
  BY DEF Searching
<1>2. Knows(R, V[t], pc[t], stack[t], reg[t], seen[t])
  BY <1>1, BusyFacts
<1>3. l \notin Linking \cup Flagging \cup Helping \cup {"d_copy"}
  BY DEF Searching, Found, Linking, Flagging, Helping
<1> QED BY <1>2, <1>3 DEF Knows

LEMMA StayTruth ==
  ASSUME NEW L, NEW R, NEW sq, NEW V, Inv(L, R, sq), Hist(L, R, V),
         Inv(L, R, sq)', ValAll', History,
         NEW t \in Thread, pc[t] \in Searching,
         NEW r, r.arg = reg[t].arg, r.op = reg[t].op, r.node = reg[t].node,
         r.curr = reg[t].curr, r.next = reg[t].next,
         NEW l \in Searching \cup Found, Local(t, l, r),
         l = "s_advance" => r.next \in V[t],
         l = "s_curr_next" => succ[r.curr].mark = MARKED
  PROVE  Truthful(t)
<1>1. pc[t] \notin {"idle", "d_free"} \cup Helping /\ l \notin {"idle", "d_free"}
  BY DEF Searching, Found, Helping
<1>2. Knows(R, V[t], l, <<>>, r, seen[t])
  BY StayKnows
<1>3. /\ Goto(t, l) /\ reg' = [reg EXCEPT ![t] = r]
      /\ UNCHANGED <<succ, back, key, val>> /\ UNCHANGED stack
  BY DEF Local, nodes
<1>4. Evolves(R, L, R)
  BY <1>3, SameEvolves
<1> QED BY <1>1, <1>2, <1>3, <1>4, LocalTruth

\* search_from reads the link of curr.
LEMMA LookTruth ==
  ASSUME NEW L, NEW R, NEW sq, NEW V, Inv(L, R, sq), Hist(L, R, V),
         Inv(L, R, sq)', ValAll', History,
         NEW t \in Thread, pc[t] \notin {"idle", "d_free"} \cup Helping,
         NEW r, r.arg = reg[t].arg, r.op = reg[t].op, r.node = reg[t].node,
         r.curr \in V[t], r.curr # TailN, r.next = succ[r.curr].node,
         NEW l \in {"s_mark"} \cup Found, Local(t, l, r)
  PROVE  Truthful(t)
<1>1. l \notin {"idle", "d_free"}
  BY DEF Found
<1>2. Knows(R, V[t], l, <<>>, r, seen[t])
  BY SearchKnows
<1>3. /\ Goto(t, l) /\ reg' = [reg EXCEPT ![t] = r]
      /\ UNCHANGED <<succ, back, key, val>> /\ UNCHANGED stack
  BY DEF Local, nodes
<1>4. Evolves(R, L, R)
  BY <1>3, SameEvolves
<1> QED BY <1>1, <1>2, <1>3, <1>4, LocalTruth

LEMMA SearchLocalTruth ==
  ASSUME NEW L, NEW R, NEW sq, NEW V, Inv(L, R, sq), Hist(L, R, V),
         ValAll', History, NEW t \in Thread,
         \/ SearchMark(t) \/ SearchCurrMark(t) \/ SearchCurrNext(t)
         \/ SearchBody(t) \/ SearchUnlink(t) \/ SearchReload(t)
         \/ SearchAdvance(t)
  PROVE  Truthful(t)
<1> PICK r, D, Z : r = reg[t] /\ D = V[t] /\ Z = seen[t]
  OBVIOUS
<1>0. pc[t] \in Searching
  BY DEF SearchMark, SearchCurrMark, SearchCurrNext, SearchBody, SearchUnlink,
         SearchReload, SearchAdvance, Searching
<1>1. Inv(L, R, sq)'
  BY SearchMarkInv, SearchCurrMarkInv, SearchCurrNextInv, SearchBodyInv,
     SearchUnlinkInv, SearchReloadInv, SearchAdvanceInv
<1>2. /\ D \in SUBSET R /\ Visited(L, D, r.arg, Z)
      /\ Knows(R, D, pc[t], stack[t], r, Z)
  BY <1>0, BusyFacts DEF Searching
<1>3. /\ r \in Reg /\ r.ret \in Found /\ r.curr # TailN
      /\ succ[r.curr] \in Link /\ succ[r.next] \in Link
      /\ Between(R, r) /\ key[r.next] \in Int /\ r.key \in Int /\ r.key < Top
  BY <1>0, SearchFacts
<1>4. r.curr \in D
  BY <1>0, <1>2 DEF Knows
<1>5. ASSUME NEW l \in Searching \cup Found, Branch(t, l),
             l = "s_advance" => r.next \in D,
             l = "s_curr_next" => succ[r.curr].mark = MARKED
      PROVE  Truthful(t)
  BY <1>0, <1>1, <1>5, StayTruth DEF Branch
<1>6. CASE SearchMark(t)
  <2>1. Branch(t, IF is_marked(succ[r.next]) THEN "s_curr_mark" ELSE "s_advance")
    BY <1>6 DEF SearchMark
  <2>2. CASE is_marked(succ[r.next])
    <3>1. Branch(t, "s_curr_mark")
      BY <2>1, <2>2
    <3> QED BY <1>5, <3>1 DEF Searching
  <2>3. CASE ~ is_marked(succ[r.next])
    <3>1. Branch(t, "s_advance")
      BY <2>1, <2>3
    <3>2. succ[r.next].mark # MARKED
      BY <1>3, <2>3, MarkFacts
    <3>3. r.next \in Open(L)
      BY <1>3, <3>2 DEF Between, Inv, RefInv, Open
    <3>4. r.next \in D
      BY <1>2, <3>3 DEF Visited
    <3> QED BY <1>5, <3>1, <3>4 DEF Searching
  <2> QED BY <2>2, <2>3
<1>7. CASE SearchCurrMark(t)
  <2>1. Branch(t, IF is_marked(succ[r.curr]) THEN "s_curr_next" ELSE "s_body")
    BY <1>7 DEF SearchCurrMark
  <2>2. CASE is_marked(succ[r.curr])
    <3>1. Branch(t, "s_curr_next")
      BY <2>1, <2>2
    <3>2. succ[r.curr].mark = MARKED
      BY <1>3, <2>2, MarkFacts
    <3> QED BY <1>5, <3>1, <3>2 DEF Searching
  <2>3. CASE ~ is_marked(succ[r.curr])
    <3>1. Branch(t, "s_body")
      BY <2>1, <2>3
    <3> QED BY <1>5, <3>1 DEF Searching
  <2> QED BY <2>2, <2>3
<1>8. CASE SearchCurrNext(t)
  <2>1. Branch(t, IF succ[r.curr].node # r.next THEN "s_body" ELSE "s_advance")
    BY <1>8 DEF SearchCurrNext
  <2>2. CASE succ[r.curr].node # r.next
    <3>1. Branch(t, "s_body")
      BY <2>1, <2>2
    <3> QED BY <1>5, <3>1 DEF Searching
  <2>3. CASE succ[r.curr].node = r.next
    <3>1. Branch(t, "s_advance")
      BY <2>1, <2>3
    <3>2. succ[r.curr].mark = MARKED
      BY <1>2, <1>8 DEF Knows, SearchCurrNext
    <3>3. r.next \in D
      BY <1>2, <1>4, <2>3, <3>2 DEF Visited
    <3> QED BY <1>5, <3>1, <3>3 DEF Searching
  <2> QED BY <2>2, <2>3
<1>9. CASE SearchBody(t)
  <2>1. Branch(t, IF succ[r.curr].node = r.next THEN "s_unlink" ELSE "s_reload")
    BY <1>9 DEF SearchBody
  <2>2. CASE succ[r.curr].node = r.next
    <3>1. Branch(t, "s_unlink")
      BY <2>1, <2>2
    <3> QED BY <1>5, <3>1 DEF Searching
  <2>3. CASE succ[r.curr].node # r.next
    <3>1. Branch(t, "s_reload")
      BY <2>1, <2>3
    <3> QED BY <1>5, <3>1 DEF Searching
  <2> QED BY <2>2, <2>3
<1>10. CASE SearchUnlink(t)
  <2> PICK z : z = [r EXCEPT !.tmp = succ[r.next].node]
    OBVIOUS
  <2>1. /\ z.arg = r.arg /\ z.op = r.op /\ z.node = r.node
        /\ z.curr = r.curr /\ z.next = r.next
    BY <1>3 DEF Reg
  <2>2. Local(t, "s_cas", z)
    BY <1>10 DEF SearchUnlink
  <2>3. "s_cas" \in Searching \cup Found
    BY DEF Searching
  <2> QED BY <1>0, <1>1, <2>1, <2>2, <2>3, StayTruth
<1>11. ASSUME NEW c \in D, c # TailN, NEW l \in {"s_mark"} \cup Found,
              Local(t, l, From(r, c))
       PROVE  Truthful(t)
  <2> PICK z : z = From(r, c)
    OBVIOUS
  <2>1. /\ z.arg = r.arg /\ z.op = r.op /\ z.node = r.node
        /\ z.curr = c /\ z.next = succ[c].node
    BY <1>3 DEF Reg, From
  <2>2. pc[t] \notin {"idle", "d_free"} \cup Helping
    BY <1>0 DEF Searching, Helping
  <2>3. Local(t, l, z)
    BY <1>11
  <2> QED BY <1>1, <1>11, <2>1, <2>2, <2>3, LookTruth
<1>12. CASE SearchReload(t)
  <2>1. Local(t, "s_mark", From(r, r.curr))
    BY <1>12 DEF SearchReload
  <2> QED BY <1>3, <1>4, <1>11, <2>1
<1>13. CASE SearchAdvance(t)
  <2>1. CASE key[r.next] <= r.key
    <3>1. Look(t, From(r, r.next)) /\ r.next \in D
      BY <1>2, <1>13, <2>1 DEF SearchAdvance, Knows
    <3>2. r.next # TailN
      BY <1>3, <2>1, TopFacts DEF Inv, ListInv
    <3>3. From(r, r.next).ret = r.ret
      BY <1>3 DEF From, Reg
    <3>4. Looked(From(r, r.next)) \in {"s_mark"} \cup Found
      BY <1>3, <3>3 DEF Looked
    <3> QED BY <1>11, <3>1, <3>2, <3>4 DEF Look
  <2>2. CASE ~ (key[r.next] <= r.key)
    <3>1. Branch(t, r.ret)
      BY <1>13, <2>2 DEF SearchAdvance
    <3>2. r.ret # "s_advance" /\ r.ret # "s_curr_next"
      BY <1>3 DEF Found
    <3> QED BY <1>3, <1>5, <3>1, <3>2
  <2> QED BY <2>1, <2>2
<1> QED BY <1>6, <1>7, <1>8, <1>9, <1>10, <1>12, <1>13

-----------------------------------------------------------------------------
\* What makes the result of a call right.
LEMMA RightNoent ==
  ASSUME NEW t, reg'[t].out = "noent", Gone(seen[t])
  PROVE  Right(t)
BY DEF Right, Gone

LEMMA RightExist ==
  ASSUME NEW t, reg'[t].out = "exist", Was(seen[t])
  PROVE  Right(t)
BY DEF Right, Was

LEMMA RightNomem ==
  ASSUME NEW t, reg'[t].out = "nomem"
  PROVE  Right(t)
BY DEF Right

LEMMA RightInsert ==
  ASSUME NEW t, reg'[t].out = "ok", reg[t].op = "insert", Gone(seen[t])
  PROVE  Right(t)
BY DEF Right, Gone

LEMMA RightUpdate ==
  ASSUME NEW t, reg'[t].out = "ok", reg[t].op = "update", Was(seen[t])
  PROVE  Right(t)
BY DEF Right, Was

LEMMA RightSearch ==
  ASSUME NEW t, reg'[t].out = "ok", reg[t].op = "search", Was(seen[t]),
         Had(seen[t], reg'[t].v)
  PROVE  Right(t)
BY DEF Right, Was, Had

LEMMA RightDelete ==
  ASSUME NEW t, reg'[t].out = "ok", reg[t].op = "delete", Was(seen[t]),
         Had(seen[t], reg[t].v)
  PROVE  Right(t)
BY DEF Right, Was, Had

-----------------------------------------------------------------------------
\* A marked node is unlinked, or it is not.
LEMMA UnlinkEvolves ==
  ASSUME NEW L, NEW R, NEW sq, Inv(L, R, sq), NEW p \in R, NEW n \in R,
         NEW m \in Maybe, succ[n].mark = MARKED, Unlinks(p, n, m), NEW M
  PROVE  Evolves(R, M, R)
<1>1. R \subseteq Node /\ p \in Node /\ n \in Maybe /\ TypeInv
  BY NodeFacts DEF Inv, RefInv
<1>2. Ref(m, UNMARKED).mark = UNMARKED /\ Ref(n, FLAGGED).mark = FLAGGED
  BY DEF Ref
<1>3. ASSUME NEW x \in Node
      PROVE  /\ succ'[x].mark = MARKED <=> succ[x].mark = MARKED
             /\ succ[x].mark = MARKED => succ'[x] = succ[x]
  <2>1. \/ succ'[x] = succ[x]
        \/ x = p /\ succ[p] = Ref(n, FLAGGED) /\ succ'[x] = Ref(m, UNMARKED)
    BY <1>1, <1>3 DEF Unlinks, TypeInv
  <2> QED BY <1>2, <2>1 DEF MARKED, FLAGGED, UNMARKED
<1> QED BY <1>1, <1>3 DEF Evolves, Unlinks

LEMMA SearchCasTruth ==
  ASSUME NEW L, NEW R, NEW sq, NEW V, Inv(L, R, sq), Hist(L, R, V),
         ValAll', History, NEW t \in Thread, SearchCas(t)
  PROVE  Truthful(t)
<1> PICK r : r = reg[t]
  OBVIOUS
<1> PICK M : M = Left(L, r.curr, r.next) /\ Inv(M, R, sq)'
  BY SearchCasInv
<1> PICK z : z = [r EXCEPT !.tmp = Null]
  OBVIOUS
<1>1. pc[t] \in Searching /\ pc[t] \in Marking /\ pc[t] = "s_cas"
  BY DEF SearchCas, Searching, Marking
<1>2. r \in Reg /\ Between(R, r) /\ succ[r.next].mark = MARKED
  BY <1>1, SearchFacts, MarkingFacts
<1>3. Unlinks(r.curr, r.next, r.tmp)
  BY DEF SearchCas, Unlinks
<1>4. r.curr \in R /\ r.next \in R /\ r.tmp \in Maybe
  BY <1>2, RegFields DEF Between
<1>5. Evolves(R, M, R)
  BY <1>2, <1>3, <1>4, UnlinkEvolves
<1>6. /\ z.arg = r.arg /\ z.op = r.op /\ z.node = r.node
      /\ z.curr = r.curr /\ z.next = r.next
  BY <1>2 DEF Reg
<1>7. /\ Goto(t, "s_reload") /\ reg' = [reg EXCEPT ![t] = z] /\ UNCHANGED stack
  BY <1>2 DEF SearchCas, Inv, TypeInv, Reg
<1>8. /\ "s_reload" \in Searching \cup Found
      /\ "s_reload" \notin {"idle", "d_free", "s_advance", "s_curr_next"}
      /\ pc[t] \notin {"idle", "d_free"} \cup Helping
  BY <1>1 DEF Searching, Helping
<1>9. Knows(R, V[t], "s_reload", <<>>, z, seen[t])
  BY <1>1, <1>6, <1>8, StayKnows
<1> QED BY <1>5, <1>6, <1>7, <1>8, <1>9, LocalTruth

\* help_flagged returns.
LEMMA TailFrames ==
  ASSUME NEW R, NEW t, NEW z \in Seq(HelpFrame), z # <<>>, stack[t] = z,
         pc[t] # "h_back", NEW l
  PROVE  FramesMove(R, t, l, Tail(z))
<1>1. /\ Len(Tail(z)) = Len(z) - 1 /\ Len(z) \in Nat
      /\ \A i \in 1 .. Len(z) - 1 : Tail(z)[i] = z[i + 1]
  BY Popped
<1> SUFFICES ASSUME NEW i \in 1 .. Len(Tail(z))
             PROVE  /\ i + 1 \in 1 .. Len(z) /\ Tail(z)[i] = z[i + 1]
  BY DEF FramesMove
<1>2. ASSUME NEW n \in Nat, NEW j \in 1 .. n - 1 PROVE j + 1 \in 1 .. n
  OBVIOUS
<1> QED BY <1>1, <1>2

LEMMA HelpCasTruth ==
  ASSUME NEW L, NEW R, NEW sq, NEW V, Inv(L, R, sq), Hist(L, R, V),
         ValAll', History, NEW t \in Thread, HelpCas(t)
  PROVE  Truthful(t)
<1> PICK s, f, D, Z : s = stack[t] /\ f = s[1] /\ D = V[t] /\ Z = seen[t]
  OBVIOUS
<1> PICK M : M = Left(L, f.prev, f.del) /\ Inv(M, R, sq)'
  BY HelpCasInv
<1>1. pc[t] \in Helping /\ pc[t] = "h_cas" /\ pc[t] \notin {"idle", "d_free"}
  BY DEF HelpCas, Helping
<1>2. /\ f \in HelpFrame /\ f.prev \in R /\ f.del \in R /\ f.next \in Maybe
      /\ s \in Seq(HelpFrame) /\ s # <<>>
  BY <1>1, HelpFacts DEF HelpFrame
<1>3. /\ TypeInv /\ TypeInv' /\ StackOk(L, R, pc[t], s, reg[t])
  BY DEF Inv
<1>4. succ[f.del].mark = MARKED
  BY <1>1, <1>3 DEF StackOk
<1>5. Evolves(R, M, R)
  <2>1. Unlinks(f.prev, f.del, f.next)
    BY DEF HelpCas, Unlinks, Top1
  <2> QED BY <1>2, <1>4, <2>1, UnlinkEvolves
<1> PICK z : z = Tail(s)
  OBVIOUS
<1>7. /\ stack' = [stack EXCEPT ![t] = z]
      /\ IF f.ret = "lost" THEN Return(t, "noent")
                           ELSE Goto(t, f.ret) /\ UNCHANGED reg
  BY Zenon DEF HelpCas, Resume, Top1
<1>8. /\ z # <<>> => f.ret = "h_test" /\ z[Len(z)].ret = s[Len(s)].ret
      /\ z = <<>> => /\ f.ret = s[Len(s)].ret /\ f = s[Len(s)]
                     /\ f.ret \in {"i_search", "i_back", "lost", "d_copy"}
  BY <1>1, LastFrame
<1>9. /\ OuterOk(L, s[Len(s)], reg[t])
      /\ Mine(reg[t]) \/ Target(R, reg[t])
  BY <1>1, HelpFacts
<1>10. /\ D \in SUBSET R /\ Visited(L, D, reg[t].arg, Z)
       /\ Knows(R, D, pc[t], s, reg[t], Z)
  BY <1>1, BusyFacts
<1>11. CASE f.ret = "lost"
  <2>1. z = <<>> /\ s[Len(s)] = f
    BY <1>8, <1>11
  <2>2. reg[t].node = f.del /\ reg[t].op = "delete"
    BY <1>2, <1>9, <1>10, <1>11, <2>1 DEF OuterOk, Knows
  <2>3. key[f.del] = reg[t].arg /\ f.del \in Node
    BY <1>2, <1>9, <2>2 DEF Mine, Target, Inv, RefInv
  <2>4. f.del \in D \/ Gone(Z)
    BY <1>10, <2>2, <2>3 DEF Knows
  <2>5. Gone(Z)
    BY <1>4, <1>10, <2>3, <2>4 DEF Visited
  <2> PICK r : r = [Idle EXCEPT !.out = "noent"]
    OBVIOUS
  <2>6. Moves(t, "idle", r, z)
    BY <1>7, <1>11 DEF Return, Goto, Moves
  <2>7. reg'[t].out = "noent"
    BY <1>3, <2>6 DEF Moves, TypeInv, Idle
  <2>8. Right(t)
    BY <2>5, <2>7, RightNoent
  <2> QED BY <1>5, <2>1, <2>6, <2>8, LastStep
<1>12. CASE f.ret # "lost"
  <2> PICK l, r : l = f.ret /\ r = reg[t]
    OBVIOUS
  <2>1. Moves(t, l, r, z)
    BY <1>3, <1>7, <1>12 DEF Goto, TypeInv, Moves
  <2>2. /\ l \in {"h_test", "i_search", "i_back", "d_copy"}
        /\ l \notin {"idle", "d_free"}
    BY <1>8, <1>12
  <2>3. l = "d_copy" => /\ r.node \in D /\ key[r.node] = r.arg
    <3> SUFFICES ASSUME l = "d_copy" PROVE r.node \in D /\ key[r.node] = r.arg
      OBVIOUS
    <3>1. s[Len(s)].ret = "d_copy"
      BY <1>8
    <3>2. r.node \in D /\ r.op = "delete"
      BY <1>2, <1>9, <1>10, <3>1 DEF Knows, OuterOk
    <3> QED BY <1>9, <3>2 DEF Mine, Target
  <2>4. Knows(R, D, l, z, r, Z)
    <3>1. z # <<>> /\ z[Len(z)].ret = "lost" => z[Len(z)].del = r.node
      <4>1. Tail(s) # <<>> => Tail(s)[Len(Tail(s))] = s[Len(s)]
        <5>1. ASSUME Tail(s) # <<>>
              PROVE  /\ Len(Tail(s)) = Len(s) - 1 /\ Len(s) \in Nat /\ Len(s) > 1
                     /\ \A i \in 1 .. Len(s) - 1 : Tail(s)[i] = s[i + 1]
          BY <1>2, <5>1, Popped
        <5>2. ASSUME NEW n \in Nat, n > 1
              PROVE  n - 1 \in 1 .. n - 1 /\ (n - 1) + 1 = n
          BY <5>2
        <5> QED BY <5>1, <5>2
      <4> QED BY <1>2, <1>10, <4>1 DEF Knows
    <3>2. z # <<>> /\ z[Len(z)].ret = "d_copy" => r.node \in D
      BY <1>2, <1>8, <1>10 DEF Knows
    <3>3. /\ r.prev \in D
          /\ r.op = "delete" /\ r.node \in Node => r.node \in D \/ Gone(Z)
      BY <1>1, <1>10 DEF Knows
    <3>4. l \notin Searching \cup Found \cup {"s_advance", "s_curr_next"}
      BY <2>2 DEF Searching, Found
    <3> QED BY <2>3, <3>1, <3>2, <3>3, <3>4 DEF Knows
  <2>5. FramesMove(R, t, l, z)
    BY <1>1, <1>2, TailFrames
  <2> QED BY <1>1, <1>5, <2>1, <2>2, <2>4, <2>5, MiddleStep
<1> QED BY <1>11, <1>12

-----------------------------------------------------------------------------
\* Frames of the same calls, and one more.
LEMMA AlikeMove ==
  ASSUME NEW R, NEW t, NEW s, Alike(stack[t], s), NEW l,
         pc[t] # "h_back" \/ back'[s[1].del] = s[1].prev
  PROVE  FramesMove(R, t, l, s)
<1> SUFFICES ASSUME NEW i \in 1 .. Len(s)
             PROVE  /\ i \in 1 .. Len(stack[t])
                    /\ s[i].prev = stack[t][i].prev /\ s[i].del = stack[t][i].del
                    /\ i > 1 \/ pc[t] # "h_back" \/ back'[s[i].del] = s[i].prev
  BY DEF FramesMove
<1>1. i \in 1 .. Len(stack[t])
  BY DEF Alike
<1>2. i > 1 \/ i = 1
  <2>1. ASSUME NEW n, NEW j \in 1 .. n PROVE j > 1 \/ j = 1
    OBVIOUS
  <2> QED BY <2>1
<1> QED BY <1>1, <1>2 DEF Alike

LEMMA PushMove ==
  ASSUME NEW R, NEW t, NEW z \in Seq(HelpFrame), stack[t] = z, pc[t] # "h_back",
         NEW p \in R, succ[p].mark # MARKED, NEW d, NEW l,
         Frame(p, d, l) \in HelpFrame
  PROVE  FramesMove(R, t, "h_back", <<Frame(p, d, l)>> \o z)
<1> PICK f, s : f = Frame(p, d, l) /\ s = <<f>> \o z
  OBVIOUS
<1>1. /\ Len(s) = Len(z) + 1 /\ s[1] = f /\ Len(z) \in Nat
      /\ \A i \in 2 .. Len(z) + 1 : s[i] = z[i - 1]
  BY Pushed
<1>2. f.prev = p
  BY DEF Frame
<1>3. ASSUME NEW n \in Nat, NEW i \in 1 .. n + 1, i # 1
      PROVE  i - 1 \in 1 .. n /\ i \in 2 .. n + 1
  BY <1>3
<1>4. ASSUME NEW i \in 1 .. Len(s)
      PROVE  \/ \E j \in 1 .. Len(z) :
                  s[i].prev = z[j].prev /\ s[i].del = z[j].del
             \/ i = 1 /\ s[1].prev \in R /\ succ[s[1].prev].mark # MARKED
  <2>1. CASE i = 1
    BY <1>1, <1>2, <2>1
  <2>2. CASE i # 1
    <3>1. i - 1 \in 1 .. Len(z) /\ s[i] = z[i - 1]
      BY <1>1, <1>3, <2>2
    <3> QED BY <3>1
  <2> QED BY <2>1, <2>2
<1> QED BY <1>4 DEF FramesMove

\* A step in help_flagged, with the same outermost frame.
LEMMA HelpTruth ==
  ASSUME NEW L, NEW R, NEW sq, NEW V, Inv(L, R, sq), Hist(L, R, V),
         Inv(L, R, sq)', ValAll', History, Evolves(R, L, R),
         NEW t \in Thread, pc[t] \in Helping, NEW l \in Helping,
         pc' = [pc EXCEPT ![t] = l], UNCHANGED reg,
         NEW s, stack' = [stack EXCEPT ![t] = s], s # <<>>,
         s[Len(s)].ret = stack[t][Len(stack[t])].ret,
         s[Len(s)].del = stack[t][Len(stack[t])].del,
         FramesMove(R, t, l, s)
  PROVE  Truthful(t)
<1> PICK r : r = reg[t]
  OBVIOUS
<1>1. Moves(t, l, r, s)
  BY DEF Moves, Inv, TypeInv
<1>2. pc[t] \notin {"idle", "d_free"} /\ l \notin {"idle", "d_free"}
  BY DEF Helping
<1>3. Knows(R, V[t], pc[t], stack[t], r, seen[t]) /\ stack[t] # <<>>
  BY <1>2, BusyFacts, HelpFacts
<1>4. l \notin Searching \cup Found \cup {"s_advance", "s_curr_next", "d_copy"}
  BY DEF Searching, Found, Helping
<1>5. Knows(R, V[t], l, s, r, seen[t])
  BY <1>3, <1>4 DEF Knows
<1> QED BY <1>1, <1>2, <1>5, MiddleStep

LEMMA HelpLocalTruth ==
  ASSUME NEW L, NEW R, NEW sq, NEW V, Inv(L, R, sq), Hist(L, R, V),
         ValAll', History, NEW t \in Thread,
         \/ HelpBack(t) \/ HelpTest(t) \/ TryMarkNext(t) \/ TryMarkResult(t)
         \/ HelpUnlink(t)
  PROVE  Truthful(t)
<1>1. Inv(L, R, sq)'
  BY HelpBackInv, HelpTestInv, TryMarkNextInv, TryMarkResultInv, HelpUnlinkInv
<1>2. /\ pc[t] \in Helping
      /\ {"h_back", "h_test", "h_unlink", "h_next", "h_mark", "h_cas"}
           \subseteq Helping
  BY DEF HelpBack, HelpTest, TryMarkNext, TryMarkResult, HelpUnlink, Helping
<1> PICK z : z = stack[t]
  OBVIOUS
<1>3. /\ z \in Seq(HelpFrame) /\ z # <<>> /\ Len(z) \in Nat /\ Len(z) >= 1
      /\ succ[z[1].del] \in Link /\ succ[z[1].del].node \in Node
      /\ z[1].del \in Node /\ z[1].del \in R /\ stack = [stack EXCEPT ![t] = z]
  BY <1>2, HelpFacts DEF Inv, TypeInv
<1>4. CASE HelpTest(t)
  <2> PICK l \in Helping : pc' = [pc EXCEPT ![t] = l]
    BY <1>2, <1>4 DEF HelpTest, Branch, Local, Goto
  <2>1. UNCHANGED <<succ, back, key, val, reg, stack>>
    <3>1. reg = [reg EXCEPT ![t] = reg[t]]
      BY DEF Inv, TypeInv
    <3> QED BY <1>4, <3>1 DEF HelpTest, Branch, Local, nodes
  <2>2. Evolves(R, L, R)
    BY <2>1, SameEvolves
  <2>3. FramesMove(R, t, l, z)
    BY <1>4, AlikeMove DEF Alike, HelpTest
  <2> QED BY <1>1, <1>2, <1>3, <2>1, <2>2, <2>3, HelpTruth
<1>5. CASE HelpBack(t)
  <2>1. /\ pc' = [pc EXCEPT ![t] = "h_test"] /\ pc[t] = "h_back"
        /\ back' = [back EXCEPT ![z[1].del] = z[1].prev]
        /\ UNCHANGED <<succ, key, val, reg, stack>>
    BY <1>5 DEF HelpBack, Goto, Top1
  <2>2. back'[z[1].del] = z[1].prev /\ \A n \in R : n # z[1].del => back'[n] = back[n]
    BY <1>3, <2>1 DEF Inv, TypeInv, RefInv
  <2>3. 1 \in 1 .. Len(stack[t])
    BY <1>3
  <2>4. Evolves(R, L, R)
    BY <2>1, <2>2, <2>3 DEF Evolves
  <2>5. FramesMove(R, t, "h_test", z)
    BY <2>2, AlikeMove DEF Alike
  <2> QED BY <1>1, <1>2, <1>3, <2>1, <2>4, <2>5, HelpTruth
<1>6. CASE TryMarkNext(t) \/ HelpUnlink(t)
  <2> PICK n : n = succ[z[1].del].node
    OBVIOUS
  <2> PICK s : s = [z EXCEPT ![1].next = n]
    OBVIOUS
  <2>1. n \in Maybe
    BY <1>3, NodeFacts
  <2>2. s \in Seq(HelpFrame) /\ Alike(z, s)
    BY <1>3, <2>1, NextAlike
  <2>3. /\ Len(s) = Len(z) /\ s[Len(s)].ret = z[Len(z)].ret /\ s # <<>>
        /\ s[Len(s)].del = z[Len(z)].del
    BY <1>3, <2>2, EmptySeq DEF Alike
  <2>4. stack' = [stack EXCEPT ![t] = s]
    BY <1>6, Zenon DEF TryMarkNext, HelpUnlink, Top1
  <2>5. /\ \E l \in Helping : Goto(t, l)
        /\ UNCHANGED <<succ, back, key, val, reg>> /\ pc[t] # "h_back"
    BY <1>2, <1>6 DEF TryMarkNext, HelpUnlink, nodes
  <2> PICK l \in Helping : pc' = [pc EXCEPT ![t] = l]
    BY <2>5 DEF Goto
  <2>6. Evolves(R, L, R)
    BY <2>5, SameEvolves
  <2>7. FramesMove(R, t, l, s)
    BY <2>2, <2>5, AlikeMove
  <2> QED BY <1>1, <1>2, <2>3, <2>4, <2>5, <2>6, <2>7, HelpTruth
<1>7. CASE TryMarkResult(t)
  <2>1. UNCHANGED <<succ, back, key, val, reg>> /\ pc[t] # "h_back"
    BY <1>7 DEF TryMarkResult, nodes
  <2>2. Evolves(R, L, R)
    BY <2>1, SameEvolves
  <2>3. CASE Goto(t, "h_test") /\ UNCHANGED stack
    <3>1. /\ pc' = [pc EXCEPT ![t] = "h_test"] /\ "h_test" \in Helping
          /\ stack' = [stack EXCEPT ![t] = z] /\ z # <<>>
      BY <1>2, <1>3, <2>3 DEF Goto
    <3>2. FramesMove(R, t, "h_test", z)
      BY <2>1, AlikeMove DEF Alike
    <3> QED BY <1>1, <1>2, <2>1, <2>2, <3>1, <3>2, HelpTruth
  <2>4. CASE /\ Help(t, Top1(t).del, succ[Top1(t).del].node, "h_test")
             /\ ~ is_marked(succ[Top1(t).del])
    <3> PICK p, d : p = z[1].del /\ d = succ[z[1].del].node
      OBVIOUS
    <3> PICK s : s = <<Frame(p, d, "h_test")>> \o z
      OBVIOUS
    <3>1. Frame(p, d, "h_test") \in HelpFrame
      BY <1>3, FrameType
    <3>2. s # <<>> /\ s[Len(s)] = z[Len(z)]
      BY <1>3, <3>1, Pushed
    <3>3. stack' = [stack EXCEPT ![t] = s] /\ pc' = [pc EXCEPT ![t] = "h_back"]
      BY <2>4, Zenon DEF Help, Goto, Top1
    <3>4. p \in R /\ succ[p].mark # MARKED
      BY <1>3, <2>4, MarkFacts DEF Top1
    <3>5. FramesMove(R, t, "h_back", s)
      BY <1>3, <2>1, <3>1, <3>4, PushMove
    <3> QED BY <1>1, <1>2, <2>1, <2>2, <3>2, <3>3, <3>5, HelpTruth
  <2> QED BY <1>7, <2>3, <2>4, Zenon DEF TryMarkResult
<1> QED BY <1>4, <1>5, <1>6, <1>7

\* try_mark marks the node, or it does not.
LEMMA TryMarkCasTruth ==
  ASSUME NEW L, NEW R, NEW sq, NEW V, Inv(L, R, sq), Hist(L, R, V),
         ValAll', History, NEW t \in Thread, TryMarkCas(t)
  PROVE  Truthful(t)
<1> PICK s : s = stack[t]
  OBVIOUS
<1> PICK p, d, m : p = s[1].prev /\ d = s[1].del /\ m = s[1].next
  OBVIOUS
<1>1. pc[t] = "h_mark" /\ pc[t] \in Helping /\ "h_result" \in Helping
  BY DEF TryMarkCas, Helping
<1>2. Inv(L, R, sq)'
  BY TryMarkCasInv
<1>3. /\ s # <<>> /\ s[1] \in HelpFrame /\ FrameOk(R, s[1])
      /\ d \in R /\ d \in Node /\ p \in R /\ succ[d] \in Link
      /\ Len(s) \in Nat /\ Len(s) >= 1
  BY <1>1, HelpFacts
<1>4. TypeInv /\ RefInv(L, R) /\ R \subseteq Node
  BY DEF Inv, RefInv
<1>5. /\ succ' = IF succ[d] = Ref(m, UNMARKED)
                 THEN [succ EXCEPT ![d] = Ref(m, MARKED)] ELSE succ
      /\ pc' = [pc EXCEPT ![t] = "h_result"]
      /\ UNCHANGED <<back, key, val, reg, stack>>
  BY DEF TryMarkCas, Top1, Goto
<1>6. Evolves(R, L, R)
  <2>1. CASE succ[d] # Ref(m, UNMARKED)
    BY <1>5, <2>1, SameEvolves
  <2>2. CASE succ[d] = Ref(m, UNMARKED)
    <3>1. succ[d].mark = UNMARKED /\ succ[d].node = m
      BY <2>2 DEF Ref
    <3>2. d \in L
      BY <1>3, <1>4, <3>1 DEF RefInv, MARKED, UNMARKED
    <3>3. /\ succ'[d].node = m
          /\ \A n \in R : n # d => succ'[n] = succ[n]
      BY <1>3, <1>4, <1>5, <2>2 DEF TypeInv, Ref
    <3>4. HasSet(t, d)
      <4>1. 1 \in 1 .. Len(stack[t])
        BY <1>3
      <4> QED BY <1>1, <4>1 DEF HasSet
    <3> QED BY <1>5, <3>1, <3>2, <3>3, <3>4 DEF Evolves, MARKED, UNMARKED
  <2> QED BY <2>1, <2>2
<1>7. stack' = [stack EXCEPT ![t] = s] /\ FramesMove(R, t, "h_result", s)
  <2>1. FramesMove(R, t, "h_result", s)
    BY <1>1, AlikeMove DEF Alike
  <2> QED BY <1>4, <1>5, <2>1 DEF TypeInv
<1> QED BY <1>1, <1>2, <1>3, <1>5, <1>6, <1>7, HelpTruth

-----------------------------------------------------------------------------
\* A thread that links or flags goes on, from a prev that it has visited.
LEMMA PrevKnows ==
  ASSUME NEW L, NEW R, NEW sq, NEW V, Inv(L, R, sq), Hist(L, R, V),
         NEW t \in Thread, pc[t] \notin {"idle", "d_free"},
         NEW r, r.arg = reg[t].arg, r.op = reg[t].op, r.prev \in V[t],
         r.op = "delete" /\ r.node \in Node => r.node \in V[t] \/ Gone(seen[t]),
         NEW l \in Linking \cup Flagging
  PROVE  Knows(R, V[t], l, <<>>, r, seen[t])
<1>1. l \notin Searching \cup Found \cup {"s_advance", "s_curr_next", "d_copy"}
  BY DEF Searching, Found, Linking, Flagging
<1> QED BY <1>1 DEF Knows

\* The prev of a thread that links or flags, and the node that one deletes.
LEMMA PrevVisited ==
  ASSUME NEW L, NEW R, NEW sq, NEW V, Inv(L, R, sq), Hist(L, R, V),
         NEW t \in Thread, pc[t] \notin {"idle", "d_free"}
  PROVE  /\ pc[t] \in Linking \cup Flagging => reg[t].prev \in V[t]
         /\ reg[t].op = "delete" /\ reg[t].node \in Node
              => reg[t].node \in V[t] \/ Gone(seen[t])
         /\ pc[t] \in Found => reg[t].curr \in V[t]
BY BusyFacts DEF Knows

LEMMA PrevTruth ==
  ASSUME NEW L, NEW R, NEW sq, NEW V, Inv(L, R, sq), Hist(L, R, V),
         NEW M, NEW S, NEW tq, Inv(M, S, tq)', ValAll', History, Evolves(R, M, S),
         NEW t \in Thread, pc[t] \in Linking \cup Flagging \cup Found,
         NEW r, r.arg = reg[t].arg, r.op = reg[t].op, r.prev \in V[t],
         r.op = "delete" /\ r.node \in Node => r.node \in V[t] \/ Gone(seen[t]),
         NEW l \in Linking \cup Flagging,
         Goto(t, l), reg' = [reg EXCEPT ![t] = r], UNCHANGED stack
  PROVE  Truthful(t)
<1>1. pc[t] \notin {"idle", "d_free"} \cup Helping /\ l \notin {"idle", "d_free"}
  BY DEF Linking, Flagging, Found, Helping
<1>2. Knows(R, V[t], l, <<>>, r, seen[t])
  BY <1>1, PrevKnows
<1> QED BY <1>1, <1>2, LocalTruth

\* A call of help_flagged for p and d, which returns to l, with locals r.
Helps(R, D, t, p, d, l, r) ==
  /\ p \in R /\ succ[p].mark # MARKED /\ d \in R
  /\ l \in {"i_search", "i_back", "lost", "d_copy"} /\ Help(t, p, d, l)
  /\ reg' = [reg EXCEPT ![t] = r]
  /\ r.arg = reg[t].arg /\ r.op = reg[t].op /\ r.node = reg[t].node /\ r.prev \in D
  /\ l = "lost" => d = r.node
  /\ l = "d_copy" => r.node \in D

\* A thread outside help_flagged calls it.
LEMMA FirstHelp ==
  ASSUME NEW L, NEW R, NEW sq, NEW V, Inv(L, R, sq), Hist(L, R, V),
         Inv(L, R, sq)', ValAll', History, Evolves(R, L, R),
         NEW t \in Thread, pc[t] \notin {"idle", "d_free"} \cup Helping,
         NEW p, NEW d, NEW l, NEW r, Helps(R, V[t], t, p, d, l, r)
  PROVE  Truthful(t)
<1>0. /\ p \in R /\ succ[p].mark # MARKED /\ d \in R
      /\ l \in {"i_search", "i_back", "lost", "d_copy"} /\ Help(t, p, d, l)
      /\ reg' = [reg EXCEPT ![t] = r]
      /\ r.arg = reg[t].arg /\ r.op = reg[t].op /\ r.node = reg[t].node
      /\ r.prev \in V[t]
      /\ l = "lost" => d = r.node
      /\ l = "d_copy" => r.node \in V[t]
  BY DEF Helps
<1> PICK f, s : f = Frame(p, d, l) /\ s = <<f>> \o <<>>
  OBVIOUS
<1>1. stack[t] = <<>> /\ <<>> \in Seq(HelpFrame)
  BY BusyFacts
<1>2. f \in HelpFrame /\ f.del = d /\ f.ret = l
  <2>1. p \in Node /\ d \in Node
    BY <1>0 DEF Inv, RefInv
  <2>2. l \in {"h_test", "i_search", "i_back", "lost", "d_copy"}
    BY <1>0
  <2> QED BY <2>1, <2>2, FrameType
<1>3. s # <<>> /\ Len(s) = 1 /\ s[1] = f
  BY <1>1, <1>2, Pushed
<1>4. Moves(t, "h_back", r, s)
  <2>1. stack' = [stack EXCEPT ![t] = <<f>> \o stack[t]]
    BY <1>0 DEF Help, Inv, TypeInv
  <2> QED BY <1>0, <1>1, <2>1 DEF Help, Goto, Moves
<1>5. FramesMove(R, t, "h_back", s)
  <2>1. pc[t] # "h_back"
    BY DEF Helping
  <2> QED BY <1>0, <1>1, <1>2, <2>1, PushMove
<1>6. r.op = "delete" /\ r.node \in Node => r.node \in V[t] \/ Gone(seen[t])
  BY <1>0, PrevVisited
<1>7. "h_back" \notin Searching \cup Found \cup {"s_advance", "s_curr_next", "d_copy"}
                        \cup {"idle", "d_free"}
  BY DEF Searching, Found
<1>8. Knows(R, V[t], "h_back", s, r, seen[t])
  BY <1>0, <1>2, <1>3, <1>6, <1>7 DEF Knows
<1> QED BY <1>0, <1>4, <1>5, <1>7, <1>8, MiddleStep

\* while (is_marked_atomic(prev->succ)) prev = prev->backlink
LEMMA GoBackTruth ==
  ASSUME NEW L, NEW R, NEW sq, NEW V, Inv(L, R, sq), Hist(L, R, V),
         ValAll', History, NEW t \in Thread,
         GoBack(t, "i_back", "i_search") \/ GoBack(t, "f_back", "f_search")
  PROVE  Truthful(t)
<1> PICK r, D : r = reg[t] /\ D = V[t]
  OBVIOUS
<1>1. Inv(L, R, sq)'
  BY GoBackInv
<1>2. /\ pc[t] \in Linking \cup Flagging /\ pc[t] \notin {"idle", "d_free"}
      /\ {"i_back", "i_search", "f_back", "f_search"} \subseteq Linking \cup Flagging
  BY DEF GoBack, Linking, Flagging
<1>3. /\ r \in Reg /\ r.prev \in R /\ succ[r.prev] \in Link
  BY <1>2, PrevFacts
<1>4. /\ r.prev \in D /\ Visited(L, D, r.arg, seen[t])
      /\ r.op = "delete" /\ r.node \in Node => r.node \in D \/ Gone(seen[t])
  BY <1>2, PrevVisited, BusyFacts
<1>5. ASSUME NEW l \in Linking \cup Flagging, NEW z, z.arg = r.arg, z.op = r.op,
             z.node = r.node, z.prev \in D, Local(t, l, z)
      PROVE  Truthful(t)
  <2>1. /\ Goto(t, l) /\ reg' = [reg EXCEPT ![t] = z]
        /\ UNCHANGED <<succ, back, key, val>> /\ UNCHANGED stack
    BY <1>5 DEF Local, nodes
  <2>2. Evolves(R, L, R)
    BY <2>1, SameEvolves
  <2>3. z.op = "delete" /\ z.node \in Node => z.node \in D \/ Gone(seen[t])
    BY <1>4, <1>5
  <2> QED BY <1>1, <1>2, <1>5, <2>1, <2>2, <2>3, PrevTruth
<1>6. CASE is_marked(succ[r.prev])
  <2> PICK z : z = [r EXCEPT !.prev = back[r.prev]]
    OBVIOUS
  <2>1. z.arg = r.arg /\ z.op = r.op /\ z.node = r.node /\ z.prev = back[r.prev]
    BY <1>3 DEF Reg
  <2>2. succ[r.prev].mark = MARKED
    BY <1>3, <1>6, MarkFacts
  <2>3. z.prev \in D
    BY <1>4, <2>1, <2>2 DEF Visited
  <2>4. Local(t, "i_back", z) \/ Local(t, "f_back", z)
    BY <1>6 DEF GoBack
  <2> QED BY <1>2, <1>5, <2>1, <2>3, <2>4
<1>7. CASE ~ is_marked(succ[r.prev])
  <2>1. Local(t, "i_search", r) \/ Local(t, "f_search", r)
    BY <1>7 DEF GoBack, Branch
  <2> QED BY <1>2, <1>4, <1>5, <2>1
<1> QED BY <1>6, <1>7

\* search_from in the middle of a call.
LEMMA AgainTruth ==
  ASSUME NEW L, NEW R, NEW sq, NEW V, Inv(L, R, sq), Hist(L, R, V),
         ValAll', History, NEW t \in Thread, InsertSearch(t) \/ FlagSearch(t)
  PROVE  Truthful(t)
<1> PICK r : r = reg[t]
  OBVIOUS
<1>1. Inv(L, R, sq)'
  BY InsertSearchInv, FlagSearchInv
<1>2. /\ pc[t] \in Linking \cup Flagging
      /\ pc[t] \notin {"idle", "d_free"} \cup Helping
  BY DEF InsertSearch, FlagSearch, Linking, Flagging, Helping
<1>3. r \in Reg /\ r.prev \in R /\ r.prev # TailN /\ r.prev \in V[t]
  BY <1>2, PrevFacts, PrevVisited
<1>4. {"i_again", "f_again"} \subseteq Found
  BY DEF Found
<1> PICK k, l : l \in Found /\ SearchAgain(t, k, l)
  BY <1>4 DEF InsertSearch, FlagSearch
<1> PICK z : z = From([r EXCEPT !.key = k, !.ret = l], r.prev)
  OBVIOUS
<1>5. /\ z.arg = r.arg /\ z.op = r.op /\ z.node = r.node /\ z.ret = l
      /\ z.curr = r.prev /\ z.next = succ[r.prev].node
  BY <1>3 DEF From, Reg
<1>6. Local(t, Looked(z), z)
  BY DEF SearchAgain, Look
<1>7. Looked(z) \in {"s_mark"} \cup Found
  BY <1>5 DEF Looked
<1> QED BY <1>1, <1>2, <1>3, <1>5, <1>6, <1>7, LookTruth

-----------------------------------------------------------------------------
\* A thread that links or flags goes on and nothing else changes.
LEMMA StayPrev ==
  ASSUME NEW L, NEW R, NEW sq, NEW V, Inv(L, R, sq), Hist(L, R, V),
         Inv(L, R, sq)', ValAll', History,
         NEW t \in Thread, pc[t] \in Linking \cup Flagging,
         NEW l \in Linking \cup Flagging, Goto(t, l),
         UNCHANGED <<succ, back, key, val, reg, stack>>
  PROVE  Truthful(t)
<1> PICK r : r = reg[t]
  OBVIOUS
<1>1. pc[t] \notin {"idle", "d_free"}
  BY DEF Linking, Flagging
<1>2. r.prev \in V[t] /\ (r.op = "delete" /\ r.node \in Node =>
                            r.node \in V[t] \/ Gone(seen[t]))
  BY <1>1, PrevVisited
<1>3. Evolves(R, L, R)
  BY SameEvolves
<1>4. reg' = [reg EXCEPT ![t] = r] /\ UNCHANGED stack
  BY DEF Inv, TypeInv
<1> QED BY <1>2, <1>3, <1>4, PrevTruth

\* It calls help_flagged and nothing else changes.
LEMMA StayHelp ==
  ASSUME NEW L, NEW R, NEW sq, NEW V, Inv(L, R, sq), Hist(L, R, V),
         Inv(L, R, sq)', ValAll', History,
         NEW t \in Thread, pc[t] \in Linking \cup Flagging,
         NEW p \in R, succ[p].mark = FLAGGED, NEW d \in R,
         NEW l \in {"i_search", "i_back", "lost"}, Help(t, p, d, l),
         l = "lost" => d = reg[t].node,
         UNCHANGED <<succ, back, key, val, reg>>
  PROVE  Truthful(t)
<1> PICK r : r = reg[t]
  OBVIOUS
<1>1. pc[t] \notin {"idle", "d_free"} \cup Helping
  BY DEF Linking, Flagging, Helping
<1>2. r.prev \in V[t]
  BY <1>1, PrevVisited
<1>3. Evolves(R, L, R)
  BY SameEvolves
<1>4. reg' = [reg EXCEPT ![t] = r]
  BY DEF Inv, TypeInv
<1>5. succ[p].mark # MARKED
  BY DEF MARKED, FLAGGED
<1>6. Helps(R, V[t], t, p, d, l, r)
  BY <1>2, <1>4, <1>5 DEF Helps
<1> QED BY <1>1, <1>3, <1>6, FirstHelp

LEMMA InsertResultTruth ==
  ASSUME NEW L, NEW R, NEW sq, NEW V, Inv(L, R, sq), Hist(L, R, V),
         ValAll', History, NEW t \in Thread, InsertResult(t)
  PROVE  Truthful(t)
<1> PICK p : p = reg[t].prev
  OBVIOUS
<1>1. Inv(L, R, sq)' /\ pc[t] \in Linking \cup Flagging
  BY InsertResultInv DEF InsertResult, Linking
<1>2. p \in R /\ succ[p] \in Link /\ succ[p].node \in R
  BY <1>1, PrevFacts
<1>3. CASE ~ is_marked(succ[p]) /\ is_flagged(succ[p])
  <2>1. /\ Help(t, p, succ[p].node, "i_back")
        /\ UNCHANGED <<succ, back, key, val, reg>>
    BY <1>3 DEF InsertResult, nodes
  <2>2. succ[p].mark = FLAGGED
    BY <1>2, <1>3, MarkFacts
  <2> QED BY <1>1, <1>2, <2>1, <2>2, StayHelp
<1>4. CASE ~ (~ is_marked(succ[p]) /\ is_flagged(succ[p]))
  <2>1. Goto(t, "i_back") /\ UNCHANGED <<succ, back, key, val, reg, stack>>
    BY <1>4 DEF InsertResult, nodes
  <2>2. "i_back" \in Linking \cup Flagging
    BY DEF Linking
  <2> QED BY <1>1, <2>1, <2>2, StayPrev
<1> QED BY <1>3, <1>4

LEMMA FlagMarkTruth ==
  ASSUME NEW L, NEW R, NEW sq, NEW V, Inv(L, R, sq), Hist(L, R, V),
         ValAll', History, NEW t \in Thread, FlagMark(t)
  PROVE  Truthful(t)
<1>1. Inv(L, R, sq)' /\ pc[t] \in Linking \cup Flagging
  BY FlagMarkInv DEF FlagMark, Flagging
<1>2. \E l \in {"f_cas", "f_flag"} : Branch(t, l)
  BY DEF FlagMark
<1>3. {"f_cas", "f_flag"} \subseteq Flagging
  BY DEF Flagging
<1>4. PICK l \in Linking \cup Flagging : Branch(t, l)
  BY <1>2, <1>3
<1>5. Goto(t, l) /\ UNCHANGED <<succ, back, key, val, reg, stack>>
  BY <1>4 DEF Branch, Local, nodes, Inv, TypeInv
<1> QED BY <1>1, <1>5, StayPrev

LEMMA FlagFlagTruth ==
  ASSUME NEW L, NEW R, NEW sq, NEW V, Inv(L, R, sq), Hist(L, R, V),
         ValAll', History, NEW t \in Thread, FlagFlag(t), ~ Misled(t)
  PROVE  Truthful(t)
<1> PICK p, d : p = reg[t].prev /\ d = reg[t].node
  OBVIOUS
<1>1. Inv(L, R, sq)' /\ pc[t] \in Flagging
  BY FlagFlagInv DEF FlagFlag, Flagging
<1>2. p \in R /\ succ[p] \in Link /\ d \in R
  BY <1>1, PrevFacts DEF Target
<1>3. CASE is_flagged(succ[p])
  <2>1. Help(t, p, d, "lost") /\ UNCHANGED <<succ, back, key, val, reg>>
    BY <1>3 DEF FlagFlag, nodes
  <2>2. succ[p].mark = FLAGGED
    BY <1>2, <1>3, MarkFacts
  <2> QED BY <1>1, <1>2, <2>1, <2>2, StayHelp
<1>4. CASE ~ is_flagged(succ[p])
  <2>1. Goto(t, "f_cas") /\ UNCHANGED <<succ, back, key, val, reg, stack>>
    BY <1>4 DEF FlagFlag, nodes
  <2>2. "f_cas" \in Linking \cup Flagging
    BY DEF Flagging
  <2> QED BY <1>1, <2>1, <2>2, StayPrev
<1> QED BY <1>3, <1>4

LEMMA FlagResultTruth ==
  ASSUME NEW L, NEW R, NEW sq, NEW V, Inv(L, R, sq), Hist(L, R, V),
         ValAll', History, NEW t \in Thread, FlagResult(t)
  PROVE  Truthful(t)
<1> PICK p, d : p = reg[t].prev /\ d = reg[t].node
  OBVIOUS
<1>1. Inv(L, R, sq)' /\ pc[t] \in Flagging
  BY FlagResultInv DEF FlagResult, Flagging
<1>2. p \in R /\ succ[p] \in Link /\ d \in R
  BY <1>1, PrevFacts DEF Target
<1>3. CASE succ[p] = Ref(d, FLAGGED)
  <2>1. Help(t, p, d, "lost") /\ UNCHANGED <<succ, back, key, val, reg>>
    BY <1>3 DEF FlagResult, nodes
  <2>2. succ[p].mark = FLAGGED
    BY <1>3 DEF Ref
  <2> QED BY <1>1, <1>2, <2>1, <2>2, StayHelp
<1>4. CASE succ[p] # Ref(d, FLAGGED)
  <2>1. Goto(t, "f_back") /\ UNCHANGED <<succ, back, key, val, reg, stack>>
    BY <1>4 DEF FlagResult, nodes
  <2>2. "f_back" \in Linking \cup Flagging
    BY DEF Flagging
  <2> QED BY <1>1, <2>1, <2>2, StayPrev
<1> QED BY <1>3, <1>4

\* The node that try_flag targets is live, and the predecessor is flagged.
LEMMA FlagCasTruth ==
  ASSUME NEW L, NEW R, NEW sq, NEW V, Inv(L, R, sq), Hist(L, R, V),
         ValAll', History, NEW t \in Thread, FlagCas(t)
  PROVE  Truthful(t)
<1> PICK r : r = reg[t]
  OBVIOUS
<1> PICK p, d : p = r.prev /\ d = r.node
  OBVIOUS
<1>1. pc[t] \in Flagging /\ Inv(L, R, sq)'
  BY FlagCasInv DEF FlagCas, Flagging
<1>2. /\ r \in Reg /\ Target(R, r) /\ Behind(R, r)
      /\ p \in R /\ p \in Node /\ p # TailN /\ succ[p] \in Link
      /\ key[p] \in Int /\ r.arg \in Nat
  BY <1>1, PrevFacts
<1>3. TypeInv /\ ListInv(L) /\ FlagInv(L) /\ RefInv(L, R) /\ R \subseteq Node
  BY DEF Inv, RefInv
<1>4. d \in R /\ d \in Node /\ key[d] = r.arg
  BY <1>2, <1>3 DEF Target
<1>5. CASE succ[p] = Ref(d, UNMARKED)
  <2>1. /\ succ' = [succ EXCEPT ![p] = Ref(d, FLAGGED)]
        /\ Help(t, p, d, "d_copy") /\ UNCHANGED <<back, key, val, reg>>
    BY <1>5 DEF FlagCas
  <2>2. Leads(p, d, UNMARKED)
    BY <1>5 DEF Ref, Leads
  <2>3. p \in L
    BY <1>2, <1>3, <2>2 DEF RefInv, Leads, MARKED, UNMARKED
  <2>4. d \in L
    BY <1>2, <1>3, <2>2, <2>3 DEF ListInv, Leads
  <2>5. succ[d].mark # MARKED
    <3> SUFFICES ASSUME succ[d].mark = MARKED PROVE FALSE
      OBVIOUS
    <3>1. PICK q \in L : Leads(q, d, FLAGGED)
      BY <1>3, <2>4 DEF FlagInv
    <3>2. q # TailN
      BY <1>3, <3>1 DEF ListInv, Leads, UNMARKED, FLAGGED
    <3>3. succ[p].node = succ[q].node
      BY <2>2, <3>1 DEF Leads
    <3>4. p = q
      BY <1>2, <1>3, <2>3, <3>1, <3>2, <3>3, PredUnique
    <3> QED BY <2>2, <3>1, <3>4 DEF Leads, UNMARKED, FLAGGED
  <2>6. d \in V[t] /\ r.prev \in V[t]
    <3>1. pc[t] \notin {"idle", "d_free"}
      BY <1>1 DEF Flagging
    <3>2. Visited(L, V[t], r.arg, seen[t]) /\ r.prev \in V[t]
      BY <1>1, <3>1, BusyFacts, PrevVisited
    <3> QED BY <2>4, <2>5, <3>2 DEF Visited, Open
  <2>7. Evolves(R, L, R)
    <3>1. /\ \A n \in Node : n # p => succ'[n] = succ[n]
          /\ succ'[p].mark = FLAGGED /\ succ[p].mark = UNMARKED
      BY <1>2, <1>3, <2>1, <2>2 DEF TypeInv, Ref, Leads
    <3> QED BY <1>3, <2>1, <3>1 DEF Evolves, MARKED, FLAGGED, UNMARKED
  <2>8. succ[p].mark # MARKED
    BY <2>2 DEF Leads, MARKED, UNMARKED
  <2>9. reg' = [reg EXCEPT ![t] = r]
    BY <1>3, <2>1 DEF TypeInv
  <2>10. pc[t] \notin {"idle", "d_free"} \cup Helping
    BY <1>1 DEF Flagging, Helping
  <2>11. Helps(R, V[t], t, p, d, "d_copy", r)
    BY <1>2, <1>4, <2>1, <2>6, <2>8, <2>9 DEF Helps
  <2> QED BY <1>1, <2>7, <2>10, <2>11, FirstHelp
<1>6. CASE succ[p] # Ref(d, UNMARKED)
  <2>1. Goto(t, "f_result") /\ UNCHANGED <<succ, back, key, val, reg, stack>>
    BY <1>6 DEF FlagCas
  <2>2. "f_result" \in Linking \cup Flagging
    BY DEF Flagging
  <2> QED BY <1>1, <2>1, <2>2, StayPrev
<1> QED BY <1>5, <1>6

-----------------------------------------------------------------------------
\* A call returns.
LEMMA ReturnTruth ==
  ASSUME NEW L, NEW R, NEW sq, NEW V, Inv(L, R, sq), Hist(L, R, V),
         NEW M, NEW S, NEW tq, Inv(M, S, tq)', ValAll', History, Evolves(R, M, S),
         NEW t \in Thread, pc[t] \notin Helping,
         NEW r, reg' = [reg EXCEPT ![t] = r], Goto(t, "idle"), UNCHANGED stack,
         Right(t)
  PROVE  Truthful(t)
<1> PICK s : s = stack[t]
  OBVIOUS
<1>1. s = <<>>
  BY DEF Inv, StackOk
<1>2. stack' = [stack EXCEPT ![t] = s]
  BY DEF Inv, TypeInv
<1>3. Moves(t, "idle", r, s)
  BY <1>2 DEF Moves, Goto
<1> QED BY <1>1, <1>3, LastStep

\* One that changes nothing else.
LEMMA RefuseTruth ==
  ASSUME NEW L, NEW R, NEW sq, NEW V, Inv(L, R, sq), Hist(L, R, V),
         Inv(L, R, sq)', ValAll', History, NEW t \in Thread, pc[t] \in Found,
         NEW o, Return(t, o), UNCHANGED <<nodes, stack, calls>>,
         \/ o = "noent" /\ Gone(seen[t])
         \/ o = "exist" /\ Was(seen[t])
         \/ o = "nomem"
  PROVE  Truthful(t)
<1> PICK r : r = [Idle EXCEPT !.out = o]
  OBVIOUS
<1>1. /\ reg' = [reg EXCEPT ![t] = r] /\ Goto(t, "idle")
      /\ UNCHANGED <<succ, back, key, val>> /\ UNCHANGED stack
  BY DEF Return, nodes
<1>2. Evolves(R, L, R)
  BY <1>1, SameEvolves
<1>3. reg'[t].out = o
  <2>1. reg'[t] = r
    BY <1>1 DEF Inv, TypeInv
  <2> QED BY <2>1 DEF Idle
<1>4. Right(t)
  BY <1>3, RightNoent, RightExist, RightNomem
<1>5. pc[t] \notin Helping
  BY DEF Found, Helping
<1> QED BY <1>1, <1>2, <1>4, <1>5, ReturnTruth

LEMMA NoentTruth ==
  ASSUME NEW L, NEW R, NEW sq, NEW V, Inv(L, R, sq), Hist(L, R, V),
         Inv(L, R, sq)', ValAll', History,
         NEW t \in Thread, pc[t] \in Found, Return(t, "noent"),
         UNCHANGED <<nodes, stack, calls>>, Gone(seen[t])
  PROVE  Truthful(t)
BY RefuseTruth

\* What a search finds: nodes around the key.
LEMMA FoundKnows ==
  ASSUME NEW L, NEW R, NEW sq, NEW V, Inv(L, R, sq), Hist(L, R, V),
         NEW t \in Thread, pc[t] \in Found
  PROVE  /\ V[t] \in SUBSET R /\ Visited(L, V[t], reg[t].arg, seen[t])
         /\ reg[t] \in Reg /\ ArgOk(reg[t]) /\ reg[t].arg \in Nat
         /\ Seeks(R, reg[t]) /\ reg[t].ret = pc[t]
         /\ reg[t].curr \in V[t] /\ reg[t].next \in R
         /\ key[reg[t].curr] \in Int /\ key[reg[t].next] \in Int
         /\ key[reg[t].curr] <= reg[t].key /\ reg[t].key < key[reg[t].next]
         /\ key[reg[t].next] = reg[t].arg => reg[t].next \in V[t] \/ Gone(seen[t])
         /\ key[reg[t].curr] < reg[t].arg /\ reg[t].arg < key[reg[t].next]
              => Gone(seen[t])
<1>1. pc[t] \notin {"idle", "d_free"}
  BY DEF Found
<1>2. /\ V[t] \in SUBSET R /\ Visited(L, V[t], reg[t].arg, seen[t])
      /\ Knows(R, V[t], pc[t], stack[t], reg[t], seen[t])
  BY <1>1, BusyFacts
<1>3. /\ reg[t] \in Reg /\ ArgOk(reg[t]) /\ Seeks(R, reg[t]) /\ Between(R, reg[t])
      /\ key[reg[t].curr] \in Int /\ key[reg[t].next] \in Int
  BY SearchFacts
<1>4. reg[t].ret = pc[t] /\ reg[t].key < key[reg[t].next]
  BY FoundFacts
<1>5. reg[t].arg \in Nat
  BY <1>3, TopFacts DEF ArgOk
<1> QED BY <1>2, <1>3, <1>4, <1>5 DEF Knows, Between

\* The test of try_flag, for a node that has been found.
LEMMA FlagNodeTruth ==
  ASSUME NEW L, NEW R, NEW sq, NEW V, Inv(L, R, sq), Hist(L, R, V),
         Inv(L, R, sq)', ValAll', History, NEW t \in Thread, pc[t] \in Found,
         NEW r, FlagNode(t, r), r.arg = reg[t].arg, r.op = reg[t].op,
         r.prev \in V[t], r.node \in V[t] \/ Gone(seen[t])
  PROVE  Truthful(t)
<1>1. \E l \in {"f_mark", "f_cas"} : Local(t, l, r)
  BY DEF FlagNode
<1>2. {"f_mark", "f_cas"} \subseteq Flagging
  BY DEF Flagging
<1>3. PICK l \in Linking \cup Flagging : Local(t, l, r)
  BY <1>1, <1>2
<1>4. /\ reg' = [reg EXCEPT ![t] = r] /\ Goto(t, l)
      /\ UNCHANGED <<succ, back, key, val>> /\ UNCHANGED stack
  BY <1>3 DEF Local, nodes
<1>5. Evolves(R, L, R)
  BY <1>4, SameEvolves
<1> QED BY <1>4, <1>5, PrevTruth

LEMMA DeleteFoundTruth ==
  ASSUME NEW L, NEW R, NEW sq, NEW V, Inv(L, R, sq), Hist(L, R, V),
         ValAll', History, NEW t \in Thread, DeleteFound(t)
  PROVE  Truthful(t)
<1> PICK r, D : r = reg[t] /\ D = V[t]
  OBVIOUS
<1>1. Inv(L, R, sq)' /\ pc[t] = "d_found" /\ pc[t] \in Found
  BY DeleteFoundInv DEF DeleteFound, Found
<1>2. /\ r \in Reg /\ ArgOk(r) /\ r.arg \in Nat /\ Seeks(R, r) /\ r.ret = pc[t]
      /\ r.curr \in D /\ r.next \in R
      /\ key[r.curr] \in Int /\ key[r.next] \in Int
      /\ key[r.curr] <= r.key /\ r.key < key[r.next]
      /\ key[r.next] = r.arg => r.next \in D \/ Gone(seen[t])
      /\ key[r.curr] < r.arg /\ r.arg < key[r.next] => Gone(seen[t])
  BY <1>1, FoundKnows
<1>3. r.op = "delete" /\ r.key = r.arg - 1
  BY <1>1, <1>2 DEF Seeks
<1>4. CASE key[r.next] # r.arg
  <2>1. Return(t, "noent") /\ UNCHANGED <<nodes, stack, calls>>
    BY <1>4 DEF DeleteFound
  <2>2. Gone(seen[t])
    BY <1>2, <1>3, <1>4
  <2> QED BY <1>1, <2>1, <2>2, NoentTruth
<1>5. CASE key[r.next] = r.arg
  <2> PICK z : z = [r EXCEPT !.prev = r.curr, !.curr = Null, !.node = r.next,
                             !.next = Null]
    OBVIOUS
  <2>1. z.op = r.op /\ z.arg = r.arg /\ z.prev = r.curr /\ z.node = r.next
    BY <1>2 DEF Reg
  <2>2. FlagNode(t, z)
    BY <1>5 DEF DeleteFound
  <2>3. z.prev \in D /\ (z.node \in D \/ Gone(seen[t]))
    BY <1>2, <1>5, <2>1
  <2>4. /\ z.arg = reg[t].arg /\ z.op = reg[t].op
        /\ z.prev \in V[t] /\ (z.node \in V[t] \/ Gone(seen[t]))
    BY <2>1, <2>3
  <2> QED BY ONLY Inv(L, R, sq), Hist(L, R, V), ValAll', History, t \in Thread,
            <1>1, <2>2, <2>4, FlagNodeTruth
<1> QED BY <1>4, <1>5

\* The node is not found again: it has been deleted.
LEMMA FlagAgainTruth ==
  ASSUME NEW L, NEW R, NEW sq, NEW V, Inv(L, R, sq), Hist(L, R, V),
         ValAll', History, NEW t \in Thread, FlagAgain(t)
  PROVE  Truthful(t)
<1> PICK r, D : r = reg[t] /\ D = V[t]
  OBVIOUS
<1>1. Inv(L, R, sq)' /\ pc[t] = "f_again" /\ pc[t] \in Found
  BY FlagAgainInv DEF FlagAgain, Found
<1>2. /\ D \in SUBSET R /\ Visited(L, D, r.arg, seen[t])
      /\ r \in Reg /\ ArgOk(r) /\ r.arg \in Nat /\ Seeks(R, r) /\ r.ret = pc[t]
      /\ r.curr \in D /\ r.next \in R
      /\ key[r.curr] \in Int /\ key[r.next] \in Int
      /\ key[r.curr] <= r.key /\ r.key < key[r.next]
      /\ key[r.next] = r.arg => r.next \in D \/ Gone(seen[t])
      /\ key[r.curr] < r.arg /\ r.arg < key[r.next] => Gone(seen[t])
  BY <1>1, FoundKnows
<1>3. Target(R, r) /\ r.key = r.arg - 1
  BY <1>1, <1>2 DEF Seeks
<1>4. /\ r.op = "delete" /\ r.node \in R /\ key[r.node] = r.arg
      /\ r.node \in D \/ Gone(seen[t])
  <2>1. r.op = "delete" /\ r.node \in R /\ key[r.node] = r.arg /\ r.node \in Node
    BY <1>3 DEF Target, Inv, RefInv
  <2>2. pc[t] \notin {"idle", "d_free"}
    BY <1>1
  <2> QED BY <2>1, <2>2, PrevVisited
<1>5. CASE r.next # r.node
  <2>1. Return(t, "noent") /\ UNCHANGED <<nodes, stack, calls>>
    BY <1>5 DEF FlagAgain
  <2>2. ASSUME NEW n \in D, key[n] = r.arg PROVE Gone(seen[t]) \/ n \in L
    <3>1. succ[n].mark = MARKED => Gone(seen[t])
      BY <1>2, <2>2 DEF Visited
    <3>2. succ[n].mark # MARKED => n \in L
      BY <1>2 DEF Inv, RefInv
    <3> QED BY <3>1, <3>2
  <2>3. Gone(seen[t])
    <3>1. CASE key[r.next] = r.arg
      <4>1. ASSUME r.next \in L, r.node \in L PROVE FALSE
        BY <1>4, <1>5, <3>1, <4>1 DEF Inv, ListInv
      <4> QED BY <1>2, <1>4, <2>2, <3>1, <4>1
    <3>2. CASE key[r.next] # r.arg
      BY <1>2, <1>3, <3>2
    <3> QED BY <3>1, <3>2
  <2> QED BY <1>1, <2>1, <2>3, NoentTruth
<1>6. CASE r.next = r.node
  <2> PICK z : z = [r EXCEPT !.prev = r.curr, !.curr = Null, !.next = Null]
    OBVIOUS
  <2>1. z.op = r.op /\ z.arg = r.arg /\ z.prev = r.curr /\ z.node = r.node
    BY <1>2 DEF Reg
  <2>2. FlagNode(t, z)
    BY <1>6 DEF FlagAgain
  <2>3. z.prev \in D /\ (z.node \in D \/ Gone(seen[t]))
    BY <1>2, <1>4, <2>1
  <2>4. /\ z.arg = reg[t].arg /\ z.op = reg[t].op
        /\ z.prev \in V[t] /\ (z.node \in V[t] \/ Gone(seen[t]))
    BY <2>1, <2>3
  <2> QED BY ONLY Inv(L, R, sq), Hist(L, R, V), ValAll', History, t \in Thread,
            <1>1, <2>2, <2>4, FlagNodeTruth
<1> QED BY <1>5, <1>6

-----------------------------------------------------------------------------
\* A step that leaves R alone.
LEMMA AsideEvolves ==
  ASSUME NEW R, NEW M,
         \A n \in R : /\ succ'[n] = succ[n] /\ back'[n] = back[n]
                      /\ key'[n] = key[n] /\ val'[n] = val[n]
  PROVE  Evolves(R, M, R)
BY DEF Evolves

LEMMA InsertExistsTruth ==
  ASSUME NEW L, NEW R, NEW sq, NEW V, Inv(L, R, sq), Hist(L, R, V),
         ValAll', History, NEW t \in Thread, InsertExists(t)
  PROVE  Truthful(t)
<1>1. Inv(L, R, sq)' /\ pc[t] \in Found
  BY InsertExistsInv DEF InsertExists, Found
<1>2. /\ Visited(L, V[t], reg[t].arg, seen[t]) /\ reg[t].curr \in V[t]
      /\ key[reg[t].curr] = reg[t].arg
  BY <1>1, FoundKnows DEF InsertExists
<1>3. Was(seen[t])
  BY <1>2 DEF Visited
<1>4. Return(t, "exist") /\ UNCHANGED <<nodes, stack, calls>>
  BY DEF InsertExists
<1> QED BY <1>1, <1>3, <1>4, RefuseTruth

LEMMA InsertNoMemTruth ==
  ASSUME NEW L, NEW R, NEW sq, NEW V, Inv(L, R, sq), Hist(L, R, V),
         ValAll', History, NEW t \in Thread, InsertNoMem(t)
  PROVE  Truthful(t)
<1>1. Inv(L, R, sq)' /\ pc[t] \in Found
  BY InsertNoMemInv DEF InsertNoMem, Found
<1>2. Return(t, "nomem") /\ UNCHANGED <<nodes, stack, calls>>
  BY DEF InsertNoMem
<1> QED BY <1>1, <1>2, RefuseTruth

\* The new node is none of the list's.
LEMMA InsertAllocTruth ==
  ASSUME NEW L, NEW R, NEW sq, NEW V, Inv(L, R, sq), Hist(L, R, V),
         ValAll', History, NEW t \in Thread, InsertAlloc(t)
  PROVE  Truthful(t)
<1> PICK r, n : r = reg[t] /\ n = free
  OBVIOUS
<1> PICK z : z = [r EXCEPT !.node = n, !.prev = r.curr, !.curr = Null]
  OBVIOUS
<1>1. pc[t] = "i_found" /\ pc[t] \in Found
  BY DEF InsertAlloc, Found
<1>2. PICK tq : Inv(L, R, tq)'
  BY InsertAllocInv
<1>3. /\ TypeInv /\ PoolInv(sq) /\ RefInv(L, R) /\ OwnInv(L, R, In(sq))
  BY DEF Inv
<1>4. r \in Reg /\ Seeks(R, r) /\ r.ret = pc[t] /\ r.curr \in V[t]
  BY <1>1, FoundKnows
<1>5. r.op = "insert"
  BY <1>1, <1>4 DEF Seeks
<1>6. n \in Node /\ n \notin R
  <2>1. n \in Node /\ sq[1] = n /\ 1 \in 1 .. Len(sq)
    BY <1>3 DEF TypeInv, PoolInv
  <2>2. n \in In(sq)
    BY <2>1 DEF In
  <2> QED BY <1>3, <2>1, <2>2 DEF OwnInv
<1>7. /\ succ' = [succ EXCEPT ![n] = Ref(Null, UNMARKED)]
      /\ back' = [back EXCEPT ![n] = Null]
      /\ key'  = [key EXCEPT ![n] = r.arg]
      /\ val'  = [val EXCEPT ![n] = r.v]
      /\ UNCHANGED stack /\ Goto(t, "i_load")
  BY DEF InsertAlloc
<1>8. R \subseteq Node
  BY <1>3 DEF RefInv
<1>9. \A m \in R : /\ succ'[m] = succ[m] /\ back'[m] = back[m]
                   /\ key'[m] = key[m] /\ val'[m] = val[m]
  BY <1>3, <1>6, <1>7, <1>8 DEF TypeInv
<1>10. Evolves(R, L, R)
  BY <1>9, AsideEvolves
<1>11. reg' = [reg EXCEPT ![t] = z]
  <2>1. reg' = [reg EXCEPT ![t].node = n, ![t].prev = r.curr,
                           ![t].curr = Null]
    BY DEF InsertAlloc
  <2>2. reg' = [reg EXCEPT ![t] = [reg[t] EXCEPT !.node = n, !.prev = r.curr,
                                                 !.curr = Null]]
    BY <1>3, <2>1 DEF TypeInv
  <2> QED BY <2>2
<1>12. /\ z.op = reg[t].op /\ z.arg = reg[t].arg /\ z.prev \in V[t]
       /\ z.op # "delete"
  BY <1>4, <1>5 DEF Reg
<1> PICK l : l = "i_load"
  OBVIOUS
<1>13. /\ l \in Linking \cup Flagging /\ Goto(t, l) /\ UNCHANGED stack
       /\ (z.op = "delete" /\ z.node \in Node => z.node \in V[t] \/ Gone(seen[t]))
       /\ pc[t] \in Linking \cup Flagging \cup Found
  BY <1>1, <1>7, <1>12 DEF Linking
<1> QED BY ONLY Inv(L, R, sq), Hist(L, R, V), ValAll', History, t \in Thread,
          <1>2, <1>10, <1>11, <1>12, <1>13, PrevTruth

\* prev is flagged, or the thread links its own node to next.
LEMMA LoadTruth ==
  ASSUME NEW L, NEW R, NEW sq, NEW V, Inv(L, R, sq), Hist(L, R, V),
         Inv(L, R, sq)', ValAll', History, NEW t \in Thread,
         pc[t] \in Linking \cup Found, NEW r, Load(t, r),
         r.arg = reg[t].arg, r.op = reg[t].op, r.node = reg[t].node,
         r.op = "insert", r.node \in Node, r.prev \in V[t]
  PROVE  Truthful(t)
<1> PICK p : p = r.prev
  OBVIOUS
<1>1. TypeInv /\ ListInv(L) /\ RefInv(L, R) /\ OwnInv(L, R, In(sq))
  BY DEF Inv
<1>2. pc[t] \notin {"idle", "d_free"} \cup Helping
  BY DEF Linking, Found, Helping
<1>3. p \in V[t] /\ V[t] \in SUBSET R /\ R \subseteq Node
  BY <1>1, <1>2, BusyFacts DEF RefInv
<1>4. succ[p] \in Link /\ r.node \notin R
  BY <1>1, <1>3, TypeFacts DEF OwnInv
<1>5. reg' = [reg EXCEPT ![t] = r]
  BY DEF Load
<1>6. CASE is_flagged(succ[p])
  <2>1. succ[p].mark = FLAGGED
    BY <1>4, <1>6, MarkFacts
  <2>2. succ[p].node \in R
    BY <1>1, <1>3, <2>1 DEF RefInv, ListInv, Leads, UNMARKED, FLAGGED
  <2>3. /\ Help(t, p, succ[p].node, "i_search") /\ UNCHANGED <<succ, back, key, val>>
    BY <1>6 DEF Load, nodes
  <2>4. Evolves(R, L, R)
    BY <2>3, SameEvolves
  <2>5. Helps(R, V[t], t, p, succ[p].node, "i_search", r)
    BY <1>3, <1>5, <2>1, <2>2, <2>3 DEF Helps, MARKED, FLAGGED
  <2> QED BY <1>2, <2>4, <2>5, FirstHelp
<1>7. CASE ~ is_flagged(succ[p])
  <2> PICK l : l = "i_cas"
    OBVIOUS
  <2>1. /\ succ' = [succ EXCEPT ![r.node] = Ref(r.next, UNMARKED)]
        /\ Goto(t, l) /\ UNCHANGED stack /\ UNCHANGED <<back, key, val>>
    BY <1>7 DEF Load
  <2>2. \A m \in R : succ'[m] = succ[m]
    BY <1>1, <1>3, <1>4, <2>1 DEF TypeInv
  <2>3. Evolves(R, L, R)
    BY <2>1, <2>2, AsideEvolves
  <2>4. /\ l \in Linking \cup Flagging
        /\ (r.op = "delete" /\ r.node \in Node => r.node \in V[t] \/ Gone(seen[t]))
        /\ pc[t] \in Linking \cup Flagging \cup Found
        /\ r.arg = reg[t].arg /\ r.op = reg[t].op /\ r.prev \in V[t]
    BY DEF Linking
  <2> QED BY ONLY Inv(L, R, sq), Hist(L, R, V), Inv(L, R, sq)', ValAll', History,
            t \in Thread, <1>5, <2>1, <2>3, <2>4, PrevTruth
<1> QED BY <1>6, <1>7

LEMMA InsertLoadTruth ==
  ASSUME NEW L, NEW R, NEW sq, NEW V, Inv(L, R, sq), Hist(L, R, V),
         ValAll', History, NEW t \in Thread, InsertLoad(t)
  PROVE  Truthful(t)
<1> PICK r : r = reg[t]
  OBVIOUS
<1>1. Inv(L, R, sq)' /\ pc[t] \in Linking /\ pc[t] \notin {"idle", "d_free"}
  BY InsertLoadInv DEF InsertLoad, Linking
<1>2. Mine(r) /\ r.prev \in V[t] /\ Load(t, r)
  BY <1>1, PrevFacts, PrevVisited DEF InsertLoad
<1>3. r.op = "insert" /\ r.node \in Node
  BY <1>2 DEF Mine
<1> QED BY <1>1, <1>2, <1>3, LoadTruth

LEMMA InsertAgainTruth ==
  ASSUME NEW L, NEW R, NEW sq, NEW V, Inv(L, R, sq), Hist(L, R, V),
         ValAll', History, NEW t \in Thread, InsertAgain(t)
  PROVE  Truthful(t)
<1> PICK r, n : r = reg[t] /\ n = r.node
  OBVIOUS
<1>1. pc[t] = "i_again" /\ pc[t] \in Found
  BY DEF InsertAgain, Found
<1>2. /\ TypeInv /\ PoolInv(sq) /\ RefInv(L, R) /\ OwnInv(L, R, In(sq))
  BY DEF Inv
<1>3. /\ r \in Reg /\ Seeks(R, r) /\ r.ret = pc[t] /\ r.curr \in V[t]
      /\ Visited(L, V[t], r.arg, seen[t])
  BY <1>1, FoundKnows
<1>4. r.op = "insert" /\ n \in Node /\ n \notin R
  <2>1. r.op = "insert" /\ n \in Node
    BY <1>1, <1>3 DEF Seeks, Mine
  <2> QED BY <1>2, <2>1 DEF OwnInv
<1>5. CASE key[r.curr] # r.arg
  <2> PICK z : z = [r EXCEPT !.prev = r.curr, !.curr = Null]
    OBVIOUS
  <2>1. /\ z.op = reg[t].op /\ z.arg = reg[t].arg /\ z.node = reg[t].node
        /\ z.op = "insert" /\ z.node \in Node /\ z.prev \in V[t]
    BY <1>3, <1>4 DEF Reg
  <2>2. Load(t, z)
    BY <1>5 DEF InsertAgain
  <2>3. Inv(L, R, sq)'
    BY <1>1, <1>5, AgainLoadInv
  <2> QED BY ONLY Inv(L, R, sq), Hist(L, R, V), ValAll', History,
            t \in Thread, <1>1, <2>1, <2>2, <2>3, LoadTruth
<1>6. CASE key[r.curr] = r.arg
  <2> PICK z : z = [Idle EXCEPT !.out = "exist"]
    OBVIOUS
  <2>1. /\ succ' = Freed(n) /\ UNCHANGED <<back, key, val, free, stack>>
        /\ reg' = [reg EXCEPT ![t] = z] /\ Goto(t, "idle")
    BY <1>6 DEF InsertAgain, Return
  <2>2. n \notin In(sq)
    BY <1>2, <1>4, NodeFacts DEF OwnInv, OwnedOf
  <2>3. \A m \in Node \ (In(sq) \cup {n}) : succ'[m] = succ[m]
    BY <1>2, <1>4, <2>1, <2>2, FreedFacts
  <2>4. \A m \in R : succ'[m] = succ[m]
    BY <1>2, <1>4, <2>3 DEF RefInv, OwnInv
  <2>5. Evolves(R, L, R)
    BY <2>1, <2>4, AsideEvolves
  <2>6. PICK tq : Inv(L, R, tq)'
    BY InsertAgainInv
  <2>7. Right(t)
    <3>1. reg'[t] = z
      BY <1>2, <2>1 DEF TypeInv
    <3>2. reg'[t].out = "exist"
      BY <3>1 DEF Idle
    <3>3. Was(seen[t])
      BY <1>3, <1>6 DEF Visited
    <3> QED BY <3>2, <3>3, RightExist
  <2>8. pc[t] \notin Helping /\ UNCHANGED stack
    BY <1>1, <2>1 DEF Helping
  <2> QED BY ONLY Inv(L, R, sq), Hist(L, R, V), ValAll', History, t \in Thread,
            <2>1, <2>5, <2>6, <2>7, <2>8, ReturnTruth
<1> QED BY <1>5, <1>6

\* The new node is linked where the key was not bound.
LEMMA InsertCasTruth ==
  ASSUME NEW L, NEW R, NEW sq, NEW V, Inv(L, R, sq), Hist(L, R, V),
         ValAll', History, NEW t \in Thread, InsertCas(t)
  PROVE  Truthful(t)
<1> PICK r, p, n, x : r = reg[t] /\ p = r.prev /\ n = r.node /\ x = r.next
  OBVIOUS
<1>1. pc[t] \in Linking /\ pc[t] \notin {"idle", "d_free"} \cup Helping
  BY DEF InsertCas, Linking, Helping
<1>2. PICK M, S :
        /\ Inv(M, S, sq)' /\ stack' = stack
        /\ \/ /\ M = L /\ S = R /\ Goto(t, "i_result")
              /\ UNCHANGED <<nodes, reg>>
           \/ /\ M = With(L, n) /\ S = With(R, n) /\ Return(t, "ok")
              /\ Links(L, R, p, n, x)
  BY InsertCasInv
<1>3. CASE M = L /\ S = R /\ Goto(t, "i_result") /\ UNCHANGED <<nodes, reg>>
  <2>1. /\ Inv(L, R, sq)' /\ UNCHANGED <<succ, back, key, val, reg, stack>>
    BY <1>2, <1>3 DEF nodes
  <2>2. "i_result" \in Linking \cup Flagging /\ pc[t] \in Linking \cup Flagging
    BY <1>1 DEF Linking
  <2> QED BY <1>3, <2>1, <2>2, StayPrev
<1>4. CASE M = With(L, n) /\ S = With(R, n) /\ Return(t, "ok") /\ Links(L, R, p, n, x)
  <2> PICK z : z = [Idle EXCEPT !.out = "ok"]
    OBVIOUS
  <2>1. TypeInv /\ ListInv(L) /\ RefInv(L, R)
    BY DEF Inv
  <2>2. /\ p \in L /\ p # TailN /\ n \in Node \ R
        /\ Leads(p, x, UNMARKED) /\ Leads(n, x, UNMARKED)
        /\ key[p] < key[n] /\ key[n] < key[x]
        /\ succ' = [succ EXCEPT ![p] = Ref(n, UNMARKED)]
        /\ UNCHANGED <<back, key, val>>
    BY <1>4 DEF Links
  <2>3. L \subseteq R /\ R \subseteq Node
    BY <2>1 DEF RefInv
  <2>4. /\ \A m \in Node : m # p => succ'[m] = succ[m]
        /\ succ'[p].mark = UNMARKED /\ succ[p].mark = UNMARKED
        /\ succ[n].mark = UNMARKED
    BY <2>1, <2>2, <2>3 DEF TypeInv, Ref, Leads
  <2>5. Evolves(R, M, S)
    <3>1. R \subseteq S /\ S \ R = {n} /\ n \in M /\ n # p
      BY <1>4, <2>2, <2>3 DEF With
    <3>2. succ'[n].mark # MARKED
      BY <2>2, <2>4, <3>1 DEF MARKED, UNMARKED
    <3> QED BY <2>2, <2>3, <2>4, <3>1, <3>2 DEF Evolves, MARKED, UNMARKED
  <2>6. Mine(r) /\ ArgOk(r)
    BY <1>1, PrevFacts
  <2>7. r.op = "insert" /\ key[n] = r.arg /\ r.arg \in Key
    BY <2>6 DEF Mine, ArgOk
  <2>8. Gone(seen[t])
    <3>1. Told(r.arg, seen[t])
      BY <1>1, BusyFacts
    <3>2. succ[p].node = x
      BY <2>2 DEF Leads
    <3> QED BY <2>1, <2>2, <2>7, <3>1, <3>2, GapNow
  <2>9. reg' = [reg EXCEPT ![t] = z] /\ Goto(t, "idle")
    BY <1>4 DEF Return
  <2>10. Right(t)
    <3>1. reg'[t] = z
      BY <2>1, <2>9 DEF TypeInv
    <3>2. reg'[t].out = "ok"
      BY <3>1 DEF Idle
    <3> QED BY <2>7, <2>8, <3>2, RightInsert
  <2>11. Inv(M, S, sq)' /\ UNCHANGED stack /\ pc[t] \notin Helping
    BY <1>1, <1>2
  <2> QED BY ONLY Inv(L, R, sq), Hist(L, R, V), ValAll', History, t \in Thread,
            <2>5, <2>9, <2>10, <2>11, ReturnTruth
<1> QED BY <1>2, <1>3, <1>4

-----------------------------------------------------------------------------
\* list_search and list_update.
LEMMA FindTruth ==
  ASSUME NEW L, NEW R, NEW sq, NEW V, Inv(L, R, sq), Hist(L, R, V),
         ValAll', History, NEW t \in Thread, Find(t)
  PROVE  Truthful(t)
<1> PICK r, c : r = reg[t] /\ c = r.curr
  OBVIOUS
<1>1. Inv(L, R, sq)' /\ pc[t] = "q_found" /\ pc[t] \in Found /\ pc[t] \notin Helping
  BY FindInv DEF Find, Found, Helping
<1>2. /\ V[t] \in SUBSET R /\ Visited(L, V[t], r.arg, seen[t])
      /\ r.arg \in Nat /\ Seeks(R, r) /\ r.ret = pc[t]
      /\ c \in V[t] /\ key[c] \in Int /\ key[r.next] \in Int
      /\ key[c] <= r.key /\ r.key < key[r.next]
      /\ key[c] < r.arg /\ r.arg < key[r.next] => Gone(seen[t])
  BY <1>1, FoundKnows
<1>3. r.key = r.arg /\ c \in Node
  BY <1>1, <1>2 DEF Seeks, Inv, RefInv
<1>4. key[c] = r.arg => Was(seen[t]) /\ Had(seen[t], val[c])
  BY <1>2 DEF Visited
<1>5. CASE NotFound(t)
  <2>1. /\ Return(t, "noent") /\ UNCHANGED <<nodes, stack, calls>>
        /\ key[c] # r.arg
    BY <1>5 DEF NotFound
  <2>2. Gone(seen[t])
    BY <1>2, <1>3, <2>1
  <2> QED BY <1>1, <2>1, <2>2, NoentTruth
<1>6. CASE SearchFound(t)
  <2> PICK z : z = [Idle EXCEPT !.out = "ok", !.v = val[c]]
    OBVIOUS
  <2>1. /\ reg' = [reg EXCEPT ![t] = z] /\ Goto(t, "idle")
        /\ UNCHANGED <<succ, back, key, val>> /\ UNCHANGED stack
        /\ r.op = "search" /\ key[c] = r.arg
    BY <1>6 DEF SearchFound, nodes
  <2>2. Evolves(R, L, R)
    BY <2>1, SameEvolves
  <2>3. Right(t)
    <3>1. reg'[t] = z
      BY <2>1 DEF Inv, TypeInv
    <3>2. reg'[t].out = "ok" /\ reg'[t].v = val[c]
      BY <3>1 DEF Idle
    <3> QED BY <1>4, <2>1, <3>2, RightSearch
  <2> QED BY <1>1, <2>1, <2>2, <2>3, ReturnTruth
<1>7. CASE UpdateFound(t)
  <2> PICK z : z = [Idle EXCEPT !.out = "ok"]
    OBVIOUS
  <2>1. /\ reg' = [reg EXCEPT ![t] = z] /\ Goto(t, "idle")
        /\ val' = [val EXCEPT ![c] = r.v]
        /\ UNCHANGED <<succ, back, key>> /\ UNCHANGED stack
        /\ r.op = "update" /\ key[c] = r.arg
    BY <1>7 DEF UpdateFound, Return
  <2>2. Evolves(R, L, R)
    <3>1. val'[c] = r.v /\ \A n \in Node : n # c => val'[n] = val[n]
      BY <1>3, <2>1 DEF Inv, TypeInv
    <3>2. R \subseteq Node
      BY DEF Inv, RefInv
    <3> QED BY <1>1, <2>1, <3>1, <3>2 DEF Evolves
  <2>3. Right(t)
    <3>1. reg'[t] = z
      BY <2>1 DEF Inv, TypeInv
    <3>2. reg'[t].out = "ok"
      BY <3>1 DEF Idle
    <3> QED BY <1>4, <2>1, <3>2, RightUpdate
  <2> QED BY <1>1, <2>1, <2>2, <2>3, ReturnTruth
<1> QED BY <1>5, <1>6, <1>7 DEF Find

\* list_delete copies the value of the node that it has unlinked.
LEMMA DeleteCopyTruth ==
  ASSUME NEW L, NEW R, NEW sq, NEW V, Inv(L, R, sq), Hist(L, R, V),
         ValAll', History, NEW t \in Thread, DeleteCopy(t)
  PROVE  Truthful(t)
<1> PICK r : r = reg[t]
  OBVIOUS
<1> PICK z, l, s : /\ z = [r EXCEPT !.v = val[r.node]] /\ l = "d_free"
                   /\ s = stack[t]
  OBVIOUS
<1>1. Inv(L, R, sq)' /\ pc[t] = "d_copy" /\ r \in Reg
  BY DeleteCopyInv DEF DeleteCopy, Inv, TypeInv
<1>2. pc[t] \notin {"idle", "d_free"} /\ pc[t] \notin Helping
  BY <1>1 DEF Helping
<1>3. /\ Visited(L, V[t], r.arg, seen[t])
      /\ Knows(R, V[t], pc[t], stack[t], r, seen[t]) /\ s = <<>>
  BY <1>2, BusyFacts
<1>4. z.arg = r.arg /\ z.v = val[r.node]
  BY <1>1 DEF Reg
<1>5. Was(seen[t]) /\ Had(seen[t], z.v)
  BY <1>1, <1>3, <1>4 DEF Knows, Visited
<1>6. /\ reg' = [reg EXCEPT ![t] = z] /\ Goto(t, l)
      /\ UNCHANGED <<succ, back, key, val>> /\ UNCHANGED stack
  BY DEF DeleteCopy, Local, nodes
<1>7. Evolves(R, L, R) /\ FramesMove(R, t, l, s)
  BY <1>3, <1>6, SameEvolves, SameFrames
<1>8. stack' = [stack EXCEPT ![t] = s]
  BY <1>6 DEF Inv, TypeInv
<1>9. Moves(t, l, z, s)
  BY <1>6, <1>8 DEF Moves, Goto
<1>10. Tells(R, V[t], t, l, z, s)
  BY <1>2, <1>4, <1>5 DEF Tells
<1>11. ValInv(L)'
  BY <1>1 DEF ValAll, Inv
<1>12. Known'
  BY <1>1, <1>7, <1>9, <1>10, <1>11, HistStep
<1>13. pc'[t] = l /\ \A u \in Thread : u # t => pc'[u] = pc[u]
  BY <1>6 DEF Goto, Inv, TypeInv
<1> QED BY <1>12, <1>13 DEF Truthful

-----------------------------------------------------------------------------
\* What a call for k knows when it begins, at the head.
StartsAt(L, R, D, k, Z) ==
  /\ HeadN \in D /\ D \subseteq R /\ Visited(L, D, k, Z) /\ FramesIn(D)
  /\ succ[HeadN].node \in R
  /\ key[succ[HeadN].node] = k => succ[HeadN].node \in D \/ Gone(Z)
  /\ key[HeadN] < k /\ k < key[succ[HeadN].node] => Gone(Z)

StartsOk ==
  \A L, R, sq, D, Z : \A k \in Key :
    Inv(L, R, sq) /\ ValInv(L) /\ Told(k, Z) /\ D = Open(L) => StartsAt(L, R, D, k, Z)

LEMMA StartsNow == StartsOk
<1> SUFFICES ASSUME NEW L, NEW R, NEW sq, NEW D, NEW Z, NEW k \in Key,
                    Inv(L, R, sq), ValInv(L), Told(k, Z), D = Open(L)
             PROVE  StartsAt(L, R, D, k, Z)
  BY DEF StartsOk
<1>1. /\ TypeInv /\ ListInv(L) /\ RefInv(L, R)
  BY DEF Inv
<1>2. HeadN \in D
  <2>1. key[HeadN] \notin Key
    BY <1>1, TopFacts, NodeFacts DEF ListInv
  <2> QED BY <1>1, <2>1 DEF Open, ListInv, RefInv
<1>3. D \subseteq L /\ D \subseteq R /\ \A n \in D : succ[n].mark # MARKED
  BY <1>1 DEF Open, RefInv
<1>4. Visited(L, D, k, Z)
  <2>1. ASSUME NEW n \in D, key[n] = k PROVE Was(Z) /\ Had(Z, val[n])
    BY <1>1, <2>1, BoundNow
  <2> QED BY <1>3, <2>1 DEF Visited
<1>5. FramesIn(D)
  <2> SUFFICES ASSUME NEW w \in Thread, NEW i \in 1 .. Len(stack[w]),
                      stack[w][i].del \in D
               PROVE  stack[w][i].prev \in D
    BY DEF FramesIn
  <2>1. succ[stack[w][i].del].mark # MARKED
    BY <1>3
  <2> QED BY <2>1, FrameFacts
<1>6. HeadN # TailN
  BY DEF HeadN, TailN
<1> PICK x : x = succ[HeadN].node
  OBVIOUS
<1>7. /\ x \in R
      /\ key[x] = k => x \in D \/ Gone(Z)
      /\ key[HeadN] < k /\ k < key[x] => Gone(Z)
  BY <1>2, <1>3, <1>4, <1>6, LinkTells
<1> QED BY <1>2, <1>3, <1>4, <1>5, <1>7 DEF StartsAt

LEMMA StartsNext == StartsOk'
BY StartsNow, PTL

\* What the call of t knows then.
LEMMA BeginKnows ==
  ASSUME NEW L, NEW R, NEW sq, Inv(L, R, sq)', ValInv(L)', History,
         NEW t \in Thread, NEW k \in Key,
         NEW l \in {"s_mark", "i_found", "d_found", "q_found"},
         NEW z, z.arg = k, z.node = Null, z.curr = HeadN,
         z.next = succ'[HeadN].node,
         pc'[t] = l, reg'[t] = z, stack'[t] = <<>>,
         NEW D, D = Open(L)'
  PROVE  HistOf(L, R, D, pc[t], stack[t], reg[t], seen[t])'
<1> PICK Y, x : Y = seen'[t] /\ x = succ'[HeadN].node
  OBVIOUS
<1>1. Told(reg[t].arg, seen[t])'
  BY SeenStep
<1>2. Told(k, Y)'
  BY <1>1 DEF Told
<1>3. /\ HeadN \in D /\ D \subseteq R /\ Visited(L, D, k, Y)' /\ FramesIn(D)'
      /\ x \in R
      /\ key'[x] = k => x \in D \/ Gone(Y)
      /\ key'[HeadN] < k /\ k < key'[x] => Gone(Y)
  <2>1. StartsOk'
    BY StartsNext
  <2> QED BY <1>2, <2>1 DEF StartsOk, StartsAt
<1>4. l \notin Linking \cup Flagging \cup Helping
                 \cup {"s_advance", "s_curr_next", "d_copy", "d_free"}
  BY DEF Linking, Flagging, Helping
<1>5. Null \notin Node
  BY NodeFacts
<1> PICK s : s = <<>>
  OBVIOUS
<1>6. Knows(R, D, l, s, z, Y)'
  BY <1>3, <1>4, <1>5 DEF Knows
<1>7. HistOf(L, R, D, l, s, z, Y)'
  BY <1>3, <1>4, <1>6 DEF HistOf
<1> QED BY <1>7

LEMMA CallTruth ==
  ASSUME NEW L, NEW R, NEW sq, NEW V, Inv(L, R, sq), Hist(L, R, V),
         ValAll', History, NEW t \in Thread, NEW o \in Op, NEW k \in Key,
         NEW v \in IF o \in {"insert", "update"} THEN Value ELSE {None},
         Call(t, o, k, v)
  PROVE  Truthful(t)
<1>r. PICK r : r = [Idle EXCEPT !.op = o, !.arg = k, !.v = v,
                             !.key = IF o = "delete" THEN k - 1 ELSE k,
                             !.ret = CASE o = "insert" -> "i_found"
                                       [] o = "delete" -> "d_found"
                                       [] OTHER -> "q_found"]
  OBVIOUS
<1>1. /\ pc[t] = "idle" /\ reg' = [reg EXCEPT ![t] = From(r, HeadN)]
      /\ pc' = [pc EXCEPT ![t] = Looked(From(r, HeadN))]
      /\ UNCHANGED <<succ, back, key, val>> /\ UNCHANGED stack
  BY <1>r DEF Call, Goto, nodes
<1>2. r.arg = k /\ r.node = Null /\ r.ret \in {"i_found", "d_found", "q_found"}
  BY <1>r DEF Idle
<1>z. PICK z : z = From(r, HeadN)
  OBVIOUS
<1>3. /\ z.arg = k /\ z.node = Null /\ z.curr = HeadN /\ z.next = succ[HeadN].node
      /\ z.ret \in {"i_found", "d_found", "q_found"}
  BY <1>r, <1>2, <1>z DEF Idle, From
<1>l. PICK l : l = Looked(z)
  OBVIOUS
<1>4. l \in {"s_mark", "i_found", "d_found", "q_found"}
  BY <1>3, <1>l DEF Looked
<1>5. Inv(L, R, sq)'
  <2>1. v \in Value \cup {None} /\ (o \in {"insert", "update"} => v \in Value)
    OBVIOUS
  <2> QED BY <2>1, CallInv
<1>6. ValInv(L)' /\ RefInv(L, R)'
  BY <1>5 DEF ValAll, Inv
<1> PICK s : s = <<>>
  OBVIOUS
<1>7. stack[t] = s /\ stack' = [stack EXCEPT ![t] = s]
  BY <1>1 DEF Inv, StackOk, Helping, TypeInv
<1>8. Moves(t, l, z, s)
  BY <1>1, <1>7, <1>z, <1>l DEF Moves
<1>9. Evolves(R, L, R) /\ FramesMove(R, t, l, s)
  BY <1>1, SameEvolves, SameFrames
<1>10. BackOk(L)'
  <2>1. BackOk(L)
    BY DEF Hist
  <2> QED BY <1>6, <1>8, <1>9, <2>1, BackStep
<1>11. pc'[t] = l /\ reg'[t] = z /\ stack'[t] = s
  BY <1>8 DEF Moves, Inv, TypeInv
<1> PICK D : D = Open(L)'
  OBVIOUS
<1>12. HistOf(L, R, D, pc[t], stack[t], reg[t], seen[t])'
  <2>1. z.next = succ'[HeadN].node /\ s = <<>>
    BY <1>1, <1>3
  <2> QED BY ONLY History, t \in Thread, k \in Key, D = Open(L)', <1>3, <1>4,
            <1>5, <1>6, <1>11, <2>1, BeginKnows
<1> PICK W : W = [u \in Thread |-> IF u = t THEN D ELSE V[u]]
  OBVIOUS
<1>13. ASSUME NEW u \in Thread, pc'[u] # "idle"
       PROVE  /\ Told(reg[u].arg, seen[u])'
              /\ HistOf(L, R, W[u], pc[u], stack[u], reg[u], seen[u])'
  <2>1. Told(reg[u].arg, seen[u])'
    BY <1>13, SeenStep
  <2> PICK X : X = W[u]
    OBVIOUS
  <2>2. CASE u # t
    <3>1. X = V[u] \cup (R \ R)
      BY <2>2
    <3>2. HistOf(L, R, X, pc[u], stack[u], reg[u], seen[u])'
      BY <1>5, <1>6, <1>8, <1>9, <1>13, <2>2, <3>1, OthersGoOn
    <3> QED BY <2>1, <3>2
  <2>3. CASE u = t
    <3>1. W[u] = D
      BY <2>3
    <3> QED BY <1>12, <2>1, <2>3, <3>1
  <2> QED BY <2>2, <2>3
<1>14. Known'
  BY <1>5, <1>6, <1>10, <1>13 DEF Known, Hist
<1>15. \A u \in Thread : u # t => pc'[u] = pc[u]
  BY <1>1 DEF Inv, TypeInv
<1> QED BY <1>1, <1>14, <1>15 DEF Truthful

\* While list_delete frees its node no other call uses the list.
LEMMA DeleteFreeTruth ==
  ASSUME NEW L, NEW R, NEW sq, NEW V, Inv(L, R, sq), Hist(L, R, V),
         ValAll', History, NEW t \in Thread, DeleteFree(t), ~ Early(t)
  PROVE  Truthful(t)
<1> PICK r : r = reg[t]
  OBVIOUS
<1> PICK z : z = [Idle EXCEPT !.out = "ok"]
  OBVIOUS
<1>1. PICK tq : Inv(L, L, tq)'
  BY DeleteFreeInv
<1>2. pc[t] = "d_free" /\ \A u \in Thread : pc[u] \in {"idle", "d_free"}
  BY DEF DeleteFree, Early
<1>3. ValInv(L)'
  BY <1>1 DEF ValAll, Inv
<1>4. /\ reg' = [reg EXCEPT ![t] = z] /\ pc' = [pc EXCEPT ![t] = "idle"]
      /\ UNCHANGED stack
  BY DEF DeleteFree, Return, Goto
<1>5. \A u \in Thread : u # t => pc'[u] = pc[u] /\ reg'[u] = reg[u]
  BY <1>4 DEF Inv, TypeInv
<1>6. pc'[t] = "idle" /\ reg'[t] = z
  BY <1>4 DEF Inv, TypeInv
<1>7. BackOk(L)'
  <2>1. \A w \in Thread : stack[w] = <<>>
    BY <1>2 DEF Inv, StackOk, Helping
  <2>2. \A w \in Thread : stack'[w] = <<>>
    BY <1>4, <2>1
  <2> QED BY <2>2 DEF BackOk
<1>8. ASSUME NEW u \in Thread, pc[u] = "d_free"
      PROVE  Was(seen[u]) /\ Had(seen[u], reg[u].v)
  BY <1>8 DEF Hist, HistOf
<1>9. ASSUME NEW u \in Thread, pc'[u] # "idle"
      PROVE  /\ Told(reg[u].arg, seen[u])'
             /\ HistOf(L, L, V[u], pc[u], stack[u], reg[u], seen[u])'
  <2>1. pc'[u] = "d_free" /\ pc[u] = "d_free" /\ reg'[u] = reg[u]
    BY <1>2, <1>5, <1>6, <1>9
  <2> PICK Z, Y, w : Z = seen[u] /\ Y = seen'[u] /\ w = reg[u].v
    OBVIOUS
  <2>2. Z \subseteq Y /\ Told(reg[u].arg, seen[u])'
    BY <1>9, SeenStep
  <2>3. Was(Z) /\ Had(Z, w)
    BY <1>8, <2>1
  <2>4. Was(Y) /\ Had(Y, w)
    BY <2>2, <2>3 DEF Was, Had
  <2>5. HistOf(L, L, V[u], pc[u], stack[u], reg[u], seen[u])'
    BY <2>1, <2>4 DEF HistOf, Was, Had
  <2> QED BY <2>2, <2>5
<1>10. Known'
  BY <1>1, <1>3, <1>7, <1>9 DEF Known, Hist
<1>11. Right(t)
  <2>1. reg'[t].out = "ok"
    BY <1>6 DEF Idle
  <2>2. reg[t].op = "delete"
    BY <1>2 DEF Inv, RegOk
  <2>3. Was(seen[t]) /\ Had(seen[t], reg[t].v)
    BY <1>2, <1>8
  <2> QED BY <2>1, <2>2, <2>3, RightDelete
<1> QED BY <1>5, <1>10, <1>11 DEF Truthful

-----------------------------------------------------------------------------
\* Every step keeps what the calls know, and what it returns is right.
LEMMA HelpStepTruth ==
  ASSUME NEW L, NEW R, NEW sq, NEW V, Inv(L, R, sq), Hist(L, R, V),
         ValAll', History, NEW t \in Thread, SearchFrom(t) \/ HelpFlagged(t)
  PROVE  Truthful(t)
<1>1. CASE SearchFrom(t)
  BY <1>1, SearchLocalTruth, SearchCasTruth DEF SearchFrom
<1>2. CASE HelpFlagged(t)
  BY <1>2, HelpLocalTruth, TryMarkCasTruth, HelpCasTruth DEF HelpFlagged
<1> QED BY <1>1, <1>2

LEMMA InsertTruth ==
  ASSUME NEW L, NEW R, NEW sq, NEW V, Inv(L, R, sq), Hist(L, R, V),
         ValAll', History, NEW t \in Thread, Insert(t)
  PROVE  Truthful(t)
<1>1. CASE InsertExists(t) \/ InsertNoMem(t) \/ InsertAlloc(t) \/ InsertLoad(t)
  BY <1>1, InsertExistsTruth, InsertNoMemTruth, InsertAllocTruth, InsertLoadTruth
<1>2. CASE \/ InsertCas(t) \/ InsertResult(t) \/ GoBack(t, "i_back", "i_search")
           \/ InsertSearch(t) \/ InsertAgain(t)
  BY <1>2, InsertCasTruth, InsertResultTruth, GoBackTruth, AgainTruth,
     InsertAgainTruth
<1> QED BY <1>1, <1>2 DEF Insert

LEMMA DeleteTruth ==
  ASSUME NEW L, NEW R, NEW sq, NEW V, Inv(L, R, sq), Hist(L, R, V),
         ValAll', History, NEW t \in Thread, Delete(t), ~ Early(t), ~ Misled(t)
  PROVE  Truthful(t)
<1>1. CASE DeleteFound(t) \/ FlagMark(t) \/ FlagFlag(t) \/ FlagCas(t) \/ FlagResult(t)
  BY <1>1, DeleteFoundTruth, FlagMarkTruth, FlagFlagTruth, FlagCasTruth,
     FlagResultTruth
<1>2. CASE \/ GoBack(t, "f_back", "f_search") \/ FlagSearch(t) \/ FlagAgain(t)
           \/ DeleteCopy(t) \/ DeleteFree(t)
  BY <1>2, GoBackTruth, AgainTruth, FlagAgainTruth, DeleteCopyTruth, DeleteFreeTruth
<1> QED BY <1>1, <1>2 DEF Delete

LEMMA StepTruth ==
  ASSUME Known, NEW t \in Thread, Step(t), History, ~ Early(t), ~ Misled(t)
  PROVE  Truthful(t)
<1>1. PICK L, R, sq, V : Inv(L, R, sq) /\ ValInv(L) /\ Hist(L, R, V)
  BY DEF Known
<1>2. ValAll'
  <2>1. Abstract
    BY <1>1 DEF Abstract
  <2>2. Abstract'
    BY <2>1, StepRefines DEF Refines
  <2> QED BY <2>2, ValAllNext
<1>3. ASSUME NEW o \in Ops[t],
             NEW v \in IF o[1] \in {"insert", "update"} THEN Value ELSE {None},
             Call(t, o[1], o[2], v)
      PROVE  Truthful(t)
  <2> PICK p, k : p = o[1] /\ k = o[2]
    OBVIOUS
  <2>1. o \in Op \X Key
    BY ListAssumption
  <2>2. /\ p \in Op /\ k \in Key /\ Call(t, p, k, v)
        /\ v \in IF p \in {"insert", "update"} THEN Value ELSE {None}
    BY <1>3, <2>1
  <2> QED BY <1>1, <1>2, <2>2, CallTruth
<1>4. CASE SearchFrom(t) \/ HelpFlagged(t)
  BY <1>1, <1>2, <1>4, HelpStepTruth
<1>5. CASE Insert(t)
  BY <1>1, <1>2, <1>5, InsertTruth
<1>6. CASE Delete(t)
  BY <1>1, <1>2, <1>6, DeleteTruth
<1>7. CASE Find(t)
  BY <1>1, <1>2, <1>7, FindTruth
<1> QED BY <1>3, <1>4, <1>5, <1>6, <1>7 DEF Step

LEMMA InitKnown ==
  ASSUME Init
  PROVE  Known
<1>1. PICK L, R, sq : Inv(L, R, sq) /\ ValInv(L)
  BY InitAbstract DEF Abstract
<1>2. \A u \in Thread : pc[u] = "idle" /\ stack[u] = <<>>
  BY DEF Init
<1> PICK V : V = [u \in Thread |-> {}]
  OBVIOUS
<1>3. Hist(L, R, V)
  BY <1>2 DEF Hist, BackOk
<1> QED BY <1>1, <1>3 DEF Known

LEMMA SameKnown ==
  ASSUME Known, UNCHANGED <<nodes, pc, reg, stack, calls, seen>>
  PROVE  Known'
<1> PICK L, R, sq, V : Inv(L, R, sq) /\ ValInv(L) /\ Hist(L, R, V)
  BY DEF Known
<1>1. Inv(L, R, sq)'
  BY SameInv
<1>2. UNCHANGED <<succ, back, key, val, pc, reg, stack, seen>>
  BY DEF nodes
<1>3. ValInv(L)'
  BY <1>2 DEF ValInv, ValOk
<1>4. items' = items
  <2>1. Keeps(L, L)
    BY <1>2 DEF Keeps, Live
  <2>2. TypeInv /\ ListInv(L) /\ TypeInv' /\ ListInv(L)'
    BY <1>1 DEF Inv
  <2> QED BY <2>1, <2>2, ItemsKept
<1>5. Hist(L, R, V)'
  BY <1>2, <1>4 DEF Hist, BackOk, Told, HistOf, Visited, FramesIn, Knows, Open
<1> QED BY <1>1, <1>3, <1>5 DEF Known

\* What a call returns was right at some moment of the call, until a hazard comes
\* about: a key that it does not find was not bound, one that exists was, and a
\* value was that of the key or of an update at the same time.
THEOREM ResultsCorrect == Spec => ResultsRight
<1>1. Init => Known
  BY InitKnown
<1>2. (spoilt # {} \/ Known) /\ [Next]_vars
        => /\ (spoilt # {} \/ Known)'
           /\ [spoilt' = {} =>
                \A t \in Thread : pc[t] # "idle" /\ pc'[t] = "idle" => Right(t)]_vars
  <2> SUFFICES ASSUME Known, [Next]_vars, spoilt' = {}
               PROVE  /\ Known'
                      /\ \A t \in Thread :
                           pc[t] # "idle" /\ pc'[t] = "idle" => Right(t)
    BY SpoiltStays
  <2>1. CASE UNCHANGED <<nodes, pc, reg, stack, calls, seen>>
    BY <2>1, SameKnown
  <2>2. ASSUME NEW t \in Thread, Step(t), History, ~ Early(t), ~ Misled(t)
        PROVE  /\ Known'
               /\ \A u \in Thread : pc[u] # "idle" /\ pc'[u] = "idle" => Right(u)
    BY <2>2, StepTruth DEF Truthful
  <2> QED BY <2>1, <2>2, NextCalm
<1> QED BY <1>1, <1>2, PTL DEF Spec, ResultsRight

-----------------------------------------------------------------------------
(***************************************************************************)
(* A use of the list in which no hazard comes about: one thread inserts    *)
(* keys and none deletes them, or one thread does it all.                  *)
(***************************************************************************)
OpsOf(t) == {o[1] : o \in Ops[t]}

OneWriter ==
  \E w \in Thread :
    /\ \A t \in Thread : OpsOf(t) \cap {"insert", "delete"} # {} => t = w
    /\ "delete" \in OpsOf(w) => Thread = {w}

\* What each call does, which of them may be freeing memory, and that a thread
\* on its own still finds what the first load of try_flag found.
UseInv ==
  /\ \A t \in Thread : pc[t] # "idle" => reg[t].op \in OpsOf(t) /\ t \notin freeing
  /\ \A t \in freeing : OpsOf(t) \cap {"insert", "delete"} # {}
  /\ \A t \in Thread : Thread = {t} /\ pc[t] \in {"f_mark", "f_flag"} =>
       succ[reg[t].prev].node = reg[t].node

\* A call goes on as the same call, and comes to the second load of try_flag when
\* the first one has found its node.
Proceeds(t) ==
  /\ pc[t] # "idle"
  /\ \A u \in Thread \ {t} : reg'[u] = reg[u]
  /\ pc'[t] = "idle" \/ reg'[t].op = reg[t].op
  /\ pc'[t] \in {"f_mark", "f_flag"} =>
       /\ UNCHANGED succ
       /\ \/ succ[reg'[t].prev].node = reg'[t].node
          \/ pc[t] \in {"f_mark", "f_flag"} /\ reg'[t] = reg[t]

LEMMA LocalProceeds ==
  ASSUME TypeInv, NEW t \in Thread, pc[t] # "idle", NEW l, NEW r, Local(t, l, r),
         r.op = reg[t].op, l \notin {"f_mark", "f_flag"}
  PROVE  Proceeds(t)
<1>1. pc'[t] = l /\ reg'[t] = r /\ \A u \in Thread \ {t} : reg'[u] = reg[u]
  BY DEF Local, Goto, TypeInv
<1> QED BY <1>1 DEF Proceeds

LEMMA ReturnProceeds ==
  ASSUME TypeInv, NEW t \in Thread, pc[t] # "idle", NEW o, Return(t, o)
  PROVE  Proceeds(t)
<1>1. pc'[t] = "idle" /\ \A u \in Thread \ {t} : reg'[u] = reg[u]
  BY DEF Return, Goto, TypeInv
<1> QED BY <1>1 DEF Proceeds

LEMMA GotoProceeds ==
  ASSUME TypeInv, NEW t \in Thread, pc[t] # "idle", NEW l, Goto(t, l),
         NEW r, reg' = [reg EXCEPT ![t] = r],
         r.op = reg[t].op, l \notin {"f_mark", "f_flag"}
  PROVE  Proceeds(t)
<1>1. pc'[t] = l /\ reg'[t] = r /\ \A u \in Thread \ {t} : reg'[u] = reg[u]
  BY DEF Goto, TypeInv
<1> QED BY <1>1 DEF Proceeds

LEMMA SameProceeds ==
  ASSUME TypeInv, NEW t \in Thread, pc[t] # "idle", UNCHANGED reg,
         NEW l, Goto(t, l), l \notin {"f_mark", "f_flag"}
  PROVE  Proceeds(t)
<1>1. pc'[t] = l /\ reg'[t] = reg[t]
  BY DEF Goto, TypeInv
<1> QED BY <1>1 DEF Proceeds

LEMMA FlagNodeProceeds ==
  ASSUME TypeInv, NEW t \in Thread, pc[t] # "idle", NEW r, FlagNode(t, r),
         r.op = reg[t].op
  PROVE  Proceeds(t)
<1>1. /\ pc'[t] = IF succ[r.prev].node = r.node THEN "f_mark" ELSE "f_cas"
      /\ reg'[t] = r /\ UNCHANGED succ
      /\ \A u \in Thread \ {t} : reg'[u] = reg[u]
  BY DEF FlagNode, Local, Goto, TypeInv, nodes
<1> QED BY <1>1 DEF Proceeds

LEMMA FromOp ==
  ASSUME NEW r \in Reg, NEW c
  PROVE  From(r, c).op = r.op /\ From(r, c).ret = r.ret
BY DEF From, Reg

LEMMA LookProceeds ==
  ASSUME TypeInv, NEW t \in Thread, pc[t] # "idle", NEW r, Look(t, r),
         r.op = reg[t].op, r.ret \in Found
  PROVE  Proceeds(t)
<1>1. Looked(r) \notin {"f_mark", "f_flag"}
  BY DEF Looked, Found
<1>2. Local(t, Looked(r), r)
  BY DEF Look
<1> HIDE DEF Looked
<1> QED BY <1>1, <1>2, LocalProceeds

LEMMA SearchProceeds ==
  ASSUME NEW L, NEW R, NEW sq, Inv(L, R, sq), NEW t \in Thread, SearchFrom(t)
  PROVE  Proceeds(t)
<1> PICK r : r = reg[t]
  OBVIOUS
<1>1. TypeInv
  BY DEF Inv
<1>2. pc[t] \in Searching
  BY DEF SearchFrom, SearchMark, SearchCurrMark, SearchCurrNext, SearchBody,
         SearchUnlink, SearchCas, SearchReload, SearchAdvance, Searching
<1>3. r \in Reg /\ r.ret \in Found /\ pc[t] # "idle"
  BY <1>2, SearchFacts DEF Searching
<1>4. CASE SearchMark(t) \/ SearchCurrMark(t) \/ SearchCurrNext(t) \/ SearchBody(t)
  <2>1. \E l : Branch(t, l) /\ l \notin {"f_mark", "f_flag"}
    BY <1>4 DEF SearchMark, SearchCurrMark, SearchCurrNext, SearchBody
  <2> QED BY <1>1, <1>3, <2>1, LocalProceeds DEF Branch
<1>5. CASE SearchUnlink(t)
  <2>1. \E z : z.op = r.op /\ Local(t, "s_cas", z)
    BY <1>3, <1>5 DEF SearchUnlink, Reg
  <2> QED BY <1>1, <1>3, <2>1, LocalProceeds
<1>6. CASE SearchCas(t)
  <2>1. Goto(t, "s_reload")
    BY <1>6 DEF SearchCas
  <2>2. PICK z : z.op = r.op /\ reg' = [reg EXCEPT ![t] = z]
    BY <1>3, <1>6 DEF SearchCas, Reg
  <2>3. \A u \in Thread : reg'[u] = IF u = t THEN z ELSE reg[u]
    BY <1>1, <2>2 DEF TypeInv
  <2>4. pc'[t] = "s_reload"
    BY <1>1, <2>1 DEF Goto, TypeInv
  <2> QED BY <1>3, <2>2, <2>3, <2>4 DEF Proceeds
<1>7. CASE SearchReload(t)
  <2> PICK z : z = From(r, r.curr)
    OBVIOUS
  <2>1. z.op = r.op
    BY <1>3, FromOp
  <2>2. Local(t, "s_mark", z)
    BY <1>7 DEF SearchReload
  <2> QED BY <1>1, <1>3, <2>1, <2>2, LocalProceeds
<1>8. CASE SearchAdvance(t)
  <2> PICK z : z = From(r, r.next)
    OBVIOUS
  <2>1. z.op = r.op /\ z.ret = r.ret
    BY <1>3, FromOp
  <2>2. Look(t, z) \/ Branch(t, r.ret)
    BY <1>8 DEF SearchAdvance
  <2>3. r.ret \notin {"f_mark", "f_flag"}
    BY <1>3 DEF Found
  <2>4. CASE Look(t, z)
    BY <1>1, <1>3, <2>1, <2>4, LookProceeds
  <2>5. CASE Branch(t, r.ret)
    BY <1>1, <1>3, <2>3, <2>5, LocalProceeds DEF Branch
  <2> QED BY <2>2, <2>4, <2>5
<1> QED BY <1>4, <1>5, <1>6, <1>7, <1>8 DEF SearchFrom

LEMMA HelpingProceeds ==
  ASSUME NEW L, NEW R, NEW sq, Inv(L, R, sq), NEW t \in Thread, HelpFlagged(t)
  PROVE  Proceeds(t)
<1>1. TypeInv /\ StackOk(L, R, pc[t], stack[t], reg[t])
  BY DEF Inv
<1>2. pc[t] \in Helping /\ pc[t] # "idle"
  BY DEF HelpFlagged, HelpBack, HelpTest, TryMarkNext, TryMarkCas,
         TryMarkResult, HelpUnlink, HelpCas, Helping
<1>3. CASE ~ HelpCas(t)
  <2>1. UNCHANGED reg /\ \E l : Goto(t, l) /\ l \notin {"f_mark", "f_flag"}
    <3>1. CASE HelpBack(t) \/ TryMarkNext(t) \/ TryMarkCas(t) \/ HelpUnlink(t)
      BY <3>1 DEF HelpBack, TryMarkNext, TryMarkCas, HelpUnlink
    <3>2. CASE HelpTest(t)
      <4>1. \E l : Branch(t, l) /\ l \notin {"f_mark", "f_flag"}
        BY <3>2 DEF HelpTest
      <4> QED BY <1>1, <4>1 DEF Branch, Local, TypeInv
    <3>3. CASE TryMarkResult(t)
      BY <3>3 DEF TryMarkResult, Help
    <3> QED BY <1>3, <3>1, <3>2, <3>3 DEF HelpFlagged
  <2> QED BY <1>1, <1>2, <2>1, SameProceeds
<1>4. CASE HelpCas(t)
  <2>1. stack[t] # <<>> /\ stack[t] \in Seq(HelpFrame)
    BY <1>1, <1>2 DEF StackOk, TypeInv
  <2>2. stack[t][1] \in HelpFrame
    BY <2>1
  <2>3. Top1(t).ret \notin {"f_mark", "f_flag"}
    BY <2>2 DEF Top1, HelpFrame
  <2>4. \/ Return(t, "noent")
        \/ Goto(t, Top1(t).ret) /\ UNCHANGED reg
    BY <1>4 DEF HelpCas, Resume
  <2>5. CASE Return(t, "noent")
    BY <1>1, <1>2, <2>5, ReturnProceeds
  <2>6. CASE Goto(t, Top1(t).ret) /\ UNCHANGED reg
    BY <1>1, <1>2, <2>3, <2>6, SameProceeds
  <2> QED BY <2>4, <2>5, <2>6
<1> QED BY <1>3, <1>4

LEMMA GoBackProceeds ==
  ASSUME TypeInv, NEW t \in Thread, NEW from, NEW to, GoBack(t, from, to),
         {from, to} \subseteq {"i_back", "i_search", "f_back", "f_search"}
  PROVE  Proceeds(t)
<1> PICK r : r = reg[t]
  OBVIOUS
<1> PICK z : z = [r EXCEPT !.prev = back[r.prev]]
  OBVIOUS
<1>1. pc[t] = from /\ (Local(t, from, z) \/ Branch(t, to))
  BY DEF GoBack
<1>2. z.op = r.op /\ pc[t] # "idle"
  BY <1>1 DEF TypeInv, Reg
<1>3. CASE Local(t, from, z)
  BY <1>2, <1>3, LocalProceeds
<1>4. CASE Branch(t, to)
  BY <1>2, <1>4, LocalProceeds DEF Branch
<1> QED BY <1>1, <1>3, <1>4

LEMMA AgainProceeds ==
  ASSUME TypeInv, NEW t \in Thread, pc[t] # "idle", NEW k, NEW l \in Found,
         SearchAgain(t, k, l)
  PROVE  Proceeds(t)
<1> PICK r : r = reg[t]
  OBVIOUS
<1> PICK z : z = [r EXCEPT !.key = k, !.ret = l]
  OBVIOUS
<1> PICK y : y = From(z, r.prev)
  OBVIOUS
<1>1. r \in Reg
  BY DEF TypeInv
<1>2. y.op = r.op /\ y.ret = l
  BY <1>1 DEF From, Reg
<1>3. Look(t, y)
  BY DEF SearchAgain
<1> QED BY <1>2, <1>3, LookProceeds

LEMMA LoadProceeds ==
  ASSUME TypeInv, NEW t \in Thread, pc[t] # "idle", NEW r, Load(t, r),
         r.op = reg[t].op
  PROVE  Proceeds(t)
<1>1. reg' = [reg EXCEPT ![t] = r] /\ \E l \in {"h_back", "i_cas"} : Goto(t, l)
  BY DEF Load, Help
<1> QED BY <1>1, GotoProceeds

LEMMA InsertProceeds ==
  ASSUME TypeInv, NEW t \in Thread, Insert(t)
  PROVE  Proceeds(t)
<1> PICK r : r = reg[t]
  OBVIOUS
<1> PICK z : z = [r EXCEPT !.prev = r.curr, !.curr = Null]
  OBVIOUS
<1>1. r \in Reg /\ z.op = r.op
  BY DEF TypeInv, Reg
<1>2. CASE InsertExists(t) \/ InsertNoMem(t)
  <2>1. pc[t] # "idle" /\ \E o : Return(t, o)
    BY <1>2 DEF InsertExists, InsertNoMem
  <2> QED BY <2>1, ReturnProceeds
<1>3. CASE InsertAlloc(t)
  <2>1. pc[t] # "idle" /\ Goto(t, "i_load")
    BY <1>3 DEF InsertAlloc
  <2>2. PICK y : y.op = r.op /\ reg' = [reg EXCEPT ![t] = y]
    BY <1>1, <1>3 DEF InsertAlloc, Reg
  <2>3. \A u \in Thread : reg'[u] = IF u = t THEN y ELSE reg[u]
    BY <2>2 DEF TypeInv
  <2>4. pc'[t] = "i_load"
    BY <2>1 DEF Goto, TypeInv
  <2> QED BY <2>1, <2>2, <2>3, <2>4 DEF Proceeds
<1>4. CASE InsertLoad(t)
  BY <1>4, LoadProceeds DEF InsertLoad
<1>5. CASE InsertCas(t)
  <2>1. /\ pc[t] # "idle"
        /\ Return(t, "ok") \/ (Goto(t, "i_result") /\ UNCHANGED reg)
    BY <1>5 DEF InsertCas
  <2> QED BY <2>1, ReturnProceeds, SameProceeds
<1>6. CASE InsertResult(t)
  <2>1. /\ pc[t] # "idle" /\ UNCHANGED reg
        /\ \E l \in {"h_back", "i_back"} : Goto(t, l)
    BY <1>6 DEF InsertResult, Help
  <2> QED BY <2>1, SameProceeds
<1>7. CASE GoBack(t, "i_back", "i_search")
  BY <1>7, GoBackProceeds
<1>8. CASE InsertSearch(t)
  <2>1. pc[t] # "idle" /\ \E k : SearchAgain(t, k, "i_again")
    BY <1>8 DEF InsertSearch
  <2> QED BY <2>1, AgainProceeds DEF Found
<1>9. CASE InsertAgain(t)
  <2>1. pc[t] # "idle" /\ (Return(t, "exist") \/ Load(t, z))
    BY <1>9 DEF InsertAgain
  <2> QED BY <1>1, <2>1, ReturnProceeds, LoadProceeds
<1> QED BY <1>2, <1>3, <1>4, <1>5, <1>6, <1>7, <1>8, <1>9 DEF Insert

LEMMA DeleteProceeds ==
  ASSUME TypeInv, NEW t \in Thread, Delete(t)
  PROVE  Proceeds(t)
<1> PICK r : r = reg[t]
  OBVIOUS
<1>1. r \in Reg
  BY DEF TypeInv
<1>2. CASE DeleteFound(t) \/ FlagAgain(t)
  <2>1. /\ pc[t] # "idle"
        /\ \/ Return(t, "noent")
           \/ FlagNode(t, [r EXCEPT !.prev = r.curr, !.curr = Null,
                                    !.node = r.next, !.next = Null])
           \/ FlagNode(t, [r EXCEPT !.prev = r.curr, !.curr = Null,
                                    !.next = Null])
    BY <1>2 DEF DeleteFound, FlagAgain
  <2>2. \E z : z.op = r.op /\ (Return(t, "noent") \/ FlagNode(t, z))
    BY <1>1, <2>1 DEF Reg
  <2> QED BY <2>1, <2>2, ReturnProceeds, FlagNodeProceeds
<1>3. CASE FlagMark(t)
  <2>1. pc[t] = "f_mark" /\ UNCHANGED <<succ, reg>>
    BY <1>3 DEF FlagMark, Branch, Local, nodes, TypeInv
  <2> QED BY <2>1 DEF Proceeds
<1>4. CASE FlagFlag(t) \/ FlagCas(t) \/ FlagResult(t)
  <2>1. /\ pc[t] # "idle" /\ UNCHANGED reg
        /\ \E l \in {"h_back", "f_cas", "f_result", "f_back"} : Goto(t, l)
    BY <1>4 DEF FlagFlag, FlagCas, FlagResult, Help
  <2> QED BY <2>1, SameProceeds
<1>5. CASE GoBack(t, "f_back", "f_search")
  BY <1>5, GoBackProceeds
<1>6. CASE FlagSearch(t)
  <2>1. pc[t] # "idle" /\ \E k : SearchAgain(t, k, "f_again")
    BY <1>6 DEF FlagSearch
  <2> QED BY <2>1, AgainProceeds DEF Found
<1>7. CASE DeleteCopy(t)
  <2>1. pc[t] # "idle" /\ \E z : z.op = r.op /\ Local(t, "d_free", z)
    BY <1>1, <1>7 DEF DeleteCopy, Reg
  <2> QED BY <2>1, LocalProceeds
<1>8. CASE DeleteFree(t)
  <2>1. pc[t] # "idle" /\ Return(t, "ok")
    BY <1>8 DEF DeleteFree
  <2> QED BY <2>1, ReturnProceeds
<1> QED BY <1>2, <1>3, <1>4, <1>5, <1>6, <1>7, <1>8 DEF Delete

LEMMA FindProceeds ==
  ASSUME TypeInv, NEW t \in Thread, Find(t)
  PROVE  Proceeds(t)
<1>1. pc[t] # "idle" /\ pc'[t] = "idle"
  BY DEF Find, NotFound, SearchFound, UpdateFound, Return, Goto, TypeInv
<1>2. \A u \in Thread \ {t} : reg'[u] = reg[u]
  BY DEF Find, NotFound, SearchFound, UpdateFound, Return, TypeInv
<1> QED BY <1>1, <1>2 DEF Proceeds

\* A call begins with an operation that its thread may call.
LEMMA CallBegins ==
  ASSUME TypeInv, NEW t \in Thread, NEW p \in Op, NEW k, NEW v, Call(t, p, k, v)
  PROVE  /\ pc[t] = "idle" /\ t \notin freeing
         /\ reg'[t].op = p /\ pc'[t] \notin {"f_mark", "f_flag"}
         /\ \A u \in Thread \ {t} : reg'[u] = reg[u]
<1> PICK r : r = [Idle EXCEPT !.op = p, !.arg = k, !.v = v,
                              !.key = IF p = "delete" THEN k - 1 ELSE k,
                              !.ret = CASE p = "insert" -> "i_found"
                                        [] p = "delete" -> "d_found"
                                        [] OTHER -> "q_found"]
  OBVIOUS
<1> PICK z : z = From(r, HeadN)
  OBVIOUS
<1>1. /\ r.op = p /\ r.ret \in {"i_found", "d_found", "q_found"}
      /\ z.op = r.op /\ z.ret = r.ret
  BY DEF Idle, From
<1>2. /\ pc[t] = "idle" /\ t \notin freeing
      /\ reg' = [reg EXCEPT ![t] = z] /\ pc' = [pc EXCEPT ![t] = Looked(z)]
  BY DEF Call, Goto
<1>3. Looked(z) \notin {"f_mark", "f_flag"}
  BY <1>1 DEF Looked
<1> HIDE DEF Looked
<1> QED BY <1>1, <1>2, <1>3 DEF TypeInv

LEMMA StepProceeds ==
  ASSUME IndInv, NEW t \in Thread, Step(t)
  PROVE  \/ Proceeds(t)
         \/ /\ pc[t] = "idle" /\ t \notin freeing
            /\ \A u \in Thread \ {t} : reg'[u] = reg[u]
            /\ reg'[t].op \in OpsOf(t) /\ pc'[t] \notin {"f_mark", "f_flag"}
<1> PICK L, R, sq : Inv(L, R, sq)
  BY DEF IndInv
<1>1. TypeInv
  BY DEF Inv
<1>2. ASSUME NEW o \in Ops[t],
             NEW v \in IF o[1] \in {"insert", "update"} THEN Value ELSE {None},
             Call(t, o[1], o[2], v)
      PROVE  /\ pc[t] = "idle" /\ t \notin freeing
             /\ \A u \in Thread \ {t} : reg'[u] = reg[u]
             /\ reg'[t].op \in OpsOf(t) /\ pc'[t] \notin {"f_mark", "f_flag"}
  <2> PICK p, k : p = o[1] /\ k = o[2]
    OBVIOUS
  <2>1. p \in Op /\ p \in OpsOf(t)
    BY ListAssumption DEF OpsOf
  <2>2. Call(t, p, k, v)
    BY <1>2
  <2> QED BY <1>1, <2>1, <2>2, CallBegins
<1> QED BY <1>1, <1>2, SearchProceeds, HelpingProceeds, InsertProceeds,
           DeleteProceeds, FindProceeds DEF Step

\* Who frees memory, or is at the third load of try_flag.
LEMMA WriterOnly ==
  ASSUME IndInv, UseInv, NEW t \in Thread
  PROVE  /\ pc[t] = "i_again" => "insert" \in OpsOf(t) /\ t \notin freeing
         /\ pc[t] \in {"d_free", "f_flag"} => "delete" \in OpsOf(t) /\ t \notin freeing
<1> PICK L, R, sq : Inv(L, R, sq)
  BY DEF IndInv
<1>1. RegOk(L, R, pc[t], reg[t])
  BY DEF Inv
<1>2. ASSUME pc[t] = "i_again" PROVE reg[t].op = "insert"
  BY <1>1, <1>2 DEF RegOk, Seeks, Mine, Found
<1>3. ASSUME pc[t] \in {"d_free", "f_flag"} PROVE reg[t].op = "delete"
  BY <1>1, <1>3 DEF RegOk, Target, Flagging
<1> QED BY <1>2, <1>3 DEF UseInv

LEMMA UseStep ==
  ASSUME IndInv, UseInv, NEW t \in Thread, Step(t), Hazards(t),
         \A u \in Thread : u # t => pc'[u] = pc[u]
  PROVE  UseInv'
<1>1. \/ Proceeds(t)
      \/ /\ pc[t] = "idle" /\ t \notin freeing
         /\ \A u \in Thread \ {t} : reg'[u] = reg[u]
         /\ reg'[t].op \in OpsOf(t) /\ pc'[t] \notin {"f_mark", "f_flag"}
  BY StepProceeds
<1>2. freeing' = IF Frees(t) THEN freeing \cup {t} ELSE freeing
  BY DEF Hazards
<1>3. Frees(t) => pc[t] \in {"i_again", "d_free"} /\ pc'[t] = "idle"
  BY DEF Frees
<1>4. ASSUME NEW u \in Thread, pc'[u] # "idle"
      PROVE  reg'[u].op \in OpsOf(u) /\ u \notin freeing'
  BY <1>1, <1>2, <1>3, <1>4 DEF UseInv, Proceeds
<1>5. ASSUME NEW u \in freeing'
      PROVE  OpsOf(u) \cap {"insert", "delete"} # {}
  BY <1>2, <1>3, <1>5, WriterOnly DEF UseInv
<1>6. ASSUME NEW u \in Thread, Thread = {u}, pc'[u] \in {"f_mark", "f_flag"}
      PROVE  succ'[reg'[u].prev].node = reg'[u].node
  BY <1>1, <1>6 DEF Proceeds, UseInv
<1> QED BY <1>4, <1>5, <1>6 DEF UseInv

\* No hazard comes about.
LEMMA UseCalm ==
  ASSUME OneWriter, IndInv, UseInv, HistType, spoilt = {},
         NEW t \in Thread, Step(t), Hazards(t)
  PROVE  spoilt' = {} /\ ~ Early(t) /\ ~ Misled(t)
<1> PICK w \in Thread :
      /\ \A u \in Thread : OpsOf(u) \cap {"insert", "delete"} # {} => u = w
      /\ "delete" \in OpsOf(w) => Thread = {w}
  BY DEF OneWriter
<1>1. ASSUME Early(t) PROVE FALSE
  <2>1. "delete" \in OpsOf(t)
    BY <1>1, WriterOnly DEF Early
  <2>2. Thread = {t}
    BY <2>1
  <2> QED BY <1>1, <2>2 DEF Early
<1>2. ASSUME Misled(t) PROVE FALSE
  <2>1. pc[t] = "f_flag" /\ succ[reg[t].prev].node # reg[t].node
    BY <1>2 DEF Misled
  <2>2. "delete" \in OpsOf(t)
    BY <2>1, WriterOnly
  <2>3. Thread = {t}
    BY <2>2
  <2> QED BY <2>1, <2>3 DEF UseInv
<1>3. ASSUME Frees(t) PROVE freeing = {}
  <2>1. OpsOf(t) \cap {"insert", "delete"} # {} /\ t \notin freeing
    BY <1>3, WriterOnly DEF Frees
  <2>2. t = w
    BY <2>1
  <2>3. \A u \in freeing : u = w
    BY DEF UseInv, HistType
  <2> QED BY <2>1, <2>2, <2>3
<1>4. ASSUME NEW h \in Hazard
      PROVE  ~ (CASE h = "early"   -> Early(t)
                  [] h = "misled"  -> Misled(t)
                  [] h = "overlap" -> Frees(t) /\ freeing # {})
  BY <1>1, <1>2, <1>3 DEF Hazard
<1>5. spoilt' = {}
  BY <1>4, Zenon DEF Hazards
<1> QED BY <1>1, <1>2, <1>5

\* One thread inserts and none deletes, or one thread does it all: the hazards
\* never come about, so what the list promises it promises throughout.  Two
\* threads that insert are too many already: both may free the nodes of keys
\* that exist (collections.c:1019-1024).
THEOREM NeverSpoilt ==
  ASSUME OneWriter
  PROVE  Spec => [](spoilt = {})
<1> DEFINE Whole == Known /\ UseInv /\ HistType /\ spoilt = {}
<1>1. Init => Whole
  <2> SUFFICES ASSUME Init PROVE Whole
    OBVIOUS
  <2>1. UseInv /\ HistType /\ spoilt = {}
    BY DEF Init, UseInv, HistType
  <2> QED BY <2>1, InitKnown
<1>2. Whole /\ [Next]_vars => Whole'
  <2> SUFFICES ASSUME Whole, [Next]_vars PROVE Whole'
    OBVIOUS
  <2>1. IndInv
    BY DEF Known, IndInv
  <2>2. CASE UNCHANGED vars
    <3>1. Known'
      BY <2>2, SameKnown DEF vars
    <3> QED BY <2>2, <3>1 DEF vars, nodes, UseInv, HistType
  <2>3. ASSUME NEW t \in Thread, FreeEnd(t) PROVE Whole'
    <3>1. Known'
      BY <2>3, SameKnown DEF FreeEnd
    <3> QED BY <2>3, <3>1 DEF FreeEnd, nodes, UseInv, HistType
  <2>4. ASSUME NEW t \in Thread, Step(t), History, Hazards(t) PROVE Whole'
    <3>1. spoilt' = {} /\ ~ Early(t) /\ ~ Misled(t)
      BY <2>1, <2>4, UseCalm
    <3>2. Known' /\ \A u \in Thread : u # t => pc'[u] = pc[u]
      BY <2>4, <3>1, StepTruth DEF Truthful
    <3>3. UseInv'
      BY <2>1, <2>4, <3>2, UseStep
    <3>4. HistType'
      BY <2>4 DEF Hazards, HistType
    <3> QED BY <3>1, <3>2, <3>3, <3>4
  <2> QED BY <2>2, <2>3, <2>4 DEF Next, Done
<1> QED BY <1>1, <1>2, PTL DEF Spec

\* Used so, the list is a map from keys to values.
THEOREM OneWriterDictionary ==
  ASSUME OneWriter
  PROVE  Spec => Dict!Spec
<1>1. Spec => [](spoilt = {})
  BY NeverSpoilt
<1>2. Spec => ImplementsDictionary
  BY DictionaryImplemented
<1>3. (spoilt = {})' /\ [Dict!Next \/ spoilt' # {}]_<<items, call>>
        => [Dict!Next]_<<items, call>>
  OBVIOUS
<1> QED BY <1>1, <1>2, <1>3, PTL DEF ImplementsDictionary, Dict!Spec

=============================================================================
