---------------------------- MODULE FutureProofs ----------------------------
(* Proofs about Future, for any number of getters and pollers. *)
EXTENDS Future, TLAPS

\* The places where a thread owns the mutex.
Critical(t) == pc[t] \in {"check", "value", "done", "signal", "unlock", "dead"}

MutexInv == \A t \in Thread : Critical(t) <=> mtx = t

\* Where each kind of thread can be.
PlaceInv ==
  /\ pc[Setter] \in {"idle", "lock", "value", "done", "signal", "unlock", "returned"}
  /\ \A g \in Getter : pc[g] \in {"idle", "lock", "relock", "check", "wait",
                                  "read", "dead", "returned"}
  /\ \A q \in Poller : pc[q] \in {"idle", "lock", "check"}

\* done is set after the value, and a getter that saw done took the mutex
\* after the setter had released it.
DataInv ==
  /\ pc[Setter] \in {"done", "signal", "unlock", "returned"} => value = arg
  /\ done <=> pc[Setter] \in {"signal", "unlock", "returned"}
  /\ \A g \in Getter : /\ pc[g] \in {"read", "returned"} => pc[Setter] = "returned"
                       /\ pc[g] = "returned" => got[g] = arg
  /\ \A q \in Poller : has[q] => pc[Setter] = "returned"

Inv == TypeOK /\ MutexInv /\ PlaceInv /\ DataInv

-----------------------------------------------------------------------------
\* The invariant holds initially.
LEMMA InitInv == Init => Inv
<1> SUFFICES ASSUME Init PROVE Inv
  OBVIOUS
<1> USE DEF Init
<1>1. TypeOK
  BY FutureAssumption DEF TypeOK, Label
<1>2. MutexInv
  BY FutureAssumption DEF MutexInv, Critical
<1>3. PlaceInv
  BY DEF PlaceInv, Thread
<1>4. DataInv
  BY DEF DataInv, Thread
<1> QED
  BY <1>1, <1>2, <1>3, <1>4 DEF Inv

\* Every action of the setter, a getter or a poller preserves the invariant.
LEMMA StepInv == Inv /\ [Next]_vars => Inv'
<1> SUFFICES ASSUME Inv, [Next]_vars PROVE Inv'
  OBVIOUS
<1> USE FutureAssumption DEF Inv
<1>1. ASSUME NEW t \in Thread, Call(t) PROVE Inv'
  <2> USE <1>1 DEF Call, Goto, Thread
  <2>1. TypeOK'
    BY DEF TypeOK, Label
  <2>2. MutexInv'
    BY DEF TypeOK, MutexInv, PlaceInv, Critical
  <2>3. PlaceInv'
    BY DEF TypeOK, PlaceInv
  <2>4. DataInv'
    BY DEF TypeOK, MutexInv, PlaceInv, DataInv, Critical
  <2> QED
    BY <2>1, <2>2, <2>3, <2>4
<1>2. ASSUME NEW t \in Thread, Acquire(t) PROVE Inv'
  <2> USE <1>2 DEF Acquire, Goto, Thread
  <2>1. TypeOK'
    BY DEF TypeOK, Label
  <2>2. MutexInv'
    BY DEF TypeOK, MutexInv, PlaceInv, Critical
  <2>3. PlaceInv'
    BY DEF TypeOK, PlaceInv
  <2>4. DataInv'
    BY DEF TypeOK, MutexInv, PlaceInv, DataInv, Critical
  <2> QED
    BY <2>1, <2>2, <2>3, <2>4
<1>3. ASSUME SetValue PROVE Inv'
  <2> USE <1>3 DEF SetValue, Goto, Thread
  <2>1. TypeOK'
    BY DEF TypeOK, Label
  <2>2. MutexInv'
    BY DEF TypeOK, MutexInv, PlaceInv, Critical
  <2>3. PlaceInv'
    BY DEF TypeOK, PlaceInv
  <2>4. DataInv'
    BY DEF TypeOK, MutexInv, PlaceInv, DataInv, Critical
  <2> QED
    BY <2>1, <2>2, <2>3, <2>4
<1>4. ASSUME SetDone PROVE Inv'
  <2> USE <1>4 DEF SetDone, Goto, Thread
  <2>1. TypeOK'
    BY DEF TypeOK, Label
  <2>2. MutexInv'
    BY DEF TypeOK, MutexInv, PlaceInv, Critical
  <2>3. PlaceInv'
    BY DEF TypeOK, PlaceInv
  <2>4. DataInv'
    BY DEF TypeOK, MutexInv, PlaceInv, DataInv, Critical
  <2> QED
    BY <2>1, <2>2, <2>3, <2>4
<1>5. ASSUME Signal PROVE Inv'
  <2> USE <1>5 DEF Signal, Waiting, Goto, Thread
  <2>1. TypeOK'
    BY DEF TypeOK, Label
  <2>2. MutexInv'
    BY DEF TypeOK, MutexInv, PlaceInv, Critical
  <2>3. PlaceInv'
    BY DEF TypeOK, PlaceInv
  <2>4. DataInv'
    BY DEF TypeOK, MutexInv, PlaceInv, DataInv, Critical
  <2> QED
    BY <2>1, <2>2, <2>3, <2>4
<1>6. ASSUME SetUnlock PROVE Inv'
  <2> USE <1>6 DEF SetUnlock, Goto, Thread
  <2>1. TypeOK'
    BY DEF TypeOK, Label
  <2>2. MutexInv'
    BY DEF TypeOK, MutexInv, PlaceInv, Critical
  <2>3. PlaceInv'
    BY DEF TypeOK, PlaceInv
  <2>4. DataInv'
    BY DEF TypeOK, MutexInv, PlaceInv, DataInv, Critical
  <2> QED
    BY <2>1, <2>2, <2>3, <2>4
<1>7. ASSUME NEW g \in Getter, Check(g) PROVE Inv'
  <2> USE <1>7 DEF Check, Goto, Thread
  <2>1. TypeOK'
    BY DEF TypeOK, Label
  <2>2. MutexInv'
    BY DEF TypeOK, MutexInv, PlaceInv, Critical
  <2>3. PlaceInv'
    BY DEF TypeOK, PlaceInv
  <2>4. DataInv'
    BY DEF TypeOK, MutexInv, PlaceInv, DataInv, Critical
  <2> QED
    BY <2>1, <2>2, <2>3, <2>4
<1>8. ASSUME NEW g \in Getter, SpuriousWakeup(g) PROVE Inv'
  <2> USE <1>8 DEF SpuriousWakeup, Goto, Thread
  <2>1. TypeOK'
    BY DEF TypeOK, Label
  <2>2. MutexInv'
    BY DEF TypeOK, MutexInv, PlaceInv, Critical
  <2>3. PlaceInv'
    BY DEF TypeOK, PlaceInv
  <2>4. DataInv'
    BY DEF TypeOK, MutexInv, PlaceInv, DataInv, Critical
  <2> QED
    BY <2>1, <2>2, <2>3, <2>4
<1>9. ASSUME NEW g \in Getter, CancelInWait(g) PROVE Inv'
  <2> USE <1>9 DEF CancelInWait, Goto, Thread
  <2>1. TypeOK'
    BY DEF TypeOK, Label
  <2>2. MutexInv'
    BY DEF TypeOK, MutexInv, PlaceInv, Critical
  <2>3. PlaceInv'
    BY DEF TypeOK, PlaceInv
  <2>4. DataInv'
    BY DEF TypeOK, MutexInv, PlaceInv, DataInv, Critical
  <2> QED
    BY <2>1, <2>2, <2>3, <2>4
<1>10. ASSUME NEW g \in Getter, Read(g) PROVE Inv'
  <2> USE <1>10 DEF Read, Goto, Thread
  <2>1. TypeOK'
    BY DEF TypeOK, Label
  <2>2. MutexInv'
    BY DEF TypeOK, MutexInv, PlaceInv, Critical
  <2>3. PlaceInv'
    BY DEF TypeOK, PlaceInv
  <2>4. DataInv'
    BY DEF TypeOK, MutexInv, PlaceInv, DataInv, Critical
  <2> QED
    BY <2>1, <2>2, <2>3, <2>4
<1>11. ASSUME NEW q \in Poller, Poll(q) PROVE Inv'
  <2> USE <1>11 DEF Poll, Goto, Thread
  <2>1. TypeOK'
    BY DEF TypeOK, Label
  <2>2. MutexInv'
    BY DEF TypeOK, MutexInv, PlaceInv, Critical
  <2>3. PlaceInv'
    BY DEF TypeOK, PlaceInv
  <2>4. DataInv'
    BY DEF TypeOK, MutexInv, PlaceInv, DataInv, Critical
  <2> QED
    BY <2>1, <2>2, <2>3, <2>4
<1>12. CASE UNCHANGED vars
  BY <1>12 DEF vars, TypeOK, MutexInv, PlaceInv, DataInv, Critical
<1> QED
  BY <1>1, <1>2, <1>3, <1>4, <1>5, <1>6, <1>7, <1>8, <1>9, <1>10, <1>11, <1>12 DEF Next, GetterNext, Terminated

-----------------------------------------------------------------------------
\* The invariant holds in every behaviour.
THEOREM InvHolds == Spec => []Inv
BY InitInv, StepInv, PTL DEF Spec

\* The future and its threads are well typed.
THEOREM TypeCorrect == Spec => []TypeOK
<1>1. Inv => TypeOK
  BY DEF Inv
<1> QED
  BY <1>1, InvHolds, PTL

\* future_get_value yields what promise_set_value stored, however many getters
\* and pollers there are and wherever they are cancelled: a getter that saw
\* done set took the mutex after the setter had released it for good.
THEOREM GetsTheValueHolds == Spec => []GetsTheValue
<1>1. Inv => GetsTheValue
  BY DEF Inv, DataInv, GetsTheValue
<1> QED
  BY <1>1, InvHolds, PTL

\* No getter returns before the setter has left the promise for good, so that
\* thrd_create may keep the promise on its stack.
THEOREM StorageReleasedHolds == Spec => []StorageReleased
<1>1. Inv => StorageReleased
  BY DEF Inv, DataInv, StorageReleased
<1> QED
  BY <1>1, InvHolds, PTL

=============================================================================
