---------------------------- MODULE ReadersProofs ----------------------------
(***************************************************************************)
(* Theorems about Readers, for any finite set of threads, any cells, any   *)
(* length of a value and any number Busy in place of UINT32_MAX.           *)
(***************************************************************************)
EXTENDS Suspension, FiniteSetTheorems, TLAPS

-----------------------------------------------------------------------------
(***************************************************************************)
(* The inductive invariant.                                                *)
(***************************************************************************)
InCall == {"load", "cas", "copy", "update"}

\* A call has its arguments, and what it has loaded admits it.
CallInv ==
  \A t \in Thread :
    /\ pc[t] \in InCall => cell[t] \in Cell
    /\ pc[t] = "copy" => arg[t] = None
    /\ pc[t] = "update" => arg[t] \in Value
    /\ pc[t] = "cas" => Admits(t, orig[t])

\* The words that have been moved are those of the source.
MovedInv ==
  \A t \in Thread : \A w \in Word \ todo[t] :
    /\ pc[t] = "copy" => buf[t][w] = val[cell[t]][w]
    /\ pc[t] = "update" => val[cell[t]][w] = arg[t]

\* Values are whole unless somebody updates them, results unless somebody
\* copies them.
WholeInv ==
  /\ \A c \in Cell : \/ \E u \in Thread : pc[u] = "update" /\ cell[u] = c
                     \/ \E v \in Value : val[c] = Whole(v)
  /\ \A t \in Thread : pc[t] # "copy" => \E v \in Value : buf[t] = Whole(v)

IInv == TypeOK /\ WordExact /\ CallInv /\ MovedInv /\ WholeInv

-----------------------------------------------------------------------------
\* What joining and leaving a set of threads does to its size.
LEMMA Joins ==
  ASSUME NEW S, S \subseteq Thread, NEW t \in Thread, t \notin S
  PROVE  Cardinality(S \cup {t}) = Cardinality(S) + 1
BY FS_Subset, FS_AddElement, FS_CardinalityType, ReadersAssumption

LEMMA Leaves ==
  ASSUME NEW S, S \subseteq Thread, NEW t \in S
  PROVE  /\ Cardinality(S \ {t}) = Cardinality(S) - 1
         /\ Cardinality(S) \in Nat \ {0}
BY FS_Subset, FS_RemoveElement, FS_CardinalityType, FS_EmptySet, ReadersAssumption

LEMMA InitInv == Init => IInv
<1> SUFFICES ASSUME Init PROVE IInv
  OBVIOUS
<1> USE ReadersAssumption DEF Init
<1>1. TypeOK
  BY DEF TypeOK, Data, Whole
<1>2. Copiers = {} /\ Updaters = {}
  BY DEF Copiers, Updaters
<1>3. WordExact
  BY <1>2, FS_EmptySet DEF WordExact
<1>4. CallInv /\ MovedInv
  BY DEF CallInv, MovedInv, InCall
<1>5. WholeInv
  BY DEF WholeInv
<1> QED
  BY <1>1, <1>3, <1>4, <1>5 DEF IInv

-----------------------------------------------------------------------------
(***************************************************************************)
(* One lemma per step.                                                     *)
(***************************************************************************)
LEMMA CallStep ==
  ASSUME IInv, NEW t \in Thread, NEW c \in Cell, NEW v \in Value \cup {None},
         Call(t, c, v)
  PROVE  IInv'
<1> USE ReadersAssumption DEF IInv, Call, Goto, TypeOK
<1>1. TypeOK'
  BY DEF Data
<1>2. Copiers' = Copiers /\ Updaters' = Updaters
  BY DEF Copiers, Updaters
<1>3. WordExact'
  BY <1>2 DEF WordExact
<1>4. CallInv'
  BY DEF CallInv, InCall, Admits
<1>5. MovedInv'
  BY DEF MovedInv
<1>6. WholeInv'
  BY DEF WholeInv
<1> QED
  BY <1>1, <1>3, <1>4, <1>5, <1>6 DEF IInv

LEMMA LoadStep ==
  ASSUME IInv, NEW t \in Thread, Load(t)
  PROVE  IInv'
<1> USE ReadersAssumption DEF IInv, Load, Goto, TypeOK
<1>1. TypeOK'
  BY DEF Data
<1>2. Copiers' = Copiers /\ Updaters' = Updaters
  BY DEF Copiers, Updaters
<1>3. WordExact'
  BY <1>2 DEF WordExact
<1>4. CallInv'
  BY DEF CallInv, InCall, Admits
<1>5. MovedInv'
  BY DEF MovedInv
<1>6. WholeInv'
  BY DEF WholeInv
<1> QED
  BY <1>1, <1>3, <1>4, <1>5, <1>6 DEF IInv

LEMMA EnterFailsStep ==
  ASSUME IInv, NEW t \in Thread, EnterFails(t)
  PROVE  IInv'
<1> USE ReadersAssumption DEF IInv, EnterFails, Goto, TypeOK
<1>1. TypeOK'
  BY DEF Data
<1>2. Copiers' = Copiers /\ Updaters' = Updaters
  BY DEF Copiers, Updaters
<1>3. WordExact'
  BY <1>2 DEF WordExact
<1>4. CallInv'
  BY DEF CallInv, InCall, Admits
<1>5. MovedInv'
  BY DEF MovedInv
<1>6. WholeInv'
  BY DEF WholeInv
<1> QED
  BY <1>1, <1>3, <1>4, <1>5, <1>6 DEF IInv

\* The word that admits a call is still what the call has loaded.
LEMMA EnterCopyStep ==
  ASSUME IInv, NEW t \in Thread, Enter(t), arg[t] = None
  PROVE  IInv'
<1> USE ReadersAssumption DEF IInv, Enter, Entered, Goto, TypeOK
<1>1. readers # Busy /\ readers' = readers + 1 /\ pc'[t] = "copy"
  BY DEF CallInv, Admits
<1>2. TypeOK'
  <2>1. readers' \in 0 .. Busy
    BY <1>1
  <2> QED
    BY <2>1
<1>3. Updaters = {} /\ Updaters' = {}
  BY <1>1 DEF WordExact, Updaters
<1>4. Copiers' = Copiers \cup {t} /\ t \notin Copiers /\ Copiers \subseteq Thread
  BY DEF Copiers
<1>5. WordExact'
  BY <1>1, <1>3, <1>4, Joins DEF WordExact
<1>6. CallInv'
  BY DEF CallInv, InCall, Admits
<1>7. MovedInv'
  BY DEF MovedInv
<1>8. WholeInv'
  BY DEF WholeInv
<1> QED
  BY <1>2, <1>5, <1>6, <1>7, <1>8 DEF IInv

LEMMA EnterUpdateStep ==
  ASSUME IInv, NEW t \in Thread, Enter(t), arg[t] # None
  PROVE  IInv'
<1> USE ReadersAssumption DEF IInv, Enter, Entered, Goto, TypeOK
<1>1. readers = 0 /\ readers' = Busy /\ pc'[t] = "update"
  BY DEF CallInv, Admits
<1>2. TypeOK'
  BY <1>1 DEF Data
<1>3. Updaters = {}
  BY <1>1 DEF WordExact
<1>4. Copiers = {}
  <2>1. Copiers \subseteq Thread /\ Cardinality(Copiers) = 0
    BY <1>1, <1>3 DEF WordExact, Copiers
  <2> QED
    BY <2>1, FS_Subset, FS_EmptySet
<1>5. Copiers' = {} /\ Updaters' = {t}
  BY <1>3, <1>4 DEF Copiers, Updaters
<1>6. WordExact'
  BY <1>1, <1>5 DEF WordExact
<1>7. CallInv'
  BY DEF CallInv, InCall, Admits
<1>8. MovedInv'
  BY DEF MovedInv
<1>9. WholeInv'
  BY DEF WholeInv
<1> QED
  BY <1>2, <1>6, <1>7, <1>8, <1>9 DEF IInv

LEMMA CopyWordStep ==
  ASSUME IInv, NEW t \in Thread, NEW w \in Word, CopyWord(t, w)
  PROVE  IInv'
<1> USE ReadersAssumption DEF IInv, CopyWord, TypeOK
<1>1. TypeOK'
  BY DEF Data, CallInv, InCall
<1>2. Copiers' = Copiers /\ Updaters' = Updaters
  BY DEF Copiers, Updaters
<1>3. WordExact'
  BY <1>2 DEF WordExact
<1>4. CallInv'
  BY DEF CallInv, InCall, Admits
<1>5. MovedInv'
  BY DEF MovedInv, Data
<1>6. WholeInv'
  BY DEF WholeInv
<1> QED
  BY <1>1, <1>3, <1>4, <1>5, <1>6 DEF IInv

\* Nobody else copies or updates.
LEMMA UpdateWordStep ==
  ASSUME IInv, NEW t \in Thread, NEW w \in Word, UpdateWord(t, w)
  PROVE  IInv'
<1> USE ReadersAssumption DEF IInv, UpdateWord, TypeOK
<1>1. TypeOK'
  BY DEF Data, CallInv, InCall
<1>2. Copiers' = Copiers /\ Updaters' = Updaters
  BY DEF Copiers, Updaters
<1>3. WordExact'
  BY <1>2 DEF WordExact
<1>4. CallInv'
  BY DEF CallInv, InCall, Admits
<1>5. \A s \in Thread : pc[s] # "copy" /\ (pc[s] = "update" => s = t)
  BY DEF WordExact, Updaters, Copiers
<1>6. MovedInv'
  BY <1>5 DEF MovedInv, Data, CallInv, InCall
<1>7. WholeInv'
  BY DEF WholeInv
<1> QED
  BY <1>1, <1>3, <1>4, <1>6, <1>7 DEF IInv

LEMMA LeaveCopyStep ==
  ASSUME IInv, NEW t \in Thread, LeaveCopy(t)
  PROVE  IInv'
<1> USE ReadersAssumption DEF IInv, LeaveCopy, Goto, TypeOK
<1>1. Updaters = {} /\ Updaters' = {}
  BY DEF WordExact, Updaters, Copiers
<1>2. Copiers' = Copiers \ {t} /\ t \in Copiers /\ Copiers \subseteq Thread
  BY DEF Copiers
<1>3. readers \in Nat \ {0} /\ readers = Cardinality(Copiers)
  BY <1>1, <1>2, Leaves DEF WordExact
<1>4. TypeOK'
  <2>1. readers' \in 0 .. Busy
    BY <1>3
  <2> QED
    BY <2>1
<1>5. WordExact'
  BY <1>1, <1>2, <1>3, Leaves DEF WordExact
<1>6. CallInv'
  BY DEF CallInv, InCall, Admits
<1>7. MovedInv'
  BY DEF MovedInv
<1>8. \E v \in Value : buf[t] = Whole(v)
  <2>1. PICK v \in Value : val[cell[t]] = Whole(v)
    BY <1>1 DEF WholeInv, Updaters, CallInv, InCall
  <2>2. buf[t] = val[cell[t]]
    BY DEF MovedInv, Data, CallInv, InCall
  <2> QED
    BY <2>1, <2>2
<1>9. WholeInv'
  BY <1>1, <1>8 DEF WholeInv, Updaters
<1> QED
  BY <1>4, <1>5, <1>6, <1>7, <1>9 DEF IInv

LEMMA LeaveUpdateStep ==
  ASSUME IInv, NEW t \in Thread, LeaveUpdate(t)
  PROVE  IInv'
<1> USE ReadersAssumption DEF IInv, LeaveUpdate, Goto, TypeOK
<1>1. TypeOK'
  BY DEF Data
<1>2. Updaters' = {} /\ Copiers' = {}
  BY DEF WordExact, Updaters, Copiers
<1>3. WordExact'
  BY <1>2, FS_EmptySet DEF WordExact
<1>4. CallInv'
  BY DEF CallInv, InCall, Admits
<1>5. MovedInv'
  BY DEF MovedInv
<1>6. val[cell[t]] = Whole(arg[t]) /\ arg[t] \in Value
  BY DEF MovedInv, Data, CallInv, InCall, Whole
<1>7. \A u \in Thread : pc[u] = "update" => u = t
  BY DEF WordExact, Updaters
<1>8. WholeInv'
  BY <1>6, <1>7 DEF WholeInv
<1> QED
  BY <1>1, <1>3, <1>4, <1>5, <1>8 DEF IInv

LEMMA StutterStep == IInv /\ UNCHANGED vars => IInv'
BY DEF IInv, vars, TypeOK, WordExact, Copiers, Updaters, CallInv, InCall, Admits,
       MovedInv, WholeInv

LEMMA NextInv == IInv /\ [Next]_vars => IInv'
<1> SUFFICES ASSUME IInv, [Next]_vars PROVE IInv'
  OBVIOUS
<1>1. CASE UNCHANGED vars
  BY <1>1, StutterStep
<1>2. ASSUME NEW t \in Thread, NEW c \in Cell, NEW v \in Value \cup {None},
             Call(t, c, v)
      PROVE  IInv'
  BY <1>2, CallStep
<1>3. ASSUME NEW t \in Thread, Step(t) PROVE IInv'
  <2>1. CASE Enter(t)
    BY <2>1, EnterCopyStep, EnterUpdateStep
  <2>2. ASSUME NEW w \in Word, CopyWord(t, w) \/ UpdateWord(t, w) PROVE IInv'
    BY <2>2, CopyWordStep, UpdateWordStep
  <2>3. CASE Spin(t)
    BY <2>3, StutterStep DEF Spin
  <2> QED
    BY <1>3, <2>1, <2>2, <2>3, LoadStep, EnterFailsStep, LeaveCopyStep,
       LeaveUpdateStep DEF Step
<1> QED
  BY <1>1, <1>2, <1>3 DEF Next

-----------------------------------------------------------------------------
LEMMA Invariance == Spec => []IInv
BY InitInv, NextInv, PTL DEF Spec

\* Types are correct, and the word never leaves the range of a uint32_t.
THEOREM TypeCorrect == Spec => []TypeOK
<1>1. IInv => TypeOK
  BY DEF IInv
<1> QED
  BY <1>1, Invariance, PTL

\* The word tells exactly who copies and who updates (collections.c:1117,
\* 1164, 1194), for any number of threads.
THEOREM WordExactHolds == Spec => []WordExact
<1>1. IInv => WordExact
  BY DEF IInv
<1> QED
  BY <1>1, Invariance, PTL

\* No copy mixes the words of two updates (test/collections.cpp:436).
THEOREM CopiesWholeHolds == Spec => []CopiesWhole
<1>1. IInv => CopiesWhole
  BY DEF IInv, WholeInv, CopiesWhole
<1> QED
  BY <1>1, Invariance, PTL
-----------------------------------------------------------------------------
(***************************************************************************)
(* The refinement of Register: an update and a copy take effect when they  *)
(* are let in; every other step changes neither Stored nor Got.            *)
(***************************************************************************)
LEMMA StoredType == IInv => Stored \in [Cell -> Data] /\ Got \in [Thread -> Data]
<1> SUFFICES ASSUME IInv PROVE Stored \in [Cell -> Data] /\ Got \in [Thread -> Data]
  OBVIOUS
<1>1. Updaters # {} => Updater \in Thread /\ pc[Updater] = "update"
  BY DEF Updaters, Updater
<1>2. Updaters # {} => Whole(arg[Updater]) \in Data
  BY <1>1 DEF IInv, CallInv, Whole, Data
<1>3. Stored \in [Cell -> Data]
  BY <1>2 DEF Stored, IInv, TypeOK
<1>4. Got \in [Thread -> Data]
  BY DEF Got, IInv, TypeOK, CallInv, InCall
<1> QED
  BY <1>3, <1>4

\* The updater is the one that the invariant allows.
LEMMA TheUpdater ==
  ASSUME IInv, NEW t \in Thread, pc[t] = "update"
  PROVE  Updater = t /\ Updaters # {}
<1>1. t \in Updaters
  BY DEF Updaters
<1>2. Updater \in Updaters
  BY <1>1 DEF Updaters, Updater
<1> QED
  BY <1>1, <1>2 DEF IInv, WordExact

LEMMA EnterRefines ==
  ASSUME IInv, IInv', NEW t \in Thread, Enter(t)
  PROVE  R!Next
<1> USE DEF IInv, TypeOK, Enter, Goto
<1>1. cell[t] \in Cell /\ Updaters = {}
  <2>1. cell[t] \in Cell /\ readers # Busy
    BY ReadersAssumption DEF CallInv, InCall, Admits
  <2> QED
    BY <2>1 DEF WordExact
<1>2. CASE arg[t] = None
  <2>1. Updaters' = {}
    BY <1>1, <1>2 DEF Updaters
  <2>2. Stored' = Stored /\ Stored[cell[t]] = val[cell[t]]
    BY <1>1, <2>1 DEF Stored
  <2>3. Got' = [Got EXCEPT ![t] = Stored[cell[t]]]
    BY <1>1, <1>2, <2>2 DEF Got
  <2> QED
    BY <1>1, <2>2, <2>3 DEF R!Next, R!Copy
<1>3. CASE arg[t] # None
  <2>1. pc'[t] = "update"
    BY <1>3
  <2>2. Updater' = t /\ Updaters' # {}
    <3>1. Updater' \in Updaters' /\ t \in Updaters'
      BY <2>1 DEF Updater, Updaters
    <3> QED
      BY <3>1 DEF WordExact
  <2>3. Whole(arg[t]) \in Data
    BY <1>3 DEF Whole, Data
  <2>4. Stored' = [Stored EXCEPT ![cell[t]] = Whole(arg[t])]
    BY <1>1, <2>2 DEF Stored
  <2>5. Got' = Got
    BY <1>3 DEF Got
  <2> QED
    BY <1>1, <2>3, <2>4, <2>5 DEF R!Next, R!Update
<1> QED
  BY <1>2, <1>3

\* The words that remain come from, or go to, where the observer sees them
\* already.
LEMMA LeaveCopyRefines ==
  ASSUME IInv, NEW t \in Thread, LeaveCopy(t)
  PROVE  UNCHANGED R!vars
<1> USE DEF IInv, TypeOK, LeaveCopy, Goto
<1>1. buf[t] = val[cell[t]]
  BY DEF MovedInv, Data, CallInv, InCall
<1>2. Updaters = {} /\ Updaters' = {}
  BY DEF WordExact, Updaters, Copiers
<1>3. Got' = Got
  BY <1>1 DEF Got
<1>4. Stored' = Stored
  BY <1>2 DEF Stored
<1> QED
  BY <1>3, <1>4 DEF R!vars

LEMMA LeaveUpdateRefines ==
  ASSUME IInv, NEW t \in Thread, LeaveUpdate(t)
  PROVE  UNCHANGED R!vars
<1> USE DEF IInv, TypeOK, LeaveUpdate, Goto
<1>1. val[cell[t]] = Whole(arg[t]) /\ cell[t] \in Cell
  BY DEF MovedInv, Data, CallInv, InCall, Whole
<1>2. Updater = t /\ Updaters # {}
  BY TheUpdater
<1>3. Updaters' = {}
  BY DEF WordExact, Updaters
<1>4. Stored' = Stored
  BY <1>1, <1>2, <1>3 DEF Stored
<1>5. Got' = Got
  BY DEF Got
<1> QED
  BY <1>4, <1>5 DEF R!vars

LEMMA CopyWordRefines ==
  ASSUME IInv, NEW t \in Thread, NEW w \in Word, CopyWord(t, w)
  PROVE  UNCHANGED R!vars
<1> USE DEF IInv, TypeOK, CopyWord
<1>1. Stored' = Stored
  BY DEF Stored, Updaters, Updater
<1>2. Got' = Got
  BY DEF Got
<1> QED
  BY <1>1, <1>2 DEF R!vars

LEMMA UpdateWordRefines ==
  ASSUME IInv, NEW t \in Thread, NEW w \in Word, UpdateWord(t, w)
  PROVE  UNCHANGED R!vars
<1> USE DEF IInv, TypeOK, UpdateWord
<1>1. Updater = t /\ Updaters # {}
  BY TheUpdater
<1>2. Updater' = t /\ Updaters' = Updaters
  BY <1>1 DEF Updater, Updaters
<1>3. Stored' = Stored
  BY <1>1, <1>2 DEF Stored
<1>4. Copiers = {}
  BY <1>1 DEF WordExact
<1>5. Got' = Got
  BY <1>4 DEF Got, Copiers
<1> QED
  BY <1>3, <1>5 DEF R!vars

LEMMA StepRefines == IInv /\ IInv' /\ [Next]_vars => [R!Next]_R!vars
<1> SUFFICES ASSUME IInv, IInv', [Next]_vars PROVE [R!Next]_R!vars
  OBVIOUS
<1>1. CASE UNCHANGED vars
  BY <1>1 DEF vars, R!vars, Stored, Got, Updaters, Updater
<1>2. ASSUME NEW t \in Thread,
             \/ \E c \in Cell, v \in Value \cup {None} : Call(t, c, v)
             \/ Load(t) \/ EnterFails(t)
      PROVE  UNCHANGED R!vars
  <2> USE <1>2 DEF Call, Load, EnterFails, Goto, IInv, TypeOK
  <2>1. Updaters' = Updaters /\ Updater' = Updater
    BY DEF Updaters, Updater
  <2>2. pc[t] # "update" /\ pc[t] # "copy"
    OBVIOUS
  <2>3. Got' = Got
    BY DEF Got
  <2>4. Updaters # {} => Updater # t /\ Updater \in Thread
    BY <2>2 DEF Updaters, Updater
  <2>5. Stored' = Stored
    BY <2>1, <2>4 DEF Stored
  <2> QED
    BY <2>3, <2>5 DEF R!vars
<1>3. ASSUME NEW t \in Thread, NEW w \in Word, CopyWord(t, w) \/ UpdateWord(t, w)
      PROVE  UNCHANGED R!vars
  BY <1>3, CopyWordRefines, UpdateWordRefines
<1>4. ASSUME NEW t \in Thread, Spin(t) PROVE UNCHANGED R!vars
  BY <1>4, <1>1 DEF Spin, vars, R!vars, Stored, Got, Updaters, Updater
<1> QED
  BY <1>1, <1>2, <1>3, <1>4, EnterRefines, LeaveCopyRefines, LeaveUpdateRefines
     DEF Next, Step

LEMMA InitRefines == Init => R!Init
BY InitInv, StoredType DEF R!Init

\* Copies and updates of values are atomic for their callers, for any number
\* of threads and any length of the values.
THEOREM RegisterImplemented == Spec => ImplementsRegister
BY InitRefines, Invariance, StepRefines, PTL DEF Spec, ImplementsRegister, R!Spec

-----------------------------------------------------------------------------
(***************************************************************************)
(* Theorems about Suspension, for any threads that suspend, are suspended, *)
(* copy and update: threads that stop anywhere do not disturb what the     *)
(* word `readers' guards, and no resumption is lost.                       *)
(***************************************************************************)
\* Suspension only stops and releases threads between their steps.
LEMMA SuspStep == [SuspNext \/ Done]_svars => [Next]_vars
<1> SUFFICES ASSUME [SuspNext \/ Done]_svars PROVE [Next]_vars
  OBVIOUS
<1> USE SuspensionAssumption DEF vars
<1>1. CASE UNCHANGED svars \/ Done
  BY <1>1 DEF svars, Done
<1>2. ASSUME NEW t \in Thread, NEW c \in Cell, NEW v \in Value \cup {None},
             Begin(t, c, v)
      PROVE  Next
  BY <1>2 DEF Begin, Next
<1>3. ASSUME NEW t \in Thread, Continue(t) PROVE Next
  BY <1>3 DEF Continue, Next
<1>4. ASSUME NEW t \in Thread, Handle(t) \/ Wake(t) PROVE UNCHANGED vars
  BY <1>4 DEF Handle, Wake
<1>5. ASSUME NEW k \in Controller, NEW t \in Suspendable, Suspend(k, t)
      PROVE  UNCHANGED vars
  BY <1>5 DEF Suspend
<1>6. ASSUME NEW k \in Controller, NEW c \in Cell, Resume(k, c) PROVE Next
  BY <1>6 DEF Resume, Next
<1>7. ASSUME NEW k \in Controller, Post(k) PROVE UNCHANGED vars
  BY <1>7 DEF Post
<1> QED
  BY <1>1, <1>2, <1>3, <1>4, <1>5, <1>6, <1>7 DEF SuspNext

\* With signals, the word and the values are used as Readers says.
THEOREM SuspImplementsReaders == SuspSpec => Spec
BY SuspStep, PTL DEF SuspSpec, SuspInit, Spec

\* Threads that are stopped anywhere do not disturb the exclusion of copies
\* and updates (collections.c:1117, threads_posix.c:124).
THEOREM SuspendedExclusion == SuspSpec => [](WordExact /\ CopiesWhole)
BY SuspImplementsReaders, WordExactHolds, CopiesWholeHolds, PTL

-----------------------------------------------------------------------------
(***************************************************************************)
(* Resumptions.  SuspTypeOK and ResumeKept are inductive together.         *)
(***************************************************************************)
KeptInv == SuspTypeOK /\ ResumeKept

Owers(t) == {k \in Controller : target[k] = t}

LEMMA OwedFinite == \A t : IsFiniteSet(Owers(t)) /\ Owed(t) \in Nat
<1> TAKE t
<1>1. IsFiniteSet(Controller)
  BY FS_Subset, ReadersAssumption, SuspensionAssumption
<1>2. IsFiniteSet(Owers(t))
  BY <1>1, FS_Subset DEF Owers
<1> QED
  BY <1>2, FS_CardinalityType DEF Owed, Owers

\* A step that leaves the signals alone.
LEMMA KeptQuiet == KeptInv /\ UNCHANGED signals => KeptInv'
BY DEF KeptInv, SuspTypeOK, ResumeKept, Owed, signals

LEMMA KeptSuspend ==
  ASSUME KeptInv, NEW k \in Controller, NEW t \in Suspendable, Suspend(k, t)
  PROVE  KeptInv'
<1> USE SuspensionAssumption DEF Suspend, KeptInv, SuspTypeOK
<1>1. SuspTypeOK'
  OBVIOUS
<1>2. Owed(t)' = Owed(t) + 1
  <2>1. Owers(t)' = Owers(t) \cup {k} /\ k \notin Owers(t)
    BY DEF Owers
  <2>2. Cardinality(Owers(t) \cup {k}) = Cardinality(Owers(t)) + 1
    BY <2>1, OwedFinite, FS_AddElement
  <2> QED
    BY <2>1, <2>2 DEF Owed, Owers
<1>3. ASSUME NEW s \in Suspendable, s # t
      PROVE  Owed(s)' = Owed(s) /\ (s \in pending' <=> s \in pending)
  <2>1. Owers(s)' = Owers(s)
    BY <1>3 DEF Owers
  <2> QED
    BY <1>3, <2>1 DEF Owed, Owers
<1>4. ASSUME NEW s \in Suspendable
      PROVE  One(s \in pending)' + One(s \in parked)' <= sem'[s] + Owed(s)'
  <2>1. /\ One(s \in pending) + One(s \in parked) <= sem[s] + Owed(s)
        /\ sem[s] \in Nat /\ Owed(s) \in Nat
    BY OwedFinite DEF ResumeKept
  <2>2. CASE s = t
    BY <1>2, <2>1, <2>2 DEF One
  <2>3. CASE s # t
    BY <1>3, <2>1, <2>3 DEF One
  <2> QED
    BY <2>2, <2>3
<1> QED
  BY <1>1, <1>4 DEF ResumeKept

LEMMA KeptHandle ==
  ASSUME KeptInv, NEW t \in Thread, Handle(t) \/ Wake(t)
  PROVE  KeptInv'
<1> USE SuspensionAssumption DEF Handle, Wake, KeptInv, SuspTypeOK
<1>1. SuspTypeOK'
  OBVIOUS
<1>2. \A s : Owed(s)' = Owed(s)
  BY DEF Owed
<1>3. ASSUME NEW s \in Suspendable
      PROVE  One(s \in pending)' + One(s \in parked)' <= sem'[s] + Owed(s)'
  <2>1. /\ One(s \in pending) + One(s \in parked) <= sem[s] + Owed(s)
        /\ sem[s] \in Nat /\ Owed(s) \in Nat
    BY OwedFinite DEF ResumeKept
  <2>2. CASE Handle(t)
    BY <1>2, <2>1, <2>2 DEF One
  <2>3. CASE Wake(t)
    BY <1>2, <2>1, <2>3 DEF One
  <2> QED
    BY <2>2, <2>3
<1> QED
  BY <1>1, <1>3 DEF ResumeKept

LEMMA KeptPost ==
  ASSUME KeptInv, NEW k \in Controller, Post(k)
  PROVE  KeptInv'
<1> USE SuspensionAssumption DEF Post, KeptInv, SuspTypeOK
<1>1. PICK t \in Suspendable : t = target[k]
  OBVIOUS
<1>2. SuspTypeOK'
  OBVIOUS
<1>3. Owed(t)' = Owed(t) - 1
  <2>1. Owers(t)' = Owers(t) \ {k} /\ k \in Owers(t)
    BY <1>1 DEF Owers
  <2>2. Cardinality(Owers(t) \ {k}) = Cardinality(Owers(t)) - 1
    BY <2>1, OwedFinite, FS_RemoveElement
  <2> QED
    BY <2>1, <2>2 DEF Owed, Owers
<1>4. ASSUME NEW s \in Suspendable, s # t
      PROVE  Owed(s)' = Owed(s) /\ sem'[s] = sem[s]
  <2>1. s # None /\ target[k] # s /\ target'[k] = None
    BY <1>1, <1>4
  <2>2. \A l \in Controller : target'[l] = s <=> target[l] = s
    BY <2>1
  <2>3. Owers(s)' = Owers(s)
    BY <2>2 DEF Owers
  <2> QED
    BY <1>1, <1>4, <2>3 DEF Owed, Owers
<1>5. ASSUME NEW s \in Suspendable
      PROVE  One(s \in pending)' + One(s \in parked)' <= sem'[s] + Owed(s)'
  <2>1. /\ One(s \in pending) + One(s \in parked) <= sem[s] + Owed(s)
        /\ sem[s] \in Nat /\ Owed(s) \in Nat
    BY OwedFinite DEF ResumeKept
  <2>2. CASE s = t
    BY <1>1, <1>3, <2>1, <2>2 DEF One
  <2>3. CASE s # t
    BY <1>4, <2>1, <2>3 DEF One
  <2> QED
    BY <2>2, <2>3
<1> QED
  BY <1>2, <1>5 DEF ResumeKept

LEMMA KeptInit == SuspInit => KeptInv
<1> SUFFICES ASSUME SuspInit PROVE KeptInv
  OBVIOUS
<1>1. SuspTypeOK
  BY DEF SuspInit, SuspTypeOK
<1>2. ResumeKept
  BY OwedFinite, SuspensionAssumption DEF SuspInit, ResumeKept, One
<1> QED
  BY <1>1, <1>2 DEF KeptInv

LEMMA KeptNext == KeptInv /\ [SuspNext \/ Done]_svars => KeptInv'
<1> SUFFICES ASSUME KeptInv, [SuspNext \/ Done]_svars PROVE KeptInv'
  OBVIOUS
<1>1. CASE UNCHANGED svars \/ Done
  BY <1>1, KeptQuiet DEF svars, signals, Done
<1>2. ASSUME NEW t \in Thread, NEW c \in Cell, NEW v \in Value \cup {None},
             Begin(t, c, v) \/ Continue(t)
      PROVE  KeptInv'
  BY <1>2, KeptQuiet DEF Begin, Continue
<1>3. ASSUME NEW t \in Thread, Continue(t) PROVE KeptInv'
  BY <1>3, KeptQuiet DEF Continue
<1>4. ASSUME NEW k \in Controller, NEW c \in Cell, Resume(k, c) PROVE KeptInv'
  BY <1>4 DEF Resume, KeptInv, SuspTypeOK, ResumeKept, Owed
<1> QED
  BY <1>1, <1>2, <1>3, <1>4, KeptSuspend, KeptHandle, KeptPost DEF SuspNext

\* No resumption is lost, for any number of threads that suspend and resume
\* each other in turn (threads_posix.c:360, 384).
THEOREM ResumeKeptHolds == SuspSpec => []ResumeKept
<1>1. KeptInv => ResumeKept
  BY DEF KeptInv
<1> QED
  BY <1>1, KeptInit, KeptNext, PTL DEF SuspSpec
=============================================================================
