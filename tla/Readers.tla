------------------------------- MODULE Readers -------------------------------
(***************************************************************************)
(* The word `readers' of src/src/collections.c, by which the copies made   *)
(* by list_search and list_delete and the updates of list_update exclude   *)
(* each other, for all lists of the process.  The word counts the copies   *)
(* in progress; UINT32_MAX stands for an update.  A value is copied and    *)
(* updated word by word by memcpy, in an order that C leaves open.         *)
(*                                                                         *)
(* A cell is the value of a node that the call has found; module List is   *)
(* about finding it.                                                       *)
(***************************************************************************)
EXTENDS Integers, FiniteSets

CONSTANTS
  Thread,
  Cell,    \* values of nodes, in one list or in several
  Word,    \* the words of a value
  Value,   \* what a word can hold
  Initial, \* what every word holds at first
  Busy,    \* UINT32_MAX
  None     \* no value to store, no cell

ASSUME ReadersAssumption ==
  /\ IsFiniteSet(Thread)
  /\ Initial \in Value
  /\ Busy \in Nat \ {0}
  /\ None \notin Value

VARIABLES
  readers,  \* the word
  val,      \* the words in each cell
  pc,       \* of each thread: its place
  orig,     \* its copy of readers
  cell,     \* the cell that its call is about
  arg,      \* what list_update is to store, None in a copy
  todo,     \* the words that memcpy has not moved yet
  buf       \* what the last copy has stored for the caller

vars == <<readers, val, pc, orig, cell, arg, todo, buf>>

\* The caller's data: every word the same, as in the parallel test of
\* list_update, so that a mixture shows.
Whole(v) == [w \in Word |-> v]

Init ==
  /\ readers = 0
  /\ val = [c \in Cell |-> Whole(Initial)]
  /\ pc = [t \in Thread |-> "idle"]
  /\ orig = [t \in Thread |-> 0]
  /\ cell = [t \in Thread |-> None]
  /\ arg = [t \in Thread |-> None]
  /\ todo = [t \in Thread |-> {}]
  /\ buf = [t \in Thread |-> Whole(Initial)]

Goto(t, l) == pc' = [pc EXCEPT ![t] = l]

\* list_search and list_delete copy the value of c, list_update stores v.
Call(t, c, v) ==
  /\ pc[t] = "idle"
  /\ cell' = [cell EXCEPT ![t] = c]
  /\ arg' = [arg EXCEPT ![t] = v]
  /\ Goto(t, "load")
  /\ UNCHANGED <<readers, val, orig, todo, buf>>

\* Mutant: a copy does not ask whether somebody updates.
AdmitsAnyCopy(t, n) == IF arg[t] = None THEN TRUE ELSE n = 0

\* Mutant: an update does not wait for copies.
AdmitsOverCopies(t, n) == n # Busy

\* The word admits the call: a copy while nobody updates, an update while
\* nobody does anything.
Admits(t, n) == IF arg[t] = None THEN n # Busy ELSE n = 0

Load(t) ==
  /\ pc[t] = "load" /\ Admits(t, readers)
  /\ orig' = [orig EXCEPT ![t] = readers]
  /\ Goto(t, "cas")
  /\ UNCHANGED <<readers, val, cell, arg, todo, buf>>

\* The call is not admitted and loads the word again.
Spin(t) ==
  /\ pc[t] = "load" /\ ~ Admits(t, readers)
  /\ UNCHANGED vars

Entered(t) == IF arg[t] = None THEN orig[t] + 1 ELSE Busy

\* Mutant: the word is stored whatever it holds by now.
EnterBlindly(t) ==
  /\ pc[t] = "cas"
  /\ readers' = Entered(t)
  /\ todo' = [todo EXCEPT ![t] = Word]
  /\ Goto(t, IF arg[t] = None THEN "copy" ELSE "update")
  /\ UNCHANGED <<val, orig, cell, arg, buf>>

Enter(t) ==
  /\ pc[t] = "cas" /\ readers = orig[t]
  /\ readers' = Entered(t)
  /\ todo' = [todo EXCEPT ![t] = Word]
  /\ Goto(t, IF arg[t] = None THEN "copy" ELSE "update")
  /\ UNCHANGED <<val, orig, cell, arg, buf>>

\* The compare-and-swap fails, since the word has changed or, as it is a weak
\* one, for no reason.
EnterFails(t) ==
  /\ pc[t] = "cas"
  /\ orig' = [orig EXCEPT ![t] = 0]
  /\ Goto(t, "load")
  /\ UNCHANGED <<readers, val, cell, arg, todo, buf>>

CopyWord(t, w) ==
  /\ pc[t] = "copy" /\ w \in todo[t]
  /\ buf' = [buf EXCEPT ![t][w] = val[cell[t]][w]]
  /\ todo' = [todo EXCEPT ![t] = @ \ {w}]
  /\ UNCHANGED <<readers, val, pc, orig, cell, arg>>

UpdateWord(t, w) ==
  /\ pc[t] = "update" /\ w \in todo[t]
  /\ val' = [val EXCEPT ![cell[t]][w] = arg[t]]
  /\ todo' = [todo EXCEPT ![t] = @ \ {w}]
  /\ UNCHANGED <<readers, pc, orig, cell, arg, buf>>

\* Mutant: the copy puts back the count that it has found.
LeaveCopyRestores(t) ==
  /\ pc[t] = "copy" /\ todo[t] = {}
  /\ readers' = orig[t]
  /\ orig' = [orig EXCEPT ![t] = 0]
  /\ Goto(t, "idle")
  /\ UNCHANGED <<val, cell, arg, todo, buf>>

\* Mutant: the copy forgets that it has entered.
LeaveCopyKeeps(t) ==
  /\ pc[t] = "copy" /\ todo[t] = {}
  /\ orig' = [orig EXCEPT ![t] = 0]
  /\ Goto(t, "idle")
  /\ UNCHANGED <<readers, val, cell, arg, todo, buf>>

\* atomic_fetch_sub(&readers, 1)
LeaveCopy(t) ==
  /\ pc[t] = "copy" /\ todo[t] = {}
  /\ readers' = readers - 1
  /\ orig' = [orig EXCEPT ![t] = 0]
  /\ Goto(t, "idle")
  /\ UNCHANGED <<val, cell, arg, todo, buf>>

\* atomic_init(&readers, 0)
LeaveUpdate(t) ==
  /\ pc[t] = "update" /\ todo[t] = {}
  /\ readers' = 0
  /\ orig' = [orig EXCEPT ![t] = 0]
  /\ arg' = [arg EXCEPT ![t] = None]
  /\ Goto(t, "idle")
  /\ UNCHANGED <<val, cell, todo, buf>>

\* The steps of a call after it has begun.
Step(t) ==
  \/ Load(t) \/ Spin(t) \/ Enter(t) \/ EnterFails(t)
  \/ \E w \in Word : CopyWord(t, w) \/ UpdateWord(t, w)
  \/ LeaveCopy(t) \/ LeaveUpdate(t)

Next == \E t \in Thread :
          \/ \E c \in Cell, v \in Value \cup {None} : Call(t, c, v)
          \/ Step(t)

Spec == Init /\ [][Next]_vars

-----------------------------------------------------------------------------
Data == [Word -> Value]

\* The variables have their types, and the word stays in the range of a
\* uint32_t: no count goes below zero or past UINT32_MAX.
TypeOK ==
  /\ readers \in 0 .. Busy
  /\ val \in [Cell -> Data]
  /\ pc \in [Thread -> {"idle", "load", "cas", "copy", "update"}]
  /\ orig \in [Thread -> 0 .. Busy]
  /\ cell \in [Thread -> Cell \cup {None}]
  /\ arg \in [Thread -> Value \cup {None}]
  /\ todo \in [Thread -> SUBSET Word]
  /\ buf \in [Thread -> Data]

Copiers  == {t \in Thread : pc[t] = "copy"}
Updaters == {t \in Thread : pc[t] = "update"}

\* The word tells exactly what is going on: an update excludes every other
\* call that touches a value, in whatever list, and without one the word is
\* the number of copies.  It reads UINT32_MAX also when there are that many
\* copies (collections.c:1117, 1164, 1194).
WordExact ==
  IF Updaters = {}
  THEN readers = Cardinality(Copiers)
  ELSE /\ readers = Busy /\ Copiers = {}
       /\ \A s, t \in Updaters : s = t

\* No copy mixes the words of two updates: what list_search hands to its
\* caller is one whole value (test/collections.cpp:436).
CopiesWhole ==
  \A t \in Thread : pc[t] = "idle" => \E v \in Value : buf[t] = Whole(v)

-----------------------------------------------------------------------------
Updater == CHOOSE t \in Thread : pc[t] = "update"

\* The values as an observer has them who sees an update at once when it is
\* let in, and a copy likewise.
Stored ==
  [c \in Cell |-> IF Updaters # {} /\ cell[Updater] = c
                  THEN Whole(arg[Updater]) ELSE val[c]]

Got == [t \in Thread |-> IF pc[t] = "copy" THEN val[cell[t]] ELSE buf[t]]

R == INSTANCE Register WITH reg <- Stored, got <- Got

\* Copies and updates of a value behave like single steps, which happen when
\* the compare-and-swaps of lines 1119, 1166 and 1196 succeed.
ImplementsRegister == R!Spec
=============================================================================
