------------------------------- MODULE Future -------------------------------
(***************************************************************************)
(* The promise and its future of src/src/future.c: one thread, the setter, *)
(* calls promise_set_value once; getters call future_get_value; pollers    *)
(* call future_has_value.  thrd_create waits this way for the thread it    *)
(* creates, with the promise on its stack, and thrdpool_destroy for the    *)
(* creator of the workers.                                                 *)
(***************************************************************************)
EXTENDS Naturals, FiniteSets

CONSTANTS
  Getter, Poller,  \* threads other than the setter
  Setter,          \* the thread that sets the promise
  Cancelled,       \* getters that another thread may cancel
  Value,           \* values of promises
  Zero,            \* the value of a promise that has not been set
  None             \* no thread

Thread == Getter \cup Poller \cup {Setter}

ASSUME FutureAssumption ==
  /\ Getter \cap Poller = {} /\ Setter \notin Getter \cup Poller
  /\ Cancelled \subseteq Getter
  /\ None \notin Thread

VARIABLES
  mtx, done, value,  \* the future
  pc,                \* where each thread is
  arg,               \* the argument of promise_set_value
  got,               \* what future_get_value stored for each getter
  has                \* the last result of future_has_value of each poller

vars == <<mtx, done, value, pc, arg, got, has>>

\* Mutant: the object is used without PROMISE_INITIALIZER.
InitGarbage ==
  /\ mtx = None /\ done = FALSE /\ value = None
  /\ pc = [t \in Thread |-> "idle"]
  /\ arg \in Value
  /\ got = [g \in Getter |-> Zero]
  /\ has = [q \in Poller |-> FALSE]

Init ==
  /\ mtx = None /\ done = FALSE /\ value = Zero
  /\ pc = [t \in Thread |-> "idle"]
  /\ arg \in Value
  /\ got = [g \in Getter |-> Zero]
  /\ has = [q \in Poller |-> FALSE]

Goto(t, l) == pc' = [pc EXCEPT ![t] = l]

\* Mutant: done is tested without the mutex first.
CallFastPath(t) ==
  /\ pc[t] = "idle"
  /\ Goto(t, IF t \in Getter /\ done THEN "read" ELSE "lock")
  /\ UNCHANGED <<mtx, done, value, arg, got, has>>

Call(t) ==
  /\ pc[t] = "idle"
  /\ Goto(t, "lock")
  /\ UNCHANGED <<mtx, done, value, arg, got, has>>

\* Mutant: done is not tested again after pthread_cond_wait returned.
AcquireOnce(t) ==
  /\ pc[t] \in {"lock", "relock"} /\ mtx = None
  /\ mtx' = IF pc[t] = "relock" THEN None ELSE t
  /\ Goto(t, IF pc[t] = "relock" THEN "read"
             ELSE IF t = Setter THEN "value" ELSE "check")
  /\ UNCHANGED <<done, value, arg, got, has>>

\* pthread_mutex_lock, or the return from pthread_cond_wait.
Acquire(t) ==
  /\ pc[t] \in {"lock", "relock"} /\ mtx = None
  /\ mtx' = t
  /\ Goto(t, IF t = Setter THEN "value" ELSE "check")
  /\ UNCHANGED <<done, value, arg, got, has>>

-----------------------------------------------------------------------------
(***************************************************************************)
(* promise_set_value.                                                      *)
(***************************************************************************)
SetValue ==
  /\ pc[Setter] = "value"
  /\ value' = arg
  /\ Goto(Setter, "done")
  /\ UNCHANGED <<mtx, done, arg, got, has>>

SetDone ==
  /\ pc[Setter] = "done"
  /\ done' = TRUE
  /\ Goto(Setter, "signal")
  /\ UNCHANGED <<mtx, value, arg, got, has>>

Waiting == {g \in Getter : pc[g] = "wait"}

\* Mutant: the signal is left out.
NoSignal ==
  /\ pc[Setter] = "signal"
  /\ Goto(Setter, "unlock")
  /\ UNCHANGED <<mtx, done, value, arg, got, has>>

\* pthread_cond_signal wakes one of the waiting threads.
Signal ==
  /\ pc[Setter] = "signal"
  /\ \/ Waiting = {} /\ Goto(Setter, "unlock")
     \/ \E g \in Waiting : pc' = [pc EXCEPT ![Setter] = "unlock", ![g] = "relock"]
  /\ UNCHANGED <<mtx, done, value, arg, got, has>>

SetUnlock ==
  /\ pc[Setter] = "unlock"
  /\ mtx' = None
  /\ Goto(Setter, "returned")
  /\ UNCHANGED <<done, value, arg, got, has>>

-----------------------------------------------------------------------------
(***************************************************************************)
(* future_get_value.                                                       *)
(***************************************************************************)

\* The loop test: wait, which releases the mutex, or unlock.
Check(g) ==
  /\ pc[g] = "check"
  /\ mtx' = None
  /\ Goto(g, IF done THEN "read" ELSE "wait")
  /\ UNCHANGED <<done, value, arg, got, has>>

SpuriousWakeup(g) ==
  /\ pc[g] = "wait"
  /\ Goto(g, "relock")
  /\ UNCHANGED <<mtx, done, value, arg, got, has>>

\* pthread_cancel takes effect in pthread_cond_wait: the thread reacquires
\* the mutex and ends; no cleanup handler releases it.
CancelInWait(g) ==
  /\ g \in Cancelled /\ pc[g] = "wait" /\ mtx = None
  /\ mtx' = g
  /\ Goto(g, "dead")
  /\ UNCHANGED <<done, value, arg, got, has>>

\* The value is read after the mutex has been released.
Read(g) ==
  /\ pc[g] = "read"
  /\ got' = [got EXCEPT ![g] = value]
  /\ Goto(g, "returned")
  /\ UNCHANGED <<mtx, done, value, arg, has>>

-----------------------------------------------------------------------------
(***************************************************************************)
(* future_has_value.                                                       *)
(***************************************************************************)
\* Mutant: the mutex is not released.
PollKeepsLock(q) ==
  /\ pc[q] = "check"
  /\ has' = [has EXCEPT ![q] = done]
  /\ Goto(q, "idle")
  /\ UNCHANGED <<mtx, done, value, arg, got>>

Poll(q) ==
  /\ pc[q] = "check"
  /\ has' = [has EXCEPT ![q] = done]
  /\ mtx' = None
  /\ Goto(q, "idle")
  /\ UNCHANGED <<done, value, arg, got>>

-----------------------------------------------------------------------------
Terminated ==
  /\ \A t \in Getter \cup {Setter} : pc[t] \in {"returned", "dead"}
  /\ UNCHANGED vars

GetterNext(g) ==
  Check(g) \/ SpuriousWakeup(g) \/ CancelInWait(g) \/ Read(g)

Next ==
  \/ \E t \in Thread : Call(t) \/ Acquire(t)
  \/ SetValue \/ SetDone \/ Signal \/ SetUnlock
  \/ \E g \in Getter : GetterNext(g)
  \/ \E q \in Poller : Poll(q)
  \/ Terminated

Spec == Init /\ [][Next]_vars

\* Threads that may go on do, and none waits forever at a mutex that others
\* release again and again; nobody has to call, to poll or to wake up.
Fairness ==
  /\ \A t \in Thread : SF_vars(Acquire(t))
  /\ WF_vars(SetValue \/ SetDone \/ Signal \/ SetUnlock)
  /\ \A g \in Getter : WF_vars(Check(g) \/ Read(g))
  /\ \A q \in Poller : WF_vars(Poll(q))

FairSpec == Spec /\ Fairness

-----------------------------------------------------------------------------
Label == {"idle", "lock", "relock", "check", "wait", "read", "dead",
          "value", "done", "signal", "unlock", "returned"}

\* The type of the future and of its threads.
TypeOK ==
  /\ mtx \in Thread \cup {None}
  /\ done \in BOOLEAN
  /\ value \in Value \cup {Zero}
  /\ pc \in [Thread -> Label]
  /\ arg \in Value
  /\ got \in [Getter -> Value \cup {Zero}]
  /\ has \in [Poller -> BOOLEAN]

\* future_get_value returns the value that promise_set_value stored, although
\* it waits through spurious wakeups and reads the value without the mutex
\* (future.c:115-123); a poller that saw a value finds the same one.
GetsTheValue ==
  /\ \A g \in Getter : pc[g] = "returned" => got[g] = arg
  /\ \A q \in Poller : has[q] => done /\ value = arg

\* Once a getter returns, the setter is through with the promise, so that
\* thrd_create may return and give up the stack frame that holds it
\* (threads_posix.c:211-232, future.c:72-76).
StorageReleased ==
  \A g \in Getter : pc[g] = "returned" => pc[Setter] = "returned"

SomeDied == \E g \in Getter : pc[g] = "dead"

\* promise_set_value returns with any number of getters and pollers at work,
\* unless a getter is cancelled while it waits.
SetReturnsUnlessDied == pc[Setter] = "lock" ~> pc[Setter] = "returned" \/ SomeDied

\* Once the promise is being set some getter returns, whether it called before,
\* in the middle of or after promise_set_value: the test of done and the wait
\* are one step as far as the mutex goes.  The signal of future.c:75 wakes one
\* getter, so the others may stay; but those that call later all return.
GetReturns ==
  \A g \in Getter :
    /\ (pc[g] # "idle" /\ pc[Setter] # "idle")
         ~> \E h \in Getter : pc[h] \in {"returned", "dead"}
    /\ (pc[g] = "lock" /\ done) ~> (pc[g] = "returned" \/ SomeDied)
=============================================================================
