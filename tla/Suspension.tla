----------------------------- MODULE Suspension -----------------------------
(***************************************************************************)
(* thrd_suspend and thrd_resume of src/src/threads_posix.c, together with  *)
(* the word `readers' of the list of thread control blocks.  thrd_suspend  *)
(* sends SIGURG, whose handler waits on the semaphore of the interrupted   *)
(* thread, wherever that thread is; thrd_resume copies the control block   *)
(* of the thread with list_search and posts its semaphore.  thrd_get_name  *)
(* copies a control block too, thrd_set_name copies and updates one.       *)
(***************************************************************************)
EXTENDS Readers

CONSTANTS
  Controller,  \* threads that suspend and resume others, in turn
  Suspendable, \* threads that they suspend
  Updating,    \* threads that call list_update (thrd_set_name), too
  MaxCalls     \* bound: how often each thread copies, updates or suspends

ASSUME SuspensionAssumption ==
  /\ Controller \subseteq Thread
  /\ Suspendable \subseteq Thread \ Controller
  /\ Updating \subseteq Thread \ Controller
  /\ None \notin Thread
  /\ MaxCalls \in [Thread -> Nat]

VARIABLES
  pending, \* threads for which SIGURG is pending
  parked,  \* threads in the handler
  sem,     \* the semaphore of each thread
  target,  \* the thread that a controller has suspended and must resume
  asking,  \* controllers inside thrd_resume
  calls    \* how many calls each thread has made

svars == <<readers, val, pc, orig, cell, arg, todo, buf,
           pending, parked, sem, target, asking, calls>>

signals == <<pending, parked, sem, target, asking>>

SuspInit ==
  /\ Init
  /\ pending = {} /\ parked = {} /\ asking = {}
  /\ sem = [t \in Thread |-> 0]
  /\ target = [t \in Controller |-> None]
  /\ calls = [t \in Thread |-> 0]

Runs(t) == t \notin parked

Counted(t) == /\ calls[t] < MaxCalls[t]
              /\ calls' = [calls EXCEPT ![t] = @ + 1]

\* list_search (thrd_get_name) or list_update (the end of thrd_set_name).
Begin(t, c, v) ==
  /\ t \notin Controller /\ Runs(t)
  /\ v # None => t \in Updating
  /\ Counted(t)
  /\ Call(t, c, v)
  /\ UNCHANGED signals

Continue(t) ==
  /\ Runs(t)
  /\ Step(t)
  /\ UNCHANGED <<signals, calls>>

\* thrd_suspend: pthread_kill returns when the signal is pending.  A second
\* SIGURG would merge with the first.
Suspend(k, t) ==
  /\ target[k] = None
  /\ Counted(k)
  /\ pending' = pending \cup {t}
  /\ target' = [target EXCEPT ![k] = t]
  /\ UNCHANGED <<vars, parked, sem, asking>>

\* internal_signaled: the signal is blocked while its handler runs.
Handle(t) ==
  /\ t \in pending \ parked
  /\ pending' = pending \ {t}
  /\ parked' = parked \cup {t}
  /\ UNCHANGED <<vars, sem, target, asking, calls>>

Wake(t) ==
  /\ t \in parked /\ sem[t] > 0
  /\ sem' = [sem EXCEPT ![t] = @ - 1]
  /\ parked' = parked \ {t}
  /\ UNCHANGED <<vars, pending, target, asking, calls>>

\* thrd_resume: list_search, then sem_post.
Resume(k, c) ==
  /\ target[k] # None /\ k \notin asking
  /\ Call(k, c, None)
  /\ asking' = asking \cup {k}
  /\ UNCHANGED <<pending, parked, sem, target, calls>>

\* Mutant: the semaphore is posted only if the thread waits on it.
PostIfParked(k) ==
  /\ k \in asking /\ pc[k] = "idle"
  /\ sem' = [sem EXCEPT ![target[k]] = @ + IF target[k] \in parked THEN 1 ELSE 0]
  /\ target' = [target EXCEPT ![k] = None]
  /\ asking' = asking \ {k}
  /\ UNCHANGED <<vars, pending, parked, calls>>

Post(k) ==
  /\ k \in asking /\ pc[k] = "idle"
  /\ sem' = [sem EXCEPT ![target[k]] = @ + 1]
  /\ target' = [target EXCEPT ![k] = None]
  /\ asking' = asking \ {k}
  /\ UNCHANGED <<vars, pending, parked, calls>>

SuspNext ==
  \/ \E t \in Thread :
       \/ \E c \in Cell, v \in Value \cup {None} : Begin(t, c, v)
       \/ Continue(t) \/ Handle(t) \/ Wake(t)
  \/ \E k \in Controller :
       \/ \E t \in Suspendable : Suspend(k, t)
       \/ \E c \in Cell : Resume(k, c)
       \/ Post(k)

\* Every call has returned and nobody may make another one.
Done ==
  /\ \A t \in Thread : pc[t] = "idle" /\ t \notin pending \cup parked
  /\ \A t \in Thread \ Controller : calls[t] = MaxCalls[t]
  /\ \A k \in Controller : target[k] = None /\ calls[k] = MaxCalls[k]
  /\ UNCHANGED svars

SuspSpec == SuspInit /\ [][SuspNext \/ Done]_svars

\* Runnable threads are scheduled, a weak compare-and-swap does not fail for
\* ever without reason, and who has suspended a thread resumes it.
FairSpec ==
  /\ SuspSpec
  /\ \A t \in Thread :
       /\ WF_svars(Continue(t))
       /\ SF_svars(Continue(t) /\ Enter(t))
       /\ WF_svars(Handle(t)) /\ WF_svars(Wake(t))
  /\ \A k \in Controller :
       /\ WF_svars(\E c \in Cell : Resume(k, c))
       /\ WF_svars(Post(k))

-----------------------------------------------------------------------------
\* The number of suspensions of t that have begun and not been resumed.
Owed(t) == Cardinality({k \in Controller : target[k] = t})

SuspTypeOK ==
  /\ pending \subseteq Thread /\ parked \subseteq Thread
  /\ sem \in [Thread -> Nat]
  /\ target \in [Controller -> Suspendable \cup {None}]
  /\ asking \subseteq {k \in Controller : target[k] # None}

One(b) == IF b THEN 1 ELSE 0

\* No resumption is lost: a thread that waits in the handler, or will, has a
\* post in its semaphore for it or somebody who still has to resume it,
\* although thrd_resume may come before the handler and two signals may
\* merge into one (threads_posix.c:360, 384).
ResumeKept ==
  \A t \in Suspendable :
    One(t \in pending) + One(t \in parked) <= sem[t] + Owed(t)

\* Every call returns and every suspended thread runs again: no thread spins for
\* ever on the word, although a thread may be suspended inside of a copy, or
\* waits for a post that came before its handler (threads_posix.c:124, 384).
Undone(t) == pc[t] # "idle" \/ t \in parked

CallsReturn == \A t \in Thread : Undone(t) ~> ~ Undone(t)
=============================================================================
