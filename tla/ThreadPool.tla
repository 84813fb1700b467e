----------------------------- MODULE ThreadPool -----------------------------
(***************************************************************************)
(* The work-stealing thread pool of src/src/thread_pool.c.                 *)
(*                                                                         *)
(* A pool has a global job queue, a local queue per worker, the mutex      *)
(* seek_mtx, the condition variable seek_cnd and two atomic counters.      *)
(* Clients create and destroy pools and add jobs; a job that runs on a     *)
(* worker may add further jobs, which go to that worker's local queue.     *)
(*                                                                         *)
(* Every access made while seek_mtx is held that another thread could      *)
(* observe in between is an action of its own.  The mutex, the condition   *)
(* variable, thread creation, cancellation and join are those of POSIX.    *)
(* The job queues are bounded FIFO queues here; how src/src/collections.c  *)
(* builds them is the subject of module Queue.                             *)
(***************************************************************************)
EXTENDS Integers, Sequences, FiniteSets

CONSTANTS
  Pool,        \* pools (struct thread_pool), each created at most once
  Client,      \* threads outside of every pool; their ctx is NULL
  Job,         \* job_t values, each accepted by thrdpool_add at most once
  NumWorkers,  \* workers per pool, the argument of thrdpool_create
  MaxJobs,     \* MAX_JOBS, the capacity of each queue
  Targets,     \* Targets[t]: the pools that thread t adds jobs to
  Faults,      \* which creations may fail: "queue", "first", "thread" (the
               \* new thread is refused and ends), "nothread" (none is made)
  None         \* no thread, no pool, no job

Index   == 0 .. NumWorkers - 1
Worker  == Pool \X Index
Thread  == Client \cup Worker

ASSUME PoolAssumption ==
  /\ NumWorkers \in Nat \ {0}
  /\ MaxJobs \in Nat \ {0}
  /\ Client \cap Worker = {}
  /\ Targets \in [Thread -> SUBSET Pool]
  /\ None \notin Pool \cup Thread \cup Job

VARIABLES
  phase,           \* "none", "up", "closing" (in thrdpool_destroy), "freed"
  queues,          \* number of the pool's job queues that are allocated
  prms,            \* the promise that every worker has been created
  mtx,             \* holder of seek_mtx
  jobs,            \* the global queue
  local_jobs,      \* the queue of each worker
  num_local_jobs,  \* atomic counter of the jobs in local queues
  num_active,      \* atomic counter of the running jobs
  pc,              \* where each thread is
  tp,              \* the pool whose function a thread is executing
  add,             \* the job argument of thrdpool_add
  job,             \* the job a worker has taken
  idx,             \* loop index of thrdpool_destroy, of each client
  cancel,          \* workers with a pending pthread_cancel
  accepted,        \* history: jobs for which queue_enqueue succeeded
  ran              \* history: how often a job's function was called

vars == <<phase, queues, prms, mtx, jobs, local_jobs, num_local_jobs,
          num_active, pc, tp, add, job, idx, cancel, accepted, ran>>

qvars == <<jobs, local_jobs, num_local_jobs>>
dvars == <<idx, cancel>>
hvars == <<accepted, ran>>

Workers(p) == {p} \X Index
W0(p)      == <<p, 0>>
Waiting(p) == {w \in Workers(p) : pc[w] = "wait"}

\* thrd_create has failed: the thread has ended in internal_entry, or there
\* never was one and w->thr is no thread.
Refused == {"failed", "nothread"}

Goto(t, l) == pc' = [pc EXCEPT ![t] = l]

Init ==
  /\ phase = [p \in Pool |-> "none"]
  /\ queues = [p \in Pool |-> 0]
  /\ prms = [p \in Pool |-> FALSE]
  /\ mtx = [p \in Pool |-> None]
  /\ jobs = [p \in Pool |-> <<>>]
  /\ local_jobs = [w \in Worker |-> <<>>]
  /\ num_local_jobs = [p \in Pool |-> 0]
  /\ num_active = [p \in Pool |-> 0]
  /\ pc = [t \in Thread |-> IF t \in Client THEN "idle" ELSE "unborn"]
  /\ tp = [t \in Thread |-> None]
  /\ add = [t \in Thread |-> None]
  /\ job = [w \in Worker |-> None]
  /\ idx = [c \in Client |-> NumWorkers - 1]
  /\ cancel = {}
  /\ accepted = {}
  /\ ran = [j \in Job |-> 0]

(***************************************************************************)
(* POSIX mutex and condition variable.                                     *)
(***************************************************************************)
Lock(t, p) == mtx[p] = None /\ mtx' = [mtx EXCEPT ![p] = t]

Unlock(p) == mtx' = [mtx EXCEPT ![p] = None]

\* Mutant: nobody is woken up.
NoBroadcast(p) == pc

\* pthread_cond_broadcast: every waiter goes on to reacquire the mutex.
Broadcast(p) == [t \in Thread |-> IF t \in Waiting(p) THEN "relock" ELSE pc[t]]

-----------------------------------------------------------------------------
(***************************************************************************)
(* thrdpool_create and worker_creator.                                     *)
(***************************************************************************)

\* All allocations succeed and the first thread starts in worker_creator.
Create(c, p) ==
  /\ pc[c] = "idle" /\ phase[p] = "none"
  /\ phase' = [phase EXCEPT ![p] = "up"]
  /\ queues' = [queues EXCEPT ![p] = NumWorkers + 1]
  /\ Goto(W0(p), "creator")
  /\ UNCHANGED <<prms, mtx, qvars, num_active, tp, add, job, dvars, hvars>>

\* queue_create fails for the local queue of worker i: the global queue is
\* destroyed, the pool freed and NULL returned; local queues 0 .. i-1 stay.
CreateQueueFails(c, p) ==
  /\ "queue" \in Faults
  /\ pc[c] = "idle" /\ phase[p] = "none"
  /\ phase' = [phase EXCEPT ![p] = "freed"]
  /\ \E i \in Index : queues' = [queues EXCEPT ![p] = i]
  /\ UNCHANGED <<prms, mtx, qvars, num_active, pc, tp, add, job, dvars, hvars>>

\* thrd_create of the first worker fails: thrdpool_destroy is called.
CreateFirstFails(c, p) ==
  /\ "first" \in Faults
  /\ pc[c] = "idle" /\ phase[p] = "none"
  /\ phase' = [phase EXCEPT ![p] = "closing"]
  /\ queues' = [queues EXCEPT ![p] = NumWorkers + 1]
  /\ \E l \in Refused : pc' = [pc EXCEPT ![c] = "d_future", ![W0(p)] = l]
  /\ tp' = [tp EXCEPT ![c] = p]
  /\ UNCHANGED <<prms, mtx, qvars, num_active, add, job, dvars, hvars>>

\* The creator's loop: the next worker starts, or its status becomes FAIL.
CreateWorker(p) ==
  /\ pc[W0(p)] = "creator"
  /\ \E i \in Index \ {0} :
       /\ pc[<<p, i>>] = "unborn"
       /\ \A k \in 1 .. i - 1 : pc[<<p, k>>] # "unborn"
       /\ \/ Goto(<<p, i>>, "loop")
          \/ "thread" \in Faults /\ Goto(<<p, i>>, "failed")
          \/ "nothread" \in Faults /\ Goto(<<p, i>>, "nothread")
  /\ UNCHANGED <<phase, queues, prms, mtx, qvars, num_active, tp, add, job,
                 dvars, hvars>>

\* promise_set_value, after which the creator becomes worker 0.
CreatorDone(p) ==
  /\ pc[W0(p)] = "creator"
  /\ \A i \in Index : pc[<<p, i>>] # "unborn"
  /\ prms' = [prms EXCEPT ![p] = TRUE]
  /\ Goto(W0(p), "loop")
  /\ UNCHANGED <<phase, queues, mtx, qvars, num_active, tp, add, job, dvars,
                 hvars>>

-----------------------------------------------------------------------------
(***************************************************************************)
(* thrdpool_add.  A client calls it when idle, a worker from within a job. *)
(***************************************************************************)
Home(t) == IF t \in Client THEN "idle" ELSE "run"

\* The caller may use a pool while it is up; a job may also use the pool
\* that runs it, which cannot be freed before the job's thread is joined.
AddCall(t, p, j) ==
  /\ pc[t] = Home(t)
  /\ p \in Targets[t]
  /\ phase[p] = "up" \/ t \in Workers(p)
  /\ j \notin accepted /\ \A u \in Thread : add[u] # j
  /\ tp' = [tp EXCEPT ![t] = p]
  /\ add' = [add EXCEPT ![t] = j]
  /\ Goto(t, "add_lock")
  /\ UNCHANGED <<phase, queues, prms, mtx, qvars, num_active, job, dvars, hvars>>

AddLock(t) ==
  /\ pc[t] = "add_lock"
  /\ Lock(t, tp[t])
  /\ Goto(t, "enqueue")
  /\ UNCHANGED <<phase, queues, prms, qvars, num_active, tp, add, job, dvars,
                 hvars>>

\* queue_enqueue returns -1.  (Mutant: off by one.)
FullOffByOne(q) == Len(q) > MaxJobs
Full(q) == Len(q) >= MaxJobs

\* A worker (ctx # NULL) enqueues on its own local queue, whatever the pool.
AddLocal(t) ==
  /\ pc[t] = "enqueue" /\ t \in Worker
  /\ ~Full(local_jobs[t])
  /\ local_jobs' = [local_jobs EXCEPT ![t] = Append(@, add[t])]
  /\ accepted' = accepted \cup {add[t]}
  /\ Goto(t, "count")
  /\ UNCHANGED <<phase, queues, prms, mtx, jobs, num_local_jobs, num_active, tp,
                 add, job, dvars, ran>>

AddCount(t) ==
  /\ pc[t] = "count"
  /\ num_local_jobs' = [num_local_jobs EXCEPT ![tp[t]] = @ + 1]
  /\ Goto(t, "broadcast")
  /\ UNCHANGED <<phase, queues, prms, mtx, jobs, local_jobs, num_active, tp, add,
                 job, dvars, hvars>>

AddGlobal(t) ==
  /\ pc[t] = "enqueue" /\ t \in Client
  /\ ~Full(jobs[tp[t]])
  /\ jobs' = [jobs EXCEPT ![tp[t]] = Append(@, add[t])]
  /\ accepted' = accepted \cup {add[t]}
  /\ Goto(t, "broadcast")
  /\ UNCHANGED <<phase, queues, prms, mtx, local_jobs, num_local_jobs, num_active,
                 tp, add, job, dvars, ran>>

\* Mutant: the counter is incremented whatever queue_enqueue returns.
AddFullCounts(t) ==
  /\ pc[t] = "enqueue"
  /\ Full(IF t \in Worker THEN local_jobs[t] ELSE jobs[tp[t]])
  /\ Goto(t, "count")
  /\ UNCHANGED <<phase, queues, prms, mtx, qvars, num_active, tp, add, job, dvars,
                 hvars>>

\* The queue is full: thrdpool_add broadcasts nevertheless and returns -1.
AddFull(t) ==
  /\ pc[t] = "enqueue"
  /\ Full(IF t \in Worker THEN local_jobs[t] ELSE jobs[tp[t]])
  /\ Goto(t, "broadcast")
  /\ UNCHANGED <<phase, queues, prms, mtx, qvars, num_active, tp, add, job, dvars,
                 hvars>>

\* Broadcast, unlock, return to the caller.
AddReturn(t) ==
  /\ pc[t] = "broadcast"
  /\ pc' = [Broadcast(tp[t]) EXCEPT ![t] = Home(t)]
  /\ Unlock(tp[t])
  /\ tp' = [tp EXCEPT ![t] = None]
  /\ add' = [add EXCEPT ![t] = None]
  /\ UNCHANGED <<phase, queues, prms, qvars, num_active, job, dvars, hvars>>

-----------------------------------------------------------------------------
(***************************************************************************)
(* The worker loop.                                                        *)
(***************************************************************************)

\* pthread_testcancel at the top of the loop.
TestCancel(w) ==
  /\ pc[w] = "loop"
  /\ Goto(w, IF w \in cancel THEN "dead" ELSE "lock")
  /\ UNCHANGED <<phase, queues, prms, mtx, qvars, num_active, tp, add, job, dvars,
                 hvars>>

\* Entering the lock block, or reacquiring the mutex inside pthread_cond_wait.
WorkerLock(w) ==
  /\ pc[w] \in {"lock", "relock"}
  /\ Lock(w, w[1])
  /\ Goto(w, "seek")
  /\ UNCHANGED <<phase, queues, prms, qvars, num_active, tp, add, job, dvars,
                 hvars>>

\* work_steal: the first other worker, in index order, with a local job.
Victim(w) ==
  LET busy == {v \in Workers(w[1]) : v # w /\ local_jobs[v] # <<>>}
  IN  {v \in busy : \A u \in busy : v[2] <= u[2]}

\* Mutant: no stealing.
OwnSource(w) ==
  IF num_local_jobs[w[1]] = 0 \/ local_jobs[w] = <<>> THEN {} ELSE {w}

\* The local queue job_seeking dequeues from: its own before a victim's, and
\* none at all while num_local_jobs is zero.
LocalSource(w) ==
  IF num_local_jobs[w[1]] = 0 THEN {}
  ELSE IF local_jobs[w] # <<>> THEN {w} ELSE Victim(w)

SeekLocal(w) ==
  /\ pc[w] = "seek"
  /\ \E v \in LocalSource(w) :
       /\ job' = [job EXCEPT ![w] = Head(local_jobs[v])]
       /\ local_jobs' = [local_jobs EXCEPT ![v] = Tail(@)]
  /\ Goto(w, "uncount")
  /\ UNCHANGED <<phase, queues, prms, mtx, jobs, num_local_jobs, num_active, tp,
                 add, dvars, hvars>>

SeekUncount(w) ==
  /\ pc[w] = "uncount"
  /\ num_local_jobs' = [num_local_jobs EXCEPT ![w[1]] = @ - 1]
  /\ Unlock(w[1])
  /\ Goto(w, "got")
  /\ UNCHANGED <<phase, queues, prms, jobs, local_jobs, num_active, tp, add, job,
                 dvars, hvars>>

SeekGlobal(w) ==
  /\ pc[w] = "seek"
  /\ LocalSource(w) = {} /\ jobs[w[1]] # <<>>
  /\ job' = [job EXCEPT ![w] = Head(jobs[w[1]])]
  /\ jobs' = [jobs EXCEPT ![w[1]] = Tail(@)]
  /\ Unlock(w[1])
  /\ Goto(w, "got")
  /\ UNCHANGED <<phase, queues, prms, local_jobs, num_local_jobs, num_active, tp,
                 add, dvars, hvars>>

SeekFails(w) ==
  /\ pc[w] = "seek"
  /\ LocalSource(w) = {} /\ jobs[w[1]] = <<>>
  /\ Goto(w, "nojob")
  /\ UNCHANGED <<phase, queues, prms, mtx, qvars, num_active, tp, add, job, dvars,
                 hvars>>

\* pthread_cond_wait releases the mutex and blocks in one step.
CondWait(w) ==
  /\ pc[w] = "nojob"
  /\ Unlock(w[1])
  /\ Goto(w, "wait")
  /\ UNCHANGED <<phase, queues, prms, qvars, num_active, tp, add, job, dvars,
                 hvars>>

SpuriousWakeup(w) ==
  /\ pc[w] = "wait"
  /\ Goto(w, "relock")
  /\ UNCHANGED <<phase, queues, prms, mtx, qvars, num_active, tp, add, job, dvars,
                 hvars>>

\* Mutant: pthread_testcancel after the job has been taken.
RunUnlessCancelled(w) ==
  /\ pc[w] = "got"
  /\ num_active' = [num_active EXCEPT ![w[1]] = @ + 1]
  /\ IF w \in cancel THEN Goto(w, "dead") /\ UNCHANGED ran
     ELSE Goto(w, "run") /\ ran' = [ran EXCEPT ![job[w]] = @ + 1]
  /\ UNCHANGED <<phase, queues, prms, mtx, qvars, tp, add, job, dvars, accepted>>

Run(w) ==
  /\ pc[w] = "got"
  /\ num_active' = [num_active EXCEPT ![w[1]] = @ + 1]
  /\ ran' = [ran EXCEPT ![job[w]] = @ + 1]
  /\ Goto(w, "run")
  /\ UNCHANGED <<phase, queues, prms, mtx, qvars, tp, add, job, dvars, accepted>>

JobReturns(w) ==
  /\ pc[w] = "run"
  /\ num_active' = [num_active EXCEPT ![w[1]] = @ - 1]
  /\ job' = [job EXCEPT ![w] = None]
  /\ Goto(w, "loop")
  /\ UNCHANGED <<phase, queues, prms, mtx, qvars, tp, add, dvars, hvars>>

(***************************************************************************)
(* Cancellation points: pthread_cond_wait, which reacquires the mutex      *)
(* before the handler of the lock block releases it, and any the job has.  *)
(***************************************************************************)
CancelInWait(w) ==
  /\ pc[w] = "wait" /\ w \in cancel
  /\ Goto(w, "cancel_relock")
  /\ UNCHANGED <<phase, queues, prms, mtx, qvars, num_active, tp, add, job, dvars,
                 hvars>>

CancelRelock(w) ==
  /\ pc[w] = "cancel_relock"
  /\ Lock(w, w[1])
  /\ Goto(w, "cleanup")
  /\ UNCHANGED <<phase, queues, prms, qvars, num_active, tp, add, job, dvars,
                 hvars>>

\* Mutant: no pthread_cleanup_push.
NoCleanup(w) ==
  /\ pc[w] = "cleanup"
  /\ Goto(w, "dead")
  /\ UNCHANGED <<phase, queues, prms, mtx, qvars, num_active, tp, add, job, dvars,
                 hvars>>

Cleanup(w) ==
  /\ pc[w] = "cleanup"
  /\ Unlock(w[1])
  /\ Goto(w, "dead")
  /\ UNCHANGED <<phase, queues, prms, qvars, num_active, tp, add, job, dvars,
                 hvars>>

CancelInJob(w) ==
  /\ pc[w] = "run" /\ w \in cancel
  /\ Goto(w, "dead")
  /\ UNCHANGED <<phase, queues, prms, mtx, qvars, num_active, tp, add, job, dvars,
                 hvars>>

-----------------------------------------------------------------------------
(***************************************************************************)
(* thrdpool_destroy.  The callers' side of the contract: no thread outside *)
(* the pool is inside one of its functions or enters one afterwards.       *)
(***************************************************************************)
DestroyCall(c, p) ==
  /\ pc[c] = "idle" /\ phase[p] = "up"
  /\ \A t \in Thread : tp[t] = p => t \in Workers(p)
  /\ phase' = [phase EXCEPT ![p] = "closing"]
  /\ tp' = [tp EXCEPT ![c] = p]
  /\ Goto(c, "d_future")
  /\ UNCHANGED <<queues, prms, mtx, qvars, num_active, add, job, dvars, hvars>>

\* future_get_value returns once the promise is set.
DestroyFuture(c) ==
  /\ pc[c] = "d_future" /\ prms[tp[c]]
  /\ Goto(c, "d_cancel")
  /\ UNCHANGED <<phase, queues, prms, mtx, qvars, num_active, tp, add, job, dvars,
                 hvars>>

\* for (int i = num_workers - 1; i >= 0; --i).  (Mutant: i > 0.)
LoopEndsEarly(c) == idx[c] <= 0
LoopEnds(c) == idx[c] < 0

At(c) == <<tp[c], idx[c]>>

DestroyCancel(c) ==
  /\ pc[c] = "d_cancel" /\ ~LoopEnds(c)
  /\ pc[At(c)] \notin Refused
  /\ cancel' = cancel \cup {At(c)}
  /\ Goto(c, "d_join")
  /\ UNCHANGED <<phase, queues, prms, mtx, qvars, num_active, tp, add, job, idx,
                 hvars>>

\* A worker whose thread ended in internal_entry: pthread_cancel reports an
\* error, or succeeds and the join returns at once.  When there is no thread,
\* w->thr is zero or what a failed pthread_create left, and pthread_cancel is
\* undefined: one outcome is that it reports the error, as thrd_cancel expects.
DestroySkip(c) ==
  /\ pc[c] = "d_cancel" /\ ~LoopEnds(c)
  /\ pc[At(c)] \in Refused
  /\ Goto(At(c), "joined")
  /\ idx' = [idx EXCEPT ![c] = @ - 1]
  /\ UNCHANGED <<phase, queues, prms, mtx, qvars, num_active, tp, add, job, cancel,
                 hvars>>

\* The other outcome: the call does not come back.  It ends the process, or
\* what it takes for a thread never ends.  (That other threads go on here only
\* adds states in which they would have been a moment earlier.)
DestroyUndefined(c) ==
  /\ pc[c] = "d_cancel" /\ ~LoopEnds(c)
  /\ pc[At(c)] = "nothread"
  /\ Goto(c, "d_undefined")
  /\ UNCHANGED <<phase, queues, prms, mtx, qvars, num_active, tp, add, job, dvars,
                 hvars>>

DestroyJoin(c) ==
  /\ pc[c] = "d_join"
  /\ pc[At(c)] = "dead"
  /\ pc' = [pc EXCEPT ![At(c)] = "joined", ![c] = "d_cancel"]
  /\ idx' = [idx EXCEPT ![c] = @ - 1]
  /\ UNCHANGED <<phase, queues, prms, mtx, qvars, num_active, tp, add, job, cancel,
                 hvars>>

\* All queues are destroyed, with the jobs left in them, and the pool freed.
DestroyFree(c) ==
  /\ pc[c] = "d_cancel" /\ LoopEnds(c)
  /\ queues' = [queues EXCEPT ![tp[c]] = @ - (NumWorkers + 1)]
  /\ phase' = [phase EXCEPT ![tp[c]] = "freed"]
  /\ jobs' = [jobs EXCEPT ![tp[c]] = <<>>]
  /\ local_jobs' = [w \in Worker |-> IF w \in Workers(tp[c]) THEN <<>>
                                     ELSE local_jobs[w]]
  /\ idx' = [idx EXCEPT ![c] = NumWorkers - 1]
  /\ tp' = [tp EXCEPT ![c] = None]
  /\ Goto(c, "idle")
  /\ UNCHANGED <<prms, mtx, num_local_jobs, num_active, add, job, cancel, hvars>>

-----------------------------------------------------------------------------
\* Thread c is lost in thrdpool_destroy: it waits for the promise of a pool
\* whose first thread could not be created, or has not come back from a call
\* on what is no thread.
Lost(c) == \/ pc[c] = "d_future" /\ pc[W0(tp[c])] \in Refused
           \/ pc[c] = "d_undefined"

\* Nothing is left to do: every client is idle or lost, every pool freed or
\* left behind by a client that is lost in it.
Terminated ==
  /\ \A p \in Pool : phase[p] = "freed" \/ \E c \in Client : tp[c] = p /\ Lost(c)
  /\ \A c \in Client : pc[c] = "idle" \/ Lost(c)
  /\ UNCHANGED vars

ClientNext(c) ==
  \/ \E p \in Pool : \/ Create(c, p) \/ CreateQueueFails(c, p)
                     \/ CreateFirstFails(c, p) \/ DestroyCall(c, p)
  \/ DestroyFuture(c) \/ DestroyCancel(c) \/ DestroySkip(c)
  \/ DestroyUndefined(c) \/ DestroyJoin(c) \/ DestroyFree(c)

AddNext(t) ==
  \/ \E p \in Pool, j \in Job : AddCall(t, p, j)
  \/ AddLock(t) \/ AddLocal(t) \/ AddCount(t) \/ AddGlobal(t) \/ AddFull(t)
  \/ AddReturn(t)

WorkerNext(w) ==
  \/ TestCancel(w) \/ WorkerLock(w)
  \/ SeekLocal(w) \/ SeekUncount(w) \/ SeekGlobal(w) \/ SeekFails(w)
  \/ CondWait(w) \/ SpuriousWakeup(w) \/ Run(w) \/ JobReturns(w)
  \/ CancelInWait(w) \/ CancelRelock(w) \/ Cleanup(w) \/ CancelInJob(w)

Next ==
  \/ \E c \in Client : ClientNext(c)
  \/ \E p \in Pool : CreateWorker(p) \/ CreatorDone(p)
  \/ \E t \in Thread : AddNext(t)
  \/ \E w \in Worker : WorkerNext(w)
  \/ Terminated

Spec == Init /\ [][Next]_vars

(***************************************************************************)
(* Every runnable thread is scheduled, jobs return, and no thread waits    *)
(* forever at a mutex that is released again and again.  A pending cancel  *)
(* is acted upon by a pthread_cond_wait that finds it on entry, so it does *)
(* not lose to spurious wakeups forever.  Clients need not call anything   *)
(* and no spurious wakeup is bound to happen.                              *)
(***************************************************************************)
Fairness ==
  /\ \A c \in Client : WF_vars(\/ DestroyFuture(c) \/ DestroyCancel(c)
                               \/ DestroySkip(c) \/ DestroyUndefined(c)
                               \/ DestroyJoin(c) \/ DestroyFree(c))
  /\ \A p \in Pool : WF_vars(CreateWorker(p) \/ CreatorDone(p))
  /\ \A t \in Thread : /\ SF_vars(AddLock(t))
                       /\ WF_vars(\/ AddLocal(t) \/ AddCount(t) \/ AddGlobal(t)
                                  \/ AddFull(t) \/ AddReturn(t))
  /\ \A w \in Worker : /\ SF_vars(WorkerLock(w)) /\ SF_vars(CancelRelock(w))
                       /\ SF_vars(CancelInWait(w))
                       /\ WF_vars(TestCancel(w)) /\ WF_vars(JobReturns(w))
                       /\ WF_vars(\/ SeekLocal(w) \/ SeekUncount(w)
                                  \/ SeekGlobal(w) \/ SeekFails(w)
                                  \/ CondWait(w) \/ Run(w) \/ Cleanup(w))

FairSpec == Spec /\ Fairness

-----------------------------------------------------------------------------
(***************************************************************************)
(* Properties.                                                             *)
(***************************************************************************)
Phase == {"none", "up", "closing", "freed"}

Label == {"idle", "unborn", "creator", "failed", "nothread", "loop", "lock",
          "relock", "seek", "uncount", "nojob", "wait", "got", "run",
          "add_lock", "enqueue", "count", "broadcast", "cancel_relock",
          "cleanup", "dead", "joined", "d_future", "d_cancel", "d_join",
          "d_undefined"}

\* The type of the pool's state; no queue holds more than MAX_JOBS jobs.
TypeOK ==
  /\ phase \in [Pool -> Phase]
  /\ queues \in [Pool -> 0 .. NumWorkers + 1]
  /\ prms \in [Pool -> BOOLEAN]
  /\ mtx \in [Pool -> Thread \cup {None}]
  /\ jobs \in [Pool -> Seq(Job)]
  /\ local_jobs \in [Worker -> Seq(Job)]
  /\ \A p \in Pool : Len(jobs[p]) <= MaxJobs
  /\ \A w \in Worker : Len(local_jobs[w]) <= MaxJobs
  /\ num_local_jobs \in [Pool -> Int]
  /\ num_active \in [Pool -> Int]
  /\ pc \in [Thread -> Label]
  /\ tp \in [Thread -> Pool \cup {None}]
  /\ add \in [Thread -> Job \cup {None}]
  /\ job \in [Worker -> Job \cup {None}]
  /\ idx \in [Client -> -1 .. NumWorkers - 1]
  /\ cancel \subseteq Worker
  /\ accepted \subseteq Job
  /\ ran \in [Job -> Nat]

\* Thread t executes code that seek_mtx of pool p protects.
Inside(t, p) ==
  \/ pc[t] \in {"enqueue", "count", "broadcast"} /\ tp[t] = p
  \/ pc[t] \in {"seek", "uncount", "nojob", "cleanup"} /\ t \in Workers(p)

\* A thread is between lock and unlock of seek_mtx exactly when it owns the
\* mutex: no two threads search or fill the queues at a time, and no thread
\* that is cancelled in pthread_cond_wait takes the mutex to its grave
\* (thread_pool.c:185-189 with the cleanup handler of utils.h:28-38).
MutexSafe == \A p \in Pool, t \in Thread : Inside(t, p) <=> mtx[p] = t

\* The occupied slots of the local queues of pool p.
LocalSlots(p) == {s \in Workers(p) \X (1 .. MaxJobs) :
                    s[2] <= Len(local_jobs[s[1]])}

Counting(p)   == {t \in Thread : pc[t] = "count" /\ tp[t] = p}
Uncounting(p) == {w \in Workers(p) : pc[w] = "uncount"}

\* num_local_jobs is the number of jobs in the local queues, but for a thread
\* that holds the mutex between the queue operation and the counter update.
\* job_seeking relies on it: with a smaller count it would leave local jobs
\* behind (thread_pool.c:158-160, 313-316).
LocalCountExact ==
  \A p \in Pool : phase[p] # "freed" =>
    num_local_jobs[p] + Cardinality(Counting(p))
      = Cardinality(LocalSlots(p)) + Cardinality(Uncounting(p))

HasWork(p) == \/ jobs[p] # <<>>
              \/ \E w \in Workers(p) : local_jobs[w] # <<>>

\* No lost wakeup: a worker sleeps while its pool has a job only as long as
\* the thread that has just queued the job has not broadcast yet, and none
\* decides to sleep while there is a job (thread_pool.c:185-189, 311-321).
NoLostWakeup ==
  \A w \in Worker : HasWork(w[1]) =>
    /\ pc[w] # "nojob"
    /\ pc[w] = "wait" => \E t \in Thread : /\ mtx[w[1]] = t
                                          /\ pc[t] \in {"count", "broadcast"}

\* The places where a job waits to be run.
GlobalAt(j) == {s \in Pool \X (1 .. MaxJobs) :
                  s[2] <= Len(jobs[s[1]]) /\ jobs[s[1]][s[2]] = j}
LocalAt(j)  == {s \in Worker \X (1 .. MaxJobs) :
                  s[2] <= Len(local_jobs[s[1]]) /\ local_jobs[s[1]][s[2]] = j}
TakenBy(j)  == {w \in Worker : job[w] = j /\ pc[w] \in {"uncount", "got"}}
Copies(j)   == Cardinality(GlobalAt(j)) + Cardinality(LocalAt(j))
                 + Cardinality(TakenBy(j)) + ran[j]

\* A job that thrdpool_add accepted is in exactly one queue, or taken by
\* exactly one worker, or has been run exactly once: stealing and global
\* dequeues neither duplicate nor drop it, cancellation included.  Only the
\* destruction of a pool drops the jobs it still holds.
JobConserved ==
  \A j \in Job :
    /\ Copies(j) <= 1
    /\ j \notin accepted => Copies(j) = 0
    /\ (j \in accepted /\ \A p \in Pool : phase[p] # "freed") => Copies(j) = 1

\* When thrdpool_destroy frees the pool, every worker has been joined, the
\* mutex is free, nobody is inside a function of the pool and all of its
\* queues have been destroyed: nothing can touch the freed memory.
TeardownSafe ==
  \A p \in Pool : phase[p] = "freed" =>
    /\ \A w \in Workers(p) : pc[w] \in {"unborn", "joined"}
    /\ mtx[p] = None
    /\ \A t \in Thread : tp[t] # p
    /\ pc[W0(p)] = "joined" => queues[p] = 0

\* Local jobs come first: a worker takes a job from the global queue only
\* when no local queue of its pool holds one (thread_pool.c:158-166).
LocalFirst ==
  [][\A p \in Pool : (jobs[p] # <<>> /\ jobs'[p] = Tail(jobs[p])
                        /\ phase'[p] # "freed")
       => \A w \in Workers(p) : local_jobs[w] = <<>>]_vars

\* Every accepted job is run, unless thrdpool_destroy is called: a test of
\* the repository states this for jobs added from outside and from a job.
\* (There are finitely many jobs: some time none is left.)
JobsRun ==
  (\E j \in accepted : ran[j] = 0)
    ~> \/ \A j \in accepted : ran[j] = 1
       \/ \E p \in Pool : phase[p] \in {"closing", "freed"}

\* thrdpool_destroy returns: every worker reaches a cancellation point, be
\* it asleep, searching, stealing or running a job that returns.  If the first
\* thread could not be created, it waits for ever (thread_pool.c:253, 270), and
\* a worker without a thread may keep it or end the process (line 273).
DestroyReturns ==
  \A p \in Pool : phase[p] = "closing"
    ~> phase[p] = "freed" \/ \E c \in Client : tp[c] = p /\ Lost(c)

(***************************************************************************)
(* The abstract view: which jobs wait, run, are done, in which pool.       *)
(***************************************************************************)
Dead == {"dead", "joined"}

\* The jobs that pool p has accepted and not started.
WaitingIn(p) ==
  {j \in accepted : /\ ran[j] = 0
                    /\ \/ \E i \in 1 .. Len(jobs[p]) : jobs[p][i] = j
                       \/ \E w \in Workers(p) :
                            \/ \E i \in 1 .. Len(local_jobs[w]) : local_jobs[w][i] = j
                            \/ job[w] = j /\ pc[w] \notin Dead}
RunningIn(p) == {j \in accepted : ran[j] > 0 /\ \E w \in Workers(p) :
                                    job[w] = j /\ pc[w] \notin Dead}
DoneJobs == {j \in accepted : ran[j] > 0 /\ \A w \in Worker : job[w] # j}
LostJobs == accepted \ (DoneJobs \cup UNION {WaitingIn(p) \cup RunningIn(p) : p \in Pool})

JP == INSTANCE JobPool WITH
        waiting <- [p \in Pool |-> WaitingIn(p)],
        running <- [p \in Pool |-> RunningIn(p)],
        done <- DoneJobs, lost <- LostJobs

\* The pool implements JobPool: a job is started once, by a worker of the pool
\* that accepted it, never more of them at a time than there are workers; only
\* thrdpool_destroy kills running jobs and drops waiting ones, and it does not
\* free the pool while a job runs.
ImplementsJobPool == JP!Spec
=============================================================================
