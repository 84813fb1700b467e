# A TLA+ model of coop-tasks

coop-tasks is a C11 library for Linux: POSIX threads with names and suspension,
promises, a work-stealing thread pool, and lock-free collections. This directory
holds its formal model: TLA+ modules translated from the source, the TLC
configurations that check them on small instances, and TLAPS proofs of the most
important properties for every instance. Line numbers refer to the files under
`src/`.

## The system

| part | state | operations | used by |
|---|---|---|---|
| thread pool, `thread_pool.c` | global job queue, a local queue per worker, `seek_mtx`, `seek_cnd`, the atomic counters `num_local_jobs` and `num_active`, a promise, the thread-local `ctx` | `thrdpool_create`, `thrdpool_add`, `thrdpool_destroy`; internally `worker_creator`, `worker`, `job_seeking`, `work_steal` | applications |
| promise and future, `future.c` | mutex, condition variable, `done`, `value` | `promise_set_value`, `future_get_value`, `future_has_value` | `thrd_create`, the thread pool |
| memory pool, `collections.c` 1-458 | lock-free list of free fragments (`head`, `tail`, links in the fragments), `freeable` | `mempool_create`, `_alloc`, `_free`, `_clear`, `_contains`, ... | queue, list, threads |
| queue, `collections.c` 460-653 | lock-free queue of values in a memory pool | `queue_create`, `_enqueue`, `_dequeue`, `_destroy` | thread pool |
| list, `collections.c` 685-1221 | sorted lock-free list with marks, flags and backlinks; the process-wide word `readers` | `list_insert`, `_delete`, `_search`, `_update` | threads |
| threads, `threads_posix.c` | the list of thread control blocks, two memory pools, one `pthread_key_t` | `thrd_create`, `_join`, `_cancel`, `_suspend`, `_resume`, `_set_name`, ... | thread pool, applications |
| the rest | none that is shared | `tasks.c` (two setters), deque (stubs that return -1) | |

How the parts meet: `thrdpool_create` makes a first thread with `thrd_create`,
which waits on a future until the thread has entered itself in the list of
control blocks. The first thread creates the other workers and sets the pool's
promise, on which `thrdpool_destroy` waits before it cancels and joins the
workers. Jobs travel by value through queues, whose nodes come from a memory
pool.

What is hard here: threads that are cancelled at any `pthread_cond_wait` and in
any job; a counter, a queue and a sleeping worker that must agree although they
are changed one after the other; lock-free lists whose nodes are recycled while
other threads still hold pointers to them; objects on a stack or in a freed pool
that another thread may still touch; creations that fail half-way. `PROJECT.json`
lists these hazards at their lines, each with the properties that cover it.

## Modules

| module | models | depends on |
|---|---|---|
| `ThreadPool` | the whole of `thread_pool.c`, with POSIX mutex, condition variable, cancellation and join | |
| `JobPool` | what the pool promises, without queues, workers and locks | |
| `ThreadPoolProofs` | theorems about `ThreadPool`: types, mutex, teardown, the counter of local jobs, their precedence, wakeups, jobs are conserved, `ThreadPool` implements `JobPool` | `ThreadPool` |
| `Future` | `future.c` | |
| `FutureProofs` | theorems about `Future` | `Future` |
| `MemPool` | the free list of the memory pool, access by access | |
| `PoolLayout` | sizes, offsets and the address range of a memory pool | |
| `MemPoolProofs` | theorems about `MemPool` and `PoolLayout` | `MemPool`, `PoolLayout` |
| `Queue` | `queue_enqueue`, `queue_dequeue` on recycled fragments, access by access, with the pool's own steps | `MemPool`, `Fifo` |
| `Fifo` | a bounded FIFO queue | |
| `QueueProofs` | theorems about `Queue` with one thread that enqueues | `Queue`, `MemPoolProofs` |
| `List` | `list_insert`, `_delete`, `_search`, `_update` on recycled nodes, access by access | `Dictionary` |
| `Dictionary` | a map, with calls that change it once or are refused | |
| `ListProofs` | theorems about `List` until a hazard comes about: types, order, nodes, `List` implements `Dictionary` | `List` |
| `ListResults` | theorems: what the calls of `List` return was right during the call; a use in which no hazard comes about | `ListProofs` |
| `Readers` | the word `readers`: copies and updates of values, word by word | `Register` |
| `Register` | values that are read and written in one step | |
| `ReadersProofs` | theorems about `Readers` and `Suspension` | `Suspension` |
| `Threads` | `thrd_create`, `internal_entry`, the destructor of a thread, join, detach, names | |
| `ThreadsProofs` | theorems about `Threads` | `Threads` |
| `Suspension` | `thrd_suspend`, its signal handler and `thrd_resume`, composed with `Readers` | `Readers` |
| `MCThreadPool`, `MCMemPool`, `MCQueue`, `MCList`, `MCThreads`, `MCSuspension` | constants and symmetry for TLC | |

### ThreadPool

A thread is a client (`ctx == NULL`) or a worker, a pair of a pool and an index.
`pc[t]` is the place of thread t; names follow the code. `tp[t]` is the pool whose
function t is executing, `add[t]` the argument of `thrdpool_add`, `job[w]` the job
a worker has taken, `idx[c]` the loop index of `thrdpool_destroy`.

- `Create`, `CreateQueueFails`, `CreateFirstFails`: `thrdpool_create`. Nobody else
  knows the pool yet, so the allocations are one step. `thrd_create` fails for a worker
  in two ways. At `"failed"` its thread was made, was refused in `internal_entry` and
  ended: it can still be joined. At `"nothread"` none was made (threads_posix.c:214
  or :221), and `w->thr` names no thread.
- `CreateWorker`, `CreatorDone`: `worker_creator`, which runs concurrently with
  the workers it has made and with clients that already add jobs.
- `AddCall` to `AddReturn`: `thrdpool_add`. The queue operation, the update of
  `num_local_jobs` and the broadcast are steps of their own.
- `TestCancel` to `JobReturns`: one turn of the loop in `worker`. A search that
  finds a local job is two steps, as the counter changes after the queue.
  `LocalSource` is the order of the search: own queue, then the colleagues by
  index, then the global queue, and no local queue at all while the counter is 0.
- `CancelInWait`, `CancelRelock`, `Cleanup`, `CancelInJob`: deferred cancellation.
  `pthread_cond_wait` reacquires the mutex and the handler that the `lock` block
  pushed (utils.h:28-38) releases it.
- `DestroyCall` to `DestroyFree`: `thrdpool_destroy`. Its callers keep their side:
  no client is inside the pool or enters it later. Jobs still running may. For a
  worker with no thread the calls of `pthread_cancel` and `pthread_join` are
  undefined: either they fail and the loop goes on (`DestroySkip`) or the call does not
  come back (`DestroyUndefined`, the client is at `"d_undefined"`). That other
  threads go on then is an over-approximation.

The job queues are bounded FIFO sequences: each is only touched with `seek_mtx`
of its pool held when jobs add to the pool that runs them.

### JobPool

A job waits in a pool, runs, is done or is lost; at most `NumWorkers` run at a
time; it is lost only when its pool is being destroyed. `ImplementsJobPool` is the
refinement: `ThreadPool` maps queues and workers' hands to these sets.

### Future

One setter, any number of getters and pollers. `Signal` wakes one waiter;
`SpuriousWakeup` may wake any. Getters in `Cancelled` may be cancelled while they
wait; `future_get_value` has no cleanup handler, so the mutex stays locked.

### MemPool and PoolLayout

The free list is a Michael-Scott queue. `mem[f]` is the link in the first bytes of
fragment f, which users overwrite once they own it (`Store`), with any of
`UserData`: that includes a null pointer with a zero count, which all users in the
library store there first (collections.c:495 and :812, threads_posix.c:166). Each load,
store and compare-and-swap is an action; the 16-byte copy `next = tail.frag->next`
is two loads, since it is no atomic access. `atomic_compare_exchange_weak` may
fail without reason, for the threads in `SpuriousCAS`. `Chain` is what can be reached from `head`.

Line 126 makes a link of a freed fragment null with a zero count, and so do the users: a
call of `mempool_free` that is delayed before line 137 cannot tell the one from the
other, and its compare-and-swap may succeed on a fragment that somebody else
has allocated. For that the tail must have moved on meanwhile, which only
another `mempool_free` does. The history variable `overlap` records that two
calls of `mempool_free` have been in progress at once. Nothing in the code
prevents it; the pool's properties say what holds until then, and run
`queue_free` what may happen afterwards. `NoSpuriousENOMEM` holds all the same.

`PoolLayout` is the arithmetic around it: the size of a fragment, of the pool, and
the range that `mempool_contains` accepts.

### Queue and Fifo

`Queue` extends `MemPool`: a call of `mempool_alloc` inside of `queue_enqueue` (`EnqPick`,
`EnqFails`, `EnqAlloc`) and of `mempool_free` at the end of `queue_dequeue` (`DeqFree`,
`DeqPut`, `DeqDone`) takes the steps that it has there, on the same memory, interleaved with
those of all other threads. `pc` and `reg` are the place and the locals in the
pool's functions, `qpc` and `qreg` those in the queue's. `mem[f]` is the link of
fragment f, in the same bytes whether the queue or its pool uses it, `data[f]` its
value. `Room` is the queue's capacity: its pool has one fragment more for the
dummy, and one of its own.

`ImplementsFifo` maps the queue to the values behind `qhead`; the
linearization points are the compare-and-swaps of lines 588 and 643. `UsesPool` says
that every step of the queue is one of `MemPool` or leaves the pool alone, so that the
queue keeps the rules of `mempool_free` and `Store`. These properties, too, hold until two calls
of `mempool_free` overlap, which takes two threads that dequeue; `NothingInvented`
has no such condition and run `queue_free` refutes it.

### List and Dictionary

`succ[n]` is the link of node n with its mark and flag, `back[n]` its backlink. The
labels of `pc` begin with `s_` in `search_from`, `h_` in `help_flagged` and
`try_mark`, `i_` in `list_insert`, `d_` and `f_` in `list_delete` and `try_flag`, `q_`
in the readers. `help_flagged` calls itself by way of `try_mark`: `stack[t]` holds
its frames. Tests of keys are no steps of their own, as keys do not change while a
node is in use. `Call` is the call and the first load of its `search_from`.

Three things can happen that the algorithm does not survive, and the code does not
prevent. The variable `spoilt` records which of them have happened:

- `"early"` (`Early`): `list_delete` frees its node (line 1123) while another call, which may
  stand on the node, is in progress;
- `"misled"` (`Misled`): the third load of `try_flag` (line 1044) finds a flag, but the link no
  longer leads to the node that is to be deleted;
- `"overlap"`: two calls of `mempool_free` are in progress at once.

All of them can happen in the model, which goes on with what the code does. The
properties say what holds until one does; `FoundIfPresent` and `RemovedByWinner`
have no such condition, and the runs `list_free` and `list_flag` refute them.

`mempool_alloc` is one step here, and `mempool_free` one at which the node is linked to the free
list and a second, `FreeEnd`, at which the call returns; in between `freeing` has the
thread, and an allocation may find the pool empty although the node is the only free one
(`InsertNoMem`). Until calls of `mempool_free` overlap that is all that `MemPool`
shows from outside: by `FreeListSound` and `UserMemSafe` a call neither loses a fragment
nor writes to memory that it does not own, and by `NoSpuriousENOMEM` it fails only when the
free list is empty. After an overlap these steps stand for what the code does only
as long as the pool survives it, and no run goes there.

`Ops` says which calls each thread may make. `seen[t]` collects what the key of a
call was bound to during the call, and `ResultsRight` compares results with it. In
`Dictionary` a call of `list_delete` takes effect in one step, that which marks the
node, by whichever thread, and returns in another; so `ImplementsDictionary` says
that each success changes the map exactly once.

### Readers and Register

A cell is the value of a list node that the call has already found; cells of
different lists share the word. `Load`, `Spin`, `Enter` and `EnterFails` are the
loop of lines 1116-1119, 1163-1166 and 1193-1196, `CopyWord` and `UpdateWord` the
memcpy in any order of its words, `LeaveCopy` and `LeaveUpdate` the return of the
word. `Busy` is UINT32_MAX; the number of copies may reach it, and then the word
looks like that of an update. `ImplementsRegister` maps an update that has been
let in to the new value and a copy that has been let in to the value there:
both take effect at their compare-and-swap.

### Suspension

`Suspend` leaves a signal pending, `Handle` is the handler, at whatever step the
thread is, `Wake` the end of its `sem_wait`, `Resume` and `Post` are `thrd_resume`,
whose `list_search` copies the control block like any other copy. A controller
resumes the thread that it has suspended before it suspends another. Ordinary
calls are `list_search` (as in `thrd_get_name`) and `list_update` (the last step of
`thrd_set_name`). `SuspSpec` implements `Spec` of `Readers` with the same variables.

### Threads

`pc[t]` is the place of a client in `thrd_create` or `thrd_set_name` and of a thread
in `internal_entry`, its function or its destructor. Calls of `thrd_create` are
numbered; a number stands for the call's function and its promise. `buckets` and
`suspends` are the free lists of the two memory pools, in order, since a thread
goes on reading its bucket after it has freed it (`FreeBucket` to `RunFunc`) and the
order decides when somebody else gets it. `tcbs` is the list, `keys` the keys that
exist, `tcb_key` the variable that every new thread overwrites, `specific[p]` the key
under which thread p has data: its destructor runs if that key still exists.
A thread is `Late` while it reads a bucket that is not its own any more; `reused`
becomes true when such a bucket is handed out. `Reaped` is what joining, or the end of a detached thread, gives back: the
`pthread_t` may be used again.

The other modules model what `Threads` takes as single steps: the list (`List`,
`Readers`), the pools (`MemPool`) and the promise (`Future`).

## Runs

| run | instance | shows |
|---|---|---|
| `pool` | 1 pool, 2 workers, 1 client, 3 jobs, queues of 2, any creation may fail | types and capacity, the mutex, the counter, no lost wakeup, jobs conserved, safe teardown, local jobs first, refinement of `JobPool`; with fairness, every accepted job runs and `thrdpool_destroy` returns unless the first thread is missing or what it does with a missing one is fatal |
| `future` | 3 getters (one cancellable), 1 poller, 2 values, with fairness | value and lifetime; both sides return unless a getter died with the mutex |
| `mempool` | 2 threads, 4 calls each, 2 + 1 fragments, users store zeros or what is no pointer | until frees overlap: no fragment lost, doubled or written to while owned, exact counter; no spurious `ENOMEM` |
| `queue` | 1 thread enqueues, with spurious failures of compare-and-swap, 2 dequeue, 2 + 2 fragments | until frees overlap: refinement of `Fifo`, fragments kept, the pool's rules kept, no spurious `ENOENT` |
| `queue_two` | 2 threads enqueue, one of them dequeues too | **violation**: an accepted value is lost |
| `queue_free` | 1 thread enqueues, 2 dequeue, whatever overlaps | **violation**: a freed fragment gets into the queue, and a value comes out twice |
| `list` | 3 threads, one call each out of `Mixed`, keys 1 and 2 present | until a hazard: sorted, nodes accounted for, right results, refinement of `Dictionary` |
| `list_flag` | one thread deletes 2, another inserts and deletes 1, no hazard but `"misled"` | **violation**: `list_delete` returns -1 for a key that it removes |
| `list_free` | one thread searches, another deletes and inserts, no hazard but `"early"` | **violation**: a search misses a key that is there all the time |
| `readers` | a thread that copies and may be suspended, one that copies and updates, a controller; values of 2 words, `Busy` = 2 | the word is exact and stays in range, copies are whole, no resumption is lost, refinement of `Register`; with fairness, calls return and suspended threads run again |
| `threads` | 2 clients, 2 `pthread_t`, 3 calls, 1 + 1 buckets, 2 control blocks, 1 key, `pthread_create` may fail | each thread runs with its own semaphore; promises are set once, in a live frame; with fairness, `thrd_create` and `thrd_set_name` return; all until a block is overwritten |
| `threads_reuse` | 1 client, 2 `pthread_t`, 12 calls, the capacities of the code | **violation**: a thread runs the function of another call |

Why the bounds suffice: with two workers one steals from the other, and queues of 2 fill and
empty; three jobs let a job add a job while another waits in the global queue.
More clients, workers and jobs and other capacities make no difference to the
safety properties of `pool`: each is a theorem for all of them. (With queues of 1 a
job could try for ever to add to a full queue; `JobsRun` is about jobs that return. A
refused local job does not occur with three jobs and queues of 2, as one of them runs and
adds: for that case `LocalCountExact` rests on its theorem.)

Four calls per thread are enough for an address to go through
allocation, free and allocation again while the other thread is inside one call,
which is the shape of every ABA problem; in `queue` the slow consumer can be inside
one call while fragments go all the way round the queue and the pool. The thread that enqueues may
fail to move the tail, which then is behind until somebody helps it on; the constraint
`LagsEarly` has this happen with the first two values only. In `list`
three calls at once suffice for two deletions of adjacent nodes, or of one, to meet an
insertion before, between or after them; every branch of the four functions is
taken. Nobody is misled by a flag there: that takes the deletion of a node that has
been inserted in front of one that is being deleted, which is four calls when both keys
are there already.

The runs `mempool`, `queue` and `list` have a state constraint, `NoOverlap` or
`Unspoilt`: after an overlap, or a hazard, their properties say nothing, and TLC does not
go on from there. Only types and `NoSpuriousENOMEM` still say something then, and of these
there are theorems. In `list_flag` and
`list_free` constraints keep TLC to the hazard in question, so that its
counterexample shows that and no other.

Counts and `freeable` wrap at 16 instead
of 2^32 and 2^64: no run makes that many calls. In `readers` two copies make the
word read `Busy`, which in the code takes 2^32 - 1 of them; the controller suspends
twice. In `threads` three calls on two `pthread_t` reuse one of them, with one key
for two threads the key runs out and destructors are lost, and with two clients
creations overlap. The third call may get a bucket whose last thread still
reads it: from there on `reused` is true and the properties promise nothing.
`Namer` names the threads
that call `thrd_set_name`: one of the clients.

Three restrictions of the instances keep out behaviour that breaks the properties,
and TLC shows it when they are lifted:

- `pool` with two pools and `Targets <- AnyTargets`: a job that adds to another
  pool leaves the new job in its own worker's queue (thread_pool.c:313), where it
  stays; `JobsRun` is violated.
- `future` without the exception `SomeDied`: a getter cancelled in
  `pthread_cond_wait` (future.c:117) keeps the mutex, and `promise_set_value` hangs.
- `readers` with an updating thread in `Suspendable`: stopped inside of `list_update`
  it keeps the word at UINT32_MAX, and `list_search` in `thrd_resume` spins for ever;
  `CallsReturn` is violated.

Three more things that the models do are no runs of their own, as the properties make
exceptions for them:

- In `pool` a worker for which no thread was made (`"nothread"`) takes
  `thrdpool_destroy` to `"d_undefined"` (thread_pool.c:273): `pthread_cancel` gets a `w->thr`
  that names no thread. `DestroyReturns` leaves this out, with `Lost`.
- In `MemPool`, when one call of `mempool_free` is delayed before line 137 while another thread
  frees, allocates, zeroes and frees, a fragment is lost although `freeable` counts it:
  without the constraint `NoOverlap` TLC finds a state in which `user` is empty and nobody is
  in a call, but `Chain` lacks a fragment.
- In `Threads`, the first thread that ends deletes the key that was created last
  (threads_posix.c:145): the destructor of another thread never runs, its control block stays
  in the list, and `thrd_create` fails for the next thread with the same `pthread_t`. With one
  client, two `pthread_t`, three calls and the capacities of the code TLC finds a call
  with the result `"refused"`.

The violations are what the code does against what its documentation or tests
say; `findings` in `PROJECT.json` quotes the lines.

`CHECK_DEADLOCK FALSE` is set where the system may stop for good: after a getter
has been cancelled with the mutex locked (`future`), when a thread
has set the promise of another call and the client of its own waits for ever
(`threads`), and in `list_free`, where a thread that follows a null pointer stops. Everywhere else TLC
also shows the absence of deadlock; what may stop there is named by `Terminated` or
`Done`, as when the first thread of a pool cannot be created and `thrdpool_destroy`
waits for a promise that nobody sets.

## Fairness

`FairSpec` of `ThreadPool` assumes that every runnable thread is scheduled (weak
fairness per thread), that jobs return (`JobReturns`), and that no thread starves
at a mutex that is released over and over (strong fairness of `AddLock`,
`WorkerLock`, `CancelRelock`). `CancelInWait` is strongly fair because a pending
cancel is acted upon by the next `pthread_cond_wait` on entry. Clients need not
call anything and nothing wakes up spuriously by obligation. `Future` is alike.

`FairSpec` of `Suspension`: runnable threads run, signals are delivered, a weak
compare-and-swap that could succeed again and again does (strong fairness of
`Enter`), and who has suspended a thread resumes it. `FairSpec` of `Threads`: the
calls of clients and the code of the library go on; functions of threads need not
end, nor need clients call anything.

## Proofs

`ThreadPoolProofs` (for any sets of pools, clients and jobs, any number of workers
and any queue capacity):

- `StructInv` is the inductive invariant. It adds to the types: where clients and
  workers can be (`PlaceInv`), what the phase of a pool says about its threads and
  queues (`NoneInv`, `OpenInv`, `FreedInv`, `CreatorInv`), that one client destroys
  a pool (`OwnerInv`), that its loop index stays in range (`IndexInv`) and that
  the workers above it have been joined (`JoinedInv`). Types alone are not
  inductive: `DestroyFree` subtracts from `queues`, indexes workers with `idx`, and
  is only in range because nobody else destroys the pool.
- `TypeCorrect` follows. `MutexHolds`: `MutexSafe` is inductive relative to
  `StructInv`. `TeardownHolds` follows from both: nobody is inside a freed pool, so
  nobody can hold its mutex.

The theorems of `ThreadPoolProofs` about the counter suppose `OwnPool`: every worker adds jobs
only to the pool that runs it (`OwnTargets` of the runs is one such choice). Otherwise a worker queues a job
in its own local queue and counts it in another pool's `num_local_jobs`, and the
counters of both pools are wrong.

- `LocalCountHolds`: `LocalCountExact` is inductive relative to `StructInv`,
  `MutexSafe` and `HomeInv` (a worker in `thrdpool_add` is in its own pool's). The
  counter and the sets it is compared with change by one together; the mutex makes
  the thread between queue and counter the only one (`Alone`).
- `LocalFirstHolds`: a worker takes a global job only if the counter is zero or every
  local queue is empty, which comes to the same by the exact count (`NoSource`).
- `WakeupHolds`: `NoLostWakeup` is inductive relative to these. Only an enqueue makes
  `HasWork` true while a worker waits, and it leads to a broadcast under the mutex.

Without `OwnPool`: `ConservedHolds`. `JobInv` says of each job that it
is in at most one slot of one queue, in at most one worker's hands, never in two of
these, nor there once it has run, and that an accepted job is somewhere. It also
needs that the jobs of calls in progress are distinct and not accepted yet
(`AddInv`). Each operation on a queue is a lemma about slots (`SlotsAppend`,
`SlotsTail`).

Also without `OwnPool`: `JobPoolImplemented`, the refinement. Two more invariants carry
it: a worker that has a job is the only one that has, and the job has been started
unless the worker has only just taken it (`HoldInv`); only workers of pools being
destroyed are cancelled (`CancelInv`). Every step either leaves the view alone
(`StillView`, and `TakeView` when a job moves from a queue into a worker's hands) or is
one step of `JobPool`. That fewer than `NumWorkers` jobs run when one starts is a
counting argument (`FewerRunning`); that a freed pool runs none follows from its
workers having been joined.

`FutureProofs`: `GetsTheValueHolds` and `StorageReleasedHolds`, from an invariant
that ties the mutex, `done` and the places of setter and getters together.

`MemPoolProofs`, for any number of threads and fragments, with or without spurious
failures of a compare-and-swap and whatever users store. One hypothesis is stated with each
theorem:

- `NoWrap`: the calls of all threads together and the capacity are fewer than a count
  can hold, 2^32 in the code. A compare-and-swap is meant to fail when the list has
  changed in between; that rests on the counts not coming back.

The properties themselves speak of the time until calls of `mempool_free` overlap (but
`NoSpuriousENOMEM`, which always holds), so `IndInv` says that none have: calls of
`mempool_alloc`, however many, and one call of `mempool_free` at a time.

- `Layout`: each fragment is in a user's or a call's hands or has an owner `own[f]`,
  the first fragment of its chain, and a distance `pos[f]` to it: no two fragments of a
  chain have the same one, a link leads from one to the next, and only the last link
  is null. The chains are that of `head` and the fragment that a call
  is about to link. The tail is in the chain of `head`, `tail.count` less
  `head.count` fragments from it.
- `OnePut`: one thread at most is in `mempool_free`. So from the check of line 133 on the tail
  does not leave the list under it: only its own compare-and-swap makes the list longer, and a
  call of `mempool_alloc` takes no fragment that the tail points to.
- `Seen(t)`: what a call has loaded is still true if head or tail has not changed since.
- `CountInv`: the count of the head is bounded by the calls that have taken a fragment;
  the counter, the fragments out of the pool and the calls that still owe an update of the
  counter add up to the capacity modulo 2^64.

Each action has a lemma. What a step of one thread leaves to the others is treated
once (`SeenKept`, `Assemble`), as are steps that only change local variables (`LocalStep`) and
steps that leave the list alone (`PlaceStep`). `mempool_clear` makes the pool as it
was at the start (`Fresh`). `FromChain` shows that what can be reached from the first
fragment of a chain is the chain: a recursive function equals a set, by its least counterexample.
`TypeCorrect`, `FreeListSoundHolds`, `UserMemSafeHolds` and `FreeableExactHolds` follow, the
last one by counting fragments and calls (`Counting`). `NoSpuriousENOMEMHolds` has an
invariant of its own, `Basic`, which only speaks of the head, its count and
what calls of `mempool_alloc` have read, and which overlapping calls do not disturb.

About `PoolLayout`, for every data size, capacity and header size: `FragmentsFit` (the
fragments are aligned to 16 bytes, disjoint and inside the allocation),
`AcceptsFragments` and `RejectsLastFragmentData` (which addresses `mempool_contains`
takes: those of all fragments, but not data inside the last one). They rest on
`AlignedBytesProperties`, what rounding up to 16 does.

`ReadersProofs`, for any threads, cells, words, values and any `Busy` but 0: the
inductive invariant is `WordExact` with the types and what each place knows: a
thread before its compare-and-swap holds a count that admitted it, an update has
written `arg` to the words that are no longer in `todo`, and a copy has read whole
values. Types alone do not bound the word: that it never falls below zero needs
that it counts the copies, a fact about the cardinality of `Copiers`. From it follow
`TypeCorrect`, `WordExactHolds`, `CopiesWholeHolds` and the refinement
`RegisterImplemented`.

For `Suspension`, in the same module: `SuspImplementsReaders` is the refinement of `Readers`, by which
exclusion and whole copies carry over (`SuspendedExclusion`). `ResumeKeptHolds`
counts, for each thread, posts and controllers that still owe one.

`ThreadsProofs`, for any numbers of clients, `pthread_t` values, buckets, control
blocks, keys and calls. `Ownership` is the inductive invariant `IndInv`, in layers that
are proved one on top of the other: places and types (`ControlInv`, `DataInv`,
`RecordInv`); each bucket is free once or has one holder (`BucketInv`), and so has each
semaphore, which may be free, in the list, in the hands of a new thread or of a
destructor (`SemInv`); the call, the thread and the owner belong together, so that
a `pthread_t` is not used again while somebody names or joins it (`CallInv`,
`NameInv`); buckets come round in order, so that one which is still read is behind
all buckets that have not been used (`FreshInv`); and what a block, a promise and a
copied block say (`KeepInv`, `BlockInv`, `StatusInv`). The last ones hold until `reused`:
a thread reads a block that is not its own any more, and nothing in the code makes
it finish before the bucket comes round. `FirstCallsRun` says how long nothing can
happen, whatever the interleaving: for `NumBuckets` + 1 calls of `thrd_create`, 11 in the
code. Run `threads_reuse` shows that this is exact. `RunsItsFunctionHolds` says
what this run refutes without the condition: until then each thread runs the function of its
own call, and only if that call reports success; it is proved and not checked by a run. `TypeCorrect` also says that no
pool is ever overfilled, a counting argument over the two free lists.

`QueueProofs`, for any number of threads that dequeue, any capacity and any range of
the counts, supposes `NoWrap`, as above, and `OneEnqueuer`: one thread enqueues. Run
`queue_two` shows what happens with two: the compare-and-swap of line 588 compares a
null link whose count may be that of the fragment's earlier use, so a value can be
linked behind a fragment that is free.

The queue's invariant is `QIndInv`, on top of `IndInv` of `MemPoolProofs`: as long as `QIndInv`
holds every step of the queue is one of the pool (`QStepIsPool`), which preserves `IndInv`
(`NextInv`), and that in turn keeps the pool's hands off the queue's fragments
(`PutSpares`). The two are carried together (`QInductive`). `QIndInv` has four parts.

- `QTypeInv`: types. That only `Writer` is in `queue_enqueue` is part of them.
- `ChainInv`: the links lead from `qhead` through the queue (`Q`) without ever coming back;
  each fragment that the queue has from the pool is in `Q` or in the hands of exactly one call.
- `HistInv`: the count of `qhead` is the number of values taken, that of `qtail` follows from its
  place in the queue, and each value in the queue or taken is one that `Writer` has
  got far enough with to have put it there, so none comes twice.
- `QSeen(t)`: what a call has read of `qhead`, `qtail` or a link is still true if the count has
  not moved. The counts only grow, which makes the second comparison of each
  loop mean what the code needs. The last dequeuer's
  copy of a value (line 639) may be of a recycled fragment; then its
  compare-and-swap fails.

`Path` counts links, so facts about it need induction: `PathOf` finds the place where a
walk first differs from a path as a least counterexample (`NatMin`), and `Pigeonhole`
bounds its length. Steps that change neither links nor ends (`Quiet`), and steps that
only change memory in a call's own hands (`Private`), are treated once for all; the others
have a lemma each. `UsesPoolHolds`, `QTypeCorrect`, `FragmentsKeptHolds`,
`NoSpuriousENOENTHolds`, `ValuesKeptHolds` (the property that `queue_two` violates) and
`FifoImplemented` follow, all until calls of `mempool_free` overlap: line 588 puts a
value in, line 643 takes the oldest out.

With one thread that dequeues calls of `mempool_free` never overlap (`NeverOverlaps`, by an
invariant about places only), so there is no condition left: `OneOfEachFifo` says that a
queue with one thread at either end is a bounded FIFO queue. With two that dequeue it is
not, which is what `queue_free` shows. The thread pool keeps to neither: it takes
`seek_mtx` around every call instead (see ThreadPool).

`ListProofs`, for any threads, keys, values, operations and any capacity. The theorems have no
hypothesis; the properties speak of the time until a hazard comes about (see List above). A
step that leaves `spoilt` empty frees no node under another call or during another
`mempool_free`, nor is misled by a flag (`CalmStep`): the invariant is about such
steps. After `"misled"` there is none: the node is then marked while no flag leads to
it, and stays in the list with its mark until another deletion flags it; its
backlink may outlast the node it leads to.

The inductive invariant `IndInv` says that there are a list `L`, a set `R` of nodes that a call
may come upon and a sequence `sq`, the pool's free list, such that

- `ListInv`: each link of `L` leads to the next greater key of `L`, from head to tail;
- `RefInv`: `R` is `L` with nodes that are marked and out of the list. Links lead from `R` to
  greater keys in `R`, and the backlink of a marked node to a smaller key in `R`. This
  is what makes it safe to go on from a node that has been unlinked meanwhile;
- `FlagInv`: a flag in `L` is that of one call, which has not returned, and the
  predecessor of a marked node in `L` is flagged for it;
- `PoolInv`: the links lead through `sq`, each node once;
- `OwnInv`: a node outside of the list and the free list is owned by one call, and no
  node is owned by two;
- `RegOk` and `StackOk`: what the locals of a call and the frames of `help_flagged` may
  rely on at each place.

A step of one thread must leave to the others what they rely on: `Stable` says which
changes of nodes do, and `SharedStep` that a step with such changes preserves the invariant if
it does for its own thread. Only freeing takes nodes out of `R`; without `"early"` all
other calls are idle then, or are about to free nodes that are out of the list (`Aside`).
`Path` is a recursive function, so what it returns is again a matter of least
counterexamples (`PathOf`); that the list fits into its bound is a counting argument over
the ranks of keys (`Rank`, `ListPath`). `TypeCorrect`, `SortedHolds` and `NodesKeptHolds` follow.

`DictionaryImplemented` is the refinement. `ItemsNow` says what `items` is: the values of
the nodes of `L` that are not marked (`Live`). To the invariant comes `ValInv`: what values the
nodes of `L` and those about to be inserted have, and that a deletion which has got its node out
of the list finds it marked. A step that marks no node and links no new one leaves `items`
and `call` alone (`NoEffect`, `SameCall`, `Stutter`), whatever it unlinks. The
compare-and-swap of `list_insert` binds a key that no node of `L` has; that of `try_mark`
unbinds the key of its node, on behalf of the one call whose flag leads to
the node (`OwnerFacts`), which may be another thread's; an update writes to a live node or
to one that nobody can find any more (`UpdateItems`).

`ListResults` proves `ResultsCorrect`: until a hazard comes about, what a call returns was
right at some moment of the call (`ResultsRight`). A search that reports `ENOENT`, say, may
stand on a node that was deleted long ago, so that the list it sees never existed as a whole;
what saves it is when those nodes were marked. For each call `u` there is a set `V[u]` of nodes:
those that were live in the list when it began, and those linked since.

- A call holds only nodes of its set (`Knows`): it goes from one to the next along links, and
  along the backlink of a marked node, which leads back into the set because the backlink of a
  live node is the predecessor that is flagged for it (`BackOk`, `FramesIn`).
- Each node of the set with the call's key was bound to its value while the call was in
  progress (`Visited`).
- A marked node of the set was marked after the call began, and its link does not change any
  more. So the key was unbound then, if it is the node's or one that the link jumps over.
- A live node tells of the present: the list is sorted, and `items` is what is in it (`ItemsNow`).

`Known` joins this to `IndInv` and `ValInv`; TLC checked it on small instances before it
was proved. Steps that only change nodes in ways that leave the sets of the other calls right
(`Evolves`) are treated once for all; linking a node, marking one, and an update each have
lemmas of their own, as they change what the keys are bound to.

`NeverSpoilt` gives a use of the list in which no hazard ever comes about: one thread inserts and
no thread deletes, while others search and update, or one thread does it
all (`OneWriter`). Then the list is a map throughout (`OneWriterDictionary`). Weaker rules do not
do: two threads that insert may both free nodes at once, and a deletion beside
a search is what `list_free` is about. `thrd_create` and the end of
threads keep to no such rule.

The only assumptions are the `ASSUME`s of the modules, which say what the
constants are, and `OwnPool`, `OneEnqueuer`, `OneDequeuer`, `NoWrap` and `OneWriter` where
stated. Model-checked only is liveness under fairness, which is out of the prover's reach, and
the properties of the runs that expect a violation are refuted by TLC.

## Plan

`list_destroy`; a composition of `Threads` with `Suspension`, where a thread ends
while it is being resumed.

## Not modelled

The deque (stubs), `tasks.c` (no shared state), debug output, `list_dump`,
`list_destroy`, job names, `thrd_sleep`, `thrd_yield`, the name that the kernel keeps
and the priority and affinity stubs. `thrd_cancel` ends a thread like `thrd_exit`;
the caller of `thrd_create` is not cancelled.
Null-pointer checks that
return `EINVAL` are left out: they change nothing. Memory is sequentially
consistent: all shared accesses that matter are `seq_cst` atomics or under a
mutex, except the plain copies noted in `MemPool`.
