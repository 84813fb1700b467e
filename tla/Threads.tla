------------------------------- MODULE Threads -------------------------------
(***************************************************************************)
(* Creation, registration, names and end of threads in                     *)
(* src/src/threads_posix.c.  thrd_create hands a thread control block (a   *)
(* bucket of the memory pool buckets) to internal_entry and waits on a     *)
(* promise in its own stack frame until the new thread has copied the      *)
(* block into the list tcbs.  A destructor of thread-specific data takes   *)
(* the thread out of the list when it ends.                                *)
(*                                                                         *)
(* The list, the memory pools and the promise are used by single steps:    *)
(* modules List, MemPool and Future have theirs.  A pool is first in,      *)
(* first out, and keeps one fragment more than it hands out.  Calls of     *)
(* thrd_create are numbered, and a call stands for the function that it    *)
(* passes and for its promise, too.                                        *)
(***************************************************************************)
EXTENDS Naturals, Sequences, FiniteSets, Functions

CONSTANTS
  Client,      \* threads that call thrd_create
  Thr,         \* values of pthread_t, used again after the end of a thread
  NumBuckets,  \* capacity of buckets: 10
  MaxThreads,  \* capacity of tcbs and of suspends: MAX_THREADS
  KeysMax,     \* PTHREAD_KEYS_MAX
  Namer,       \* threads that call thrd_set_name
  MayFail,     \* can pthread_create fail although there is a free pthread_t?
  None,
  MaxCalls     \* bound: the number of calls of thrd_create

Call   == 1 .. MaxCalls
Bucket == 1 .. NumBuckets + 1
Sem    == 1 .. MaxThreads + 1
\* What the list holds of a control block.
Entry  == [suspend : Sem, name : Client \cup Thr \cup {None}]

ASSUME ThreadsAssumption ==
  /\ IsFiniteSet(Client) /\ IsFiniteSet(Thr) /\ Client \cap Thr = {}
  /\ NumBuckets \in Nat /\ MaxThreads \in Nat /\ KeysMax \in Nat
  /\ MaxCalls \in Nat
  /\ MayFail \in BOOLEAN /\ Namer \subseteq Client \cup Thr
  /\ None \notin Client \cup Thr \cup Nat \cup Entry

VARIABLES
  buckets, suspends, \* the free fragments of the two memory pools
  tcb,       \* what is in each bucket
  tcbs,      \* the list: the entry of each pthread_t, or None
  keys,      \* keys that exist
  tcb_key,
  pc,        \* of each client and thread: its place
  calls,     \* the number of calls of thrd_create
  cur,       \* the call that each client is in
  boot,      \* the bucket that a client has filled or a thread was given
  status,    \* the value of a call's promise
  result,    \* what a call has returned
  born,      \* the call that made each thread
  specific,  \* the key for which each thread has data, or None
  suspend,   \* the thread-local pointer to a semaphore
  owner,     \* the client that may join each thread
  detached,  \* threads that have been detached
  func,      \* history: the function that each thread runs, or None
  copy,      \* the block that thrd_set_name has copied
  reused     \* history: has a bucket been handed out that a thread still reads?

vars == <<buckets, suspends, tcb, tcbs, keys, tcb_key, pc, calls, cur, boot,
          status, result, born, specific, suspend, owner, detached, func,
          copy, reused>>

pools   == <<buckets, suspends, tcb>>
keyvars == <<keys, tcb_key, specific>>
frame   == <<calls, cur, result, reused>>  \* what thrd_create works on
thread  == <<boot, born, suspend>>       \* what internal_entry works on
after   == <<owner, detached, func, copy>>

Init ==
  /\ buckets = [i \in Bucket |-> i] /\ suspends = [i \in Sem |-> i]
  /\ tcb = [b \in Bucket |-> [func |-> None, prms |-> None, suspend |-> None]]
  /\ tcbs = [p \in Thr |-> None]
  /\ keys = {} /\ tcb_key = None
  /\ pc = [t \in Client \cup Thr |-> IF t \in Client THEN "idle" ELSE "none"]
  /\ calls = 0
  /\ cur = [c \in Client |-> None]
  /\ boot = [t \in Client \cup Thr |-> None]
  /\ status = [k \in Call |-> "unset"]
  /\ result = [k \in Call |-> "none"]
  /\ born = [p \in Thr |-> None]
  /\ specific = [p \in Thr |-> None]
  /\ suspend = [p \in Thr |-> None]
  /\ owner = [p \in Thr |-> None] /\ detached = {}
  /\ func = [p \in Thr |-> None]
  /\ copy = [t \in Client \cup Thr |-> None]
  /\ reused = FALSE

Goto(t, l) == pc' = [pc EXCEPT ![t] = l]

\* Threads that read their block although they have given its bucket back.
Late == {p \in Thr : pc[p] \in {"refuse", "suspend", "promise", "clear", "func"}}

\* mempool_alloc keeps the last fragment.
Avail(free) == Len(free) > 1

-----------------------------------------------------------------------------
(***************************************************************************)
(* thrd_create.                                                            *)
(***************************************************************************)
CreateCall(c) ==
  /\ pc[c] = "idle" /\ calls < MaxCalls
  /\ calls' = calls + 1
  /\ IF Avail(buckets)
     THEN /\ buckets' = Tail(buckets)
          /\ tcb' = [tcb EXCEPT ![Head(buckets)] =
                       [func |-> calls', prms |-> calls', suspend |-> None]]
          /\ boot' = [boot EXCEPT ![c] = Head(buckets)]
          /\ cur' = [cur EXCEPT ![c] = calls']
          /\ Goto(c, "pthread")
          /\ reused' = (reused \/ \E p \in Late : boot[p] = Head(buckets))
          /\ UNCHANGED result
     ELSE /\ result' = [result EXCEPT ![calls'] = "nomem"]
          /\ UNCHANGED <<buckets, tcb, boot, cur, pc, reused>>
  /\ UNCHANGED <<suspends, tcbs, keyvars, status, born, suspend, after>>

PthreadCreate(c) ==
  /\ pc[c] = "pthread"
  /\ \E p \in Thr :
       /\ pc[p] = "none"
       /\ pc' = [pc EXCEPT ![c] = "wait", ![p] = "entry"]
       /\ boot' = [boot EXCEPT ![c] = None, ![p] = boot[c]]
       /\ born' = [born EXCEPT ![p] = cur[c]]
       /\ suspend' = [suspend EXCEPT ![p] = None]
  /\ UNCHANGED <<pools, tcbs, keyvars, frame, status, after>>

\* For want of threads or of other resources; the bucket is not given back.
PthreadFails(c) ==
  /\ pc[c] = "pthread"
  /\ MayFail \/ \A p \in Thr : pc[p] # "none"
  /\ result' = [result EXCEPT ![cur[c]] = "again"]
  /\ boot' = [boot EXCEPT ![c] = None]
  /\ cur' = [cur EXCEPT ![c] = None]
  /\ Goto(c, "idle")
  /\ UNCHANGED <<pools, tcbs, keyvars, calls, reused, status, born, suspend,
                 after>>

\* Mutant: thrd_create does not wait for the promise.
CreateReturnAtOnce(c) ==
  /\ pc[c] = "wait"
  /\ LET ok == status[cur[c]] # "nomem" IN
     /\ result' = [result EXCEPT ![cur[c]] = IF ok THEN "zero" ELSE "refused"]
     /\ owner' = [p \in Thr |-> IF ok /\ born[p] = cur[c] THEN c ELSE owner[p]]
  /\ cur' = [cur EXCEPT ![c] = None]
  /\ Goto(c, "idle")
  /\ UNCHANGED <<pools, tcbs, keyvars, calls, reused, status, thread, detached,
                 func, copy>>

\* future_get_value returns.
CreateReturn(c) ==
  /\ pc[c] = "wait" /\ status[cur[c]] # "unset"
  /\ LET ok == status[cur[c]] = "zero" IN
     /\ result' = [result EXCEPT ![cur[c]] = IF ok THEN "zero" ELSE "refused"]
     /\ owner' = [p \in Thr |-> IF ok /\ born[p] = cur[c] THEN c ELSE owner[p]]
  /\ cur' = [cur EXCEPT ![c] = None]
  /\ Goto(c, "idle")
  /\ UNCHANGED <<pools, tcbs, keyvars, calls, reused, status, thread, detached,
                 func, copy>>

-----------------------------------------------------------------------------
(***************************************************************************)
(* internal_entry, run by the new thread.                                  *)
(***************************************************************************)
EntryAlloc(p) ==
  /\ pc[p] = "entry"
  /\ IF Avail(suspends)
     THEN /\ tcb' = [tcb EXCEPT ![boot[p]].suspend = Head(suspends)]
          /\ suspends' = Tail(suspends)
          /\ Goto(p, "insert")
     ELSE /\ Goto(p, "give_up")
          /\ UNCHANGED <<tcb, suspends>>
  /\ UNCHANGED <<buckets, tcbs, keyvars, frame, status, thread, after>>

Size == Cardinality({p \in Thr : tcbs[p] # None})

\* list_insert copies the block; the list holds each pthread_t once.
EntryInsert(p) ==
  /\ pc[p] = "insert"
  /\ tcbs[p] = None /\ Size < MaxThreads
  /\ tcbs' = [tcbs EXCEPT ![p] = [suspend |-> tcb[boot[p]].suspend, name |-> None]]
  /\ Goto(p, "key")
  /\ UNCHANGED <<pools, keyvars, frame, status, thread, after>>

\* Mutant: the result of list_insert is not tested.
EntryInsertUnchecked(p) ==
  /\ pc[p] = "insert"
  /\ tcbs[p] # None \/ Size = MaxThreads
  /\ Goto(p, "key")
  /\ UNCHANGED <<pools, tcbs, keyvars, frame, status, thread, after>>

\* Mutant: list_insert is repeated until it succeeds.
EntryInsertRetries(p) ==
  /\ pc[p] = "insert"
  /\ tcbs[p] # None \/ Size = MaxThreads
  /\ UNCHANGED vars

\* The semaphore is not given back.
EntryInsertFails(p) ==
  /\ pc[p] = "insert"
  /\ tcbs[p] # None \/ Size = MaxThreads
  /\ Goto(p, "give_up")
  /\ UNCHANGED <<pools, tcbs, keyvars, frame, status, thread, after>>

\* mempool_free(&buckets, tcb), when the thread gives up and when it does not.
FreeBucket(p) ==
  /\ pc[p] \in {"give_up", "free"}
  /\ buckets' = Append(buckets, boot[p])
  /\ Goto(p, IF pc[p] = "free" THEN "suspend" ELSE "refuse")
  /\ UNCHANGED <<suspends, tcb, tcbs, keyvars, frame, status, thread, after>>

SetPromise(p, v) ==
  IF tcb[boot[p]].prms = None THEN UNCHANGED status
  ELSE status' = [status EXCEPT ![tcb[boot[p]].prms] = v]

\* Mutant: the bucket is freed twice.
RefuseFrees(p) ==
  /\ pc[p] = "refuse"
  /\ SetPromise(p, "nomem")
  /\ buckets' = Append(buckets, boot[p])
  /\ Goto(p, "dead")
  /\ UNCHANGED <<suspends, tcb, tcbs, keyvars, frame, thread, after>>

\* The block is read after its bucket has been freed, here and below; the link
\* that mempool_free writes overlays tid, ptid and thr, which nobody reads.
Refuse(p) ==
  /\ pc[p] = "refuse"
  /\ SetPromise(p, "nomem")
  /\ Goto(p, "dead")
  /\ UNCHANGED <<pools, tcbs, keyvars, frame, thread, after>>

\* pthread_key_create: each thread makes a key of its own and overwrites
\* tcb_key.  A key is named after the call that made the thread; without a
\* free slot, tcb_key stays.
KeyCreate(p) ==
  /\ pc[p] = "key"
  /\ IF Cardinality(keys) < KeysMax
     THEN keys' = keys \cup {born[p]} /\ tcb_key' = born[p]
     ELSE UNCHANGED <<keys, tcb_key>>
  /\ Goto(p, "specific")
  /\ UNCHANGED <<pools, tcbs, specific, frame, status, thread, after>>

\* pthread_setspecific fails if the key has been deleted.
SetSpecific(p) ==
  /\ pc[p] = "specific"
  /\ specific' = [specific EXCEPT ![p] = IF tcb_key \in keys THEN tcb_key ELSE None]
  /\ Goto(p, "free")
  /\ UNCHANGED <<pools, tcbs, keys, tcb_key, frame, status, thread, after>>

TakeSuspend(p) ==
  /\ pc[p] = "suspend"
  /\ suspend' = [suspend EXCEPT ![p] = tcb[boot[p]].suspend]
  /\ Goto(p, "promise")
  /\ UNCHANGED <<pools, tcbs, keyvars, frame, status, boot, born, after>>

Announce(p) ==
  /\ pc[p] = "promise"
  /\ SetPromise(p, "zero")
  /\ Goto(p, "clear")
  /\ UNCHANGED <<pools, tcbs, keyvars, frame, thread, after>>

ClearPromise(p) ==
  /\ pc[p] = "clear"
  /\ tcb' = [tcb EXCEPT ![boot[p]].prms = None]
  /\ Goto(p, "func")
  /\ UNCHANGED <<buckets, suspends, tcbs, keyvars, frame, status, thread, after>>

RunFunc(p) ==
  /\ pc[p] = "func"
  /\ func' = [func EXCEPT ![p] = tcb[boot[p]].func]
  /\ boot' = [boot EXCEPT ![p] = None]
  /\ Goto(p, "run")
  /\ UNCHANGED <<pools, tcbs, keyvars, frame, status, born, suspend, owner,
                 detached, copy>>

-----------------------------------------------------------------------------
(***************************************************************************)
(* The end of a thread: its function returns, calls thrd_exit or is        *)
(* cancelled, and the destructors of its keys run.                         *)
(***************************************************************************)
End(p) ==
  /\ pc[p] = "run"
  /\ Goto(p, IF specific[p] \in keys THEN "delete" ELSE "dead")
  /\ specific' = [specific EXCEPT ![p] = None]
  /\ UNCHANGED <<pools, tcbs, keys, tcb_key, frame, status, thread, after>>

\* internal_task_finalizer: list_delete copies the block out.
FinalDelete(p) ==
  /\ pc[p] = "delete"
  /\ copy' = [copy EXCEPT ![p] = tcbs[p]]
  /\ tcbs' = [tcbs EXCEPT ![p] = None]
  /\ Goto(p, "release")
  /\ UNCHANGED <<pools, keyvars, frame, status, thread, owner, detached, func>>

FinalFree(p) ==
  /\ pc[p] = "release"
  /\ suspends' = Append(suspends, copy[p].suspend)
  /\ copy' = [copy EXCEPT ![p] = None]
  /\ Goto(p, "unkey")
  /\ UNCHANGED <<buckets, tcb, tcbs, keyvars, frame, status, thread, owner,
                 detached, func>>

\* The key that is deleted is the one that was created last.
FinalKey(p) ==
  /\ pc[p] = "unkey"
  /\ keys' = keys \ {tcb_key}
  /\ Goto(p, "dead")
  /\ UNCHANGED <<pools, tcbs, tcb_key, specific, frame, status, thread, after>>

\* The system takes back a thread that has been joined or detached.
Reaped(p) ==
  /\ Goto(p, "none")
  /\ born' = [born EXCEPT ![p] = None]
  /\ func' = [func EXCEPT ![p] = None]
  /\ suspend' = [suspend EXCEPT ![p] = None]
  /\ boot' = [boot EXCEPT ![p] = None]
  /\ owner' = [owner EXCEPT ![p] = None]
  /\ detached' = detached \ {p}
  /\ UNCHANGED <<pools, tcbs, keyvars, frame, status, copy>>

\* thrd_join
Join(c, p) ==
  /\ pc[c] = "idle" /\ owner[p] = c
  /\ pc[p] = "dead"
  /\ Reaped(p)

\* thrd_detach
Detach(c, p) ==
  /\ pc[c] = "idle" /\ owner[p] = c
  /\ owner' = [owner EXCEPT ![p] = None]
  /\ detached' = detached \cup {p}
  /\ UNCHANGED <<pools, tcbs, keyvars, frame, status, thread, pc, func, copy>>

Vanish(p) ==
  /\ p \in detached /\ pc[p] = "dead"
  /\ Reaped(p)

-----------------------------------------------------------------------------
(***************************************************************************)
(* thrd_set_name, by a thread about itself or by the client that may join  *)
(* it: list_search, then list_update of the whole block.                   *)
(***************************************************************************)
Subject(t) == IF t \in Thr THEN {t} ELSE {p \in Thr : owner[p] = t}

NameSearch(t, p) ==
  /\ t \in Namer /\ pc[t] \in {"idle", "run"} /\ p \in Subject(t)
  /\ tcbs[p] # None
  /\ copy' = [copy EXCEPT ![t] = [of |-> p, block |-> [tcbs[p] EXCEPT !.name = t]]]
  /\ Goto(t, "name")
  /\ UNCHANGED <<pools, tcbs, keyvars, frame, status, thread, owner, detached, func>>

\* It fails with EBADE if the thread has left the list.
NameUpdate(t) ==
  /\ pc[t] = "name"
  /\ LET p == copy[t].of IN
     IF tcbs[p] = None THEN UNCHANGED tcbs
     ELSE tcbs' = [tcbs EXCEPT ![p] = copy[t].block]
  /\ copy' = [copy EXCEPT ![t] = None]
  /\ Goto(t, IF t \in Thr THEN "run" ELSE "idle")
  /\ UNCHANGED <<pools, keyvars, frame, status, thread, owner, detached, func>>

-----------------------------------------------------------------------------
ThrStep(p) ==
  \/ EntryAlloc(p) \/ EntryInsert(p) \/ EntryInsertFails(p) \/ FreeBucket(p)
  \/ Refuse(p) \/ KeyCreate(p) \/ SetSpecific(p) \/ TakeSuspend(p)
  \/ Announce(p) \/ ClearPromise(p) \/ RunFunc(p)
  \/ FinalDelete(p) \/ FinalFree(p) \/ FinalKey(p) \/ Vanish(p)

\* Steps that end a call of a client.
Progress(c) == PthreadCreate(c) \/ PthreadFails(c) \/ CreateReturn(c) \/ NameUpdate(c)

Next ==
  \/ \E c \in Client :
       \/ CreateCall(c) \/ Progress(c)
       \/ \E p \in Thr : Join(c, p) \/ Detach(c, p)
  \/ \E p \in Thr : ThrStep(p) \/ End(p)
  \/ \E t \in Client \cup Thr : NameUpdate(t) \/ \E p \in Thr : NameSearch(t, p)

\* Nobody is in a call and no thread runs; the calls are used up.
Done ==
  /\ calls = MaxCalls
  /\ \A c \in Client : pc[c] = "idle"
  /\ \A p \in Thr : pc[p] \in {"none", "dead"}
  /\ UNCHANGED vars

Spec == Init /\ [][Next \/ Done]_vars

\* Threads that can run are scheduled.
FairSpec ==
  /\ Spec
  /\ \A c \in Client : WF_vars(Progress(c))
  /\ \A p \in Thr : WF_vars(ThrStep(p))

-----------------------------------------------------------------------------
TypeOK ==
  /\ buckets \in Seq(Bucket) /\ Len(buckets) <= NumBuckets + 1
  /\ suspends \in Seq(Sem) /\ Len(suspends) <= MaxThreads + 1
  /\ tcb \in [Bucket -> [func : Call \cup {None}, prms : Call \cup {None},
                         suspend : Sem \cup {None}]]
  /\ tcbs \in [Thr -> Entry \cup {None}]
  /\ keys \subseteq Call /\ tcb_key \in Call \cup {None}
  /\ calls \in 0 .. MaxCalls
  /\ cur \in [Client -> Call \cup {None}]
  /\ boot \in [Client \cup Thr -> Bucket \cup {None}]
  /\ status \in [Call -> {"unset", "zero", "nomem"}]
  /\ result \in [Call -> {"none", "zero", "nomem", "again", "refused"}]
  /\ born \in [Thr -> Call \cup {None}]
  /\ specific \in [Thr -> Call \cup {None}]
  /\ suspend \in [Thr -> Sem \cup {None}]
  /\ owner \in [Thr -> Client \cup {None}] /\ detached \subseteq Thr
  /\ func \in [Thr -> Call \cup {None}]
  /\ reused \in BOOLEAN

Running == {p \in Thr : pc[p] \in {"run", "name"}}

\* Until a thread's block is overwritten under its eyes, a thread runs the
\* function that was passed to the call that made it, although it reads the
\* block after it has given its bucket back (threads_posix.c:181, 193), and
\* only if that call is told to report success.
RunsItsFunction ==
  ~reused =>
    \A p \in Thr :
      func[p] # None => func[p] = born[p] /\ status[born[p]] = "zero"

\* Until then, while a thread runs its function it is in the list, with the
\* semaphore on which its signal handler waits, which is neither free nor
\* another thread's: thrd_resume finds the thread and posts to it alone,
\* whatever other threads end or set names meanwhile (threads_posix.c:142, 144,
\* 453).
SemaphoreOwned ==
  ~reused =>
    \A p \in Running :
      /\ tcbs[p] # None /\ tcbs[p].suspend = suspend[p]
      /\ suspend[p] \notin Range(suspends)
      /\ \A q \in Running \ {p} : suspend[q] # suspend[p]

\* Until then, a promise is set once, while the call in whose stack frame it
\* lies still waits (threads_posix.c:163, 191).
PromiseAlive ==
  [][~reused => \A k \in Call : status'[k] # status[k] =>
       status[k] = "unset" /\ \E c \in Client : cur[c] = k /\ pc[c] = "wait"]_vars

\* It takes two calls more than there are buckets, 12, to overwrite a block
\* that a thread still reads (threads_posix.c:96).
ReusedLate == calls <= NumBuckets + 1 => ~reused

\* A thread runs the function that was passed to the call that made it.
RunsWhatWasPassed == \A p \in Thr : func[p] # None => func[p] = born[p]

\* thrd_create and thrd_set_name return, also when the new thread cannot be
\* registered (threads_posix.c:160-177, 226), until a block is overwritten.
CreateReturns == \A c \in Client : pc[c] # "idle" ~> (pc[c] = "idle" \/ reused)

=============================================================================
