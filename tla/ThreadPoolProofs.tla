-------------------------- MODULE ThreadPoolProofs --------------------------
(* Proofs about ThreadPool, for any pools, clients, jobs and queue sizes. *)
EXTENDS ThreadPool, FiniteSetTheorems, TLAPS

AddPc     == {"add_lock", "enqueue", "count", "broadcast"}
LoopPc    == {"d_cancel", "d_join", "d_undefined"}
DestroyPc == LoopPc \cup {"d_future"}
ClientPc  == {"idle", "add_lock", "enqueue", "broadcast"} \cup DestroyPc
WorkerPc  == {"unborn", "creator", "failed", "nothread", "loop", "lock", "relock", "seek",
              "uncount", "nojob", "wait", "got", "run", "cancel_relock",
              "cleanup", "dead", "joined"} \cup AddPc

\* Where clients and workers can be, and which pool their call is about.
PlaceInv ==
  /\ \A c \in Client : pc[c] \in ClientPc
  /\ \A w \in Worker : pc[w] \in WorkerPc
  /\ \A t \in Thread : pc[t] \in AddPc => tp[t] \in Pool /\ add[t] \in Job
  /\ \A t \in Thread : pc[t] \notin AddPc \cup DestroyPc => tp[t] = None


\* Before its creation a pool has no threads, no users and no result.
NoneInv ==
  \A p \in Pool : phase[p] = "none" => /\ \A w \in Workers(p) : pc[w] = "unborn"
                                      /\ \A t \in Thread : tp[t] # p
                                      /\ prms[p] = FALSE

\* A pool has its queues while it can be used; once it is being destroyed, only
\* its workers and the client that destroys it are inside its functions.
OpenInv ==
  \A p \in Pool :
    /\ phase[p] \in {"up", "closing"} => queues[p] = NumWorkers + 1
    /\ phase[p] = "closing" =>
         \A t \in Thread : tp[t] = p => t \in Workers(p) \/ pc[t] \in DestroyPc

\* Nothing is left of a pool that has been freed.
FreedInv ==
  \A p \in Pool : phase[p] = "freed" =>
    /\ \A w \in Workers(p) : pc[w] \in {"unborn", "joined"}
    /\ \A t \in Thread : tp[t] # p
    /\ pc[W0(p)] = "joined" => queues[p] = 0

\* The promise is set when the creator has become worker 0.
CreatorInv == \A p \in Pool : pc[W0(p)] = "creator" => prms[p] = FALSE

PhaseInv == NoneInv /\ OpenInv /\ FreedInv /\ CreatorInv

\* One client destroys a pool.
OwnerInv ==
  \A c \in Client : pc[c] \in DestroyPc =>
    /\ tp[c] \in Pool /\ phase[tp[c]] = "closing"
    /\ \A d \in Client : pc[d] \in DestroyPc /\ tp[d] = tp[c] => d = c

\* The loop index starts at the last worker and stays in range.
IndexInv ==
  \A c \in Client : /\ pc[c] \notin LoopPc => idx[c] = NumWorkers - 1
                    /\ pc[c] = "d_join" => idx[c] \in Index

\* The workers above the loop index have been joined, and none is created.
JoinedInv ==
  \A c \in Client : pc[c] \in LoopPc =>
    /\ prms[tp[c]] = TRUE
    /\ \A w \in Workers(tp[c]) : w[2] > idx[c] => pc[w] = "joined"

DestroyInv == OwnerInv /\ IndexInv /\ JoinedInv

\* TypeOK in three parts.
PoolType ==
  /\ phase \in [Pool -> Phase]
  /\ queues \in [Pool -> 0 .. NumWorkers + 1]
  /\ prms \in [Pool -> BOOLEAN]
  /\ mtx \in [Pool -> Thread \cup {None}]
  /\ num_local_jobs \in [Pool -> Int]
  /\ num_active \in [Pool -> Int]

QueueType ==
  /\ jobs \in [Pool -> Seq(Job)]
  /\ local_jobs \in [Worker -> Seq(Job)]
  /\ \A p \in Pool : Len(jobs[p]) <= MaxJobs
  /\ \A w \in Worker : Len(local_jobs[w]) <= MaxJobs

ThreadType ==
  /\ pc \in [Thread -> Label]
  /\ tp \in [Thread -> Pool \cup {None}]
  /\ add \in [Thread -> Job \cup {None}]
  /\ job \in [Worker -> Job \cup {None}]
  /\ idx \in [Client -> -1 .. NumWorkers - 1]
  /\ cancel \subseteq Worker
  /\ accepted \subseteq Job
  /\ ran \in [Job -> Nat]

StructInv == PoolType /\ QueueType /\ ThreadType
               /\ PlaceInv /\ PhaseInv /\ DestroyInv

-----------------------------------------------------------------------------
\* Workers are pairs of a pool and an index, and no clients.
LEMMA WorkersOf ==
  \A p \in Pool : \A w \in Workers(p) :
    w \in Worker /\ w \in Thread /\ w \notin Client /\ w[1] = p /\ w[2] \in Index
BY PoolAssumption DEF Worker, Workers, Thread

LEMMA PoolOf ==
  \A w \in Worker :
    w \in Thread /\ w \notin Client /\ w[1] \in Pool /\ w \in Workers(w[1])
BY PoolAssumption DEF Worker, Workers, Thread

LEMMA Worker0 ==
  \A p \in Pool : W0(p) \in Workers(p) /\ W0(p) \in Worker /\ W0(p) \in Thread
BY PoolAssumption DEF Worker, Workers, Thread, W0, Index

LEMMA TypeParts == PoolType /\ QueueType /\ ThreadType <=> TypeOK
BY DEF TypeOK, PoolType, QueueType, ThreadType

\* The structural invariant holds initially.
LEMMA StructInit == Init => StructInv
<1> SUFFICES ASSUME Init PROVE StructInv
  OBVIOUS
<1> USE PoolAssumption, WorkersOf, PoolOf, Worker0 DEF Init, Thread
<1>1. PoolType
  BY DEF PoolType, Phase
<1>2. QueueType
  BY DEF QueueType
<1>3. ThreadType
  BY DEF ThreadType, Label
<1>4. PlaceInv
  BY DEF PlaceInv, ClientPc, WorkerPc, AddPc, DestroyPc, LoopPc
<1>5. PhaseInv
  BY DEF PhaseInv, NoneInv, OpenInv, FreedInv, CreatorInv
<1>6. DestroyInv
  BY DEF DestroyInv, OwnerInv, IndexInv, JoinedInv, DestroyPc, LoopPc
<1> QED
  BY <1>1, <1>2, <1>3, <1>4, <1>5, <1>6 DEF StructInv

\* The places of a worker between its creation and its join, outside of
\* thrdpool_add.
LivePc == {"loop", "lock", "relock", "seek", "uncount", "nojob", "wait", "got",
           "run", "cancel_relock", "cleanup", "dead"}

\* A step of a worker's loop says nothing new about phases and destroyers.
LEMMA WorkerMove ==
  ASSUME StructInv, NEW w \in Worker, NEW l \in LivePc,
         pc[w] \in LivePc, pc' = [pc EXCEPT ![w] = l],
         UNCHANGED <<phase, queues, prms, tp, add, idx>>
  PROVE  PlaceInv' /\ PhaseInv' /\ DestroyInv'
<1> USE PoolAssumption, WorkersOf, PoolOf, Worker0 DEF StructInv, ThreadType, LivePc
<1>1. PlaceInv'
  BY DEF PlaceInv, ClientPc, WorkerPc, AddPc, DestroyPc, LoopPc
<1>2. PhaseInv'
  BY DEF PhaseInv, NoneInv, OpenInv, FreedInv, CreatorInv, DestroyPc, LoopPc
<1>3. DestroyInv'
  BY DEF DestroyInv, OwnerInv, IndexInv, JoinedInv, DestroyPc, LoopPc, Thread
<1> QED
  BY <1>1, <1>2, <1>3

\* Neither does a step inside thrdpool_add.
LEMMA AddMove ==
  ASSUME StructInv, NEW t \in Thread, NEW l \in AddPc, l = "count" => t \in Worker,
         pc[t] \in AddPc, pc' = [pc EXCEPT ![t] = l],
         UNCHANGED <<phase, queues, prms, tp, add, idx>>
  PROVE  PlaceInv' /\ PhaseInv' /\ DestroyInv'
<1> USE PoolAssumption, WorkersOf, PoolOf, Worker0 DEF StructInv, ThreadType, AddPc
<1>1. PlaceInv'
  BY DEF PlaceInv, ClientPc, WorkerPc, DestroyPc, LoopPc, Thread
<1>2. PhaseInv'
  BY DEF PhaseInv, NoneInv, OpenInv, FreedInv, CreatorInv, DestroyPc, LoopPc
<1>3. DestroyInv'
  BY DEF DestroyInv, OwnerInv, IndexInv, JoinedInv, DestroyPc, LoopPc, Thread
<1> QED
  BY <1>1, <1>2, <1>3

\* The worker at the loop index of thrdpool_destroy.
LEMMA AtIndex ==
  ASSUME StructInv, NEW c \in Client, pc[c] \in LoopPc, ~LoopEnds(c)
  PROVE  /\ tp[c] \in Pool /\ phase[tp[c]] = "closing" /\ idx[c] \in Index
         /\ At(c) \in Workers(tp[c]) /\ At(c)[2] = idx[c] /\ At(c) # c
         /\ \A w \in Workers(tp[c]) : w[2] = idx[c] => w = At(c)
<1>1. tp[c] \in Pool /\ phase[tp[c]] = "closing"
  BY DEF StructInv, DestroyInv, OwnerInv, DestroyPc
<1>2. idx[c] \in Index
  BY PoolAssumption DEF StructInv, ThreadType, Index, LoopEnds
<1>3. At(c) \in Workers(tp[c]) /\ At(c)[2] = idx[c]
  BY <1>2 DEF At, Workers
<1>4. \A w \in Workers(tp[c]) : w[2] = idx[c] => w = At(c)
  BY DEF At, Workers
<1> QED
  BY <1>1, <1>2, <1>3, <1>4, WorkersOf

\* Joining the worker at the loop index, and going on with the next one.
LEMMA Reap ==
  ASSUME StructInv, NEW c \in Client, pc[c] \in LoopPc, ~LoopEnds(c),
         pc' = [pc EXCEPT ![At(c)] = "joined", ![c] = "d_cancel"],
         pc[At(c)] \notin AddPc \cup {"unborn", "creator"},
         idx' = [idx EXCEPT ![c] = @ - 1],
         UNCHANGED <<phase, queues, prms, tp, add>>
  PROVE  /\ pc' \in [Thread -> Label] /\ idx' \in [Client -> -1 .. NumWorkers - 1]
         /\ PlaceInv' /\ PhaseInv' /\ DestroyInv'
<1> USE DEF StructInv
<1>1. /\ tp[c] \in Pool /\ phase[tp[c]] = "closing" /\ idx[c] \in Index
      /\ At(c) \in Workers(tp[c]) /\ At(c)[2] = idx[c] /\ At(c) # c
      /\ At(c) \in Worker /\ At(c) \in Thread /\ At(c) \notin Client
      /\ \A w \in Workers(tp[c]) : w[2] = idx[c] => w = At(c)
  BY AtIndex, WorkersOf
<1>2. pc' \in [Thread -> Label] /\ idx' \in [Client -> -1 .. NumWorkers - 1]
  BY <1>1, PoolAssumption DEF ThreadType, Label, Index, Thread
<1>3. /\ pc'[At(c)] = "joined" /\ pc'[c] = "d_cancel"
      /\ \A t \in Thread : t # c /\ t # At(c) => pc'[t] = pc[t]
  BY <1>1 DEF ThreadType, Thread
<1>4. /\ idx'[c] = idx[c] - 1
      /\ \A d \in Client : d # c => idx'[d] = idx[d]
  BY DEF ThreadType
<1>5. \A d \in Client : pc'[d] \in DestroyPc <=> pc[d] \in DestroyPc
  BY <1>1, <1>3 DEF Thread, DestroyPc, LoopPc
<1>6. \A d \in Client : d # c /\ pc[d] \in DestroyPc => tp[d] # tp[c]
  BY DEF DestroyInv, OwnerInv, DestroyPc
<1>7. PlaceInv'
  BY <1>1, <1>3 DEF PlaceInv, ClientPc, WorkerPc, AddPc, DestroyPc, LoopPc, Thread
<1>8. NoneInv'
  <2>1. ASSUME NEW p \in Pool, phase[p] = "none", NEW w \in Workers(p)
        PROVE  pc'[w] = pc[w]
    <3>1. w \in Thread /\ w \notin Client /\ w[1] = p /\ At(c)[1] = tp[c]
      BY <1>1, WorkersOf
    <3> QED
      BY <1>1, <1>3, <2>1, <3>1
  <2> QED
    BY <2>1 DEF PhaseInv, NoneInv
<1>9. OpenInv'
  <2>1. \A t \in Thread : tp[t] \in Pool /\ pc[t] \in DestroyPc => pc'[t] \in DestroyPc
    BY <1>1, <1>3, <1>5 DEF DestroyPc, LoopPc, PlaceInv, WorkerPc, AddPc, Thread
  <2> QED
    BY <2>1 DEF PhaseInv, OpenInv
<1>10. FreedInv'
  <2>1. ASSUME NEW p \in Pool, phase[p] = "freed", NEW w \in Workers(p)
        PROVE  pc'[w] = pc[w]
    <3>1. w \in Thread /\ w \notin Client /\ w[1] = p /\ At(c)[1] = tp[c]
      BY <1>1, WorkersOf
    <3> QED
      BY <1>1, <1>3, <2>1, <3>1
  <2>2. \A p \in Pool : phase[p] = "freed" => pc'[W0(p)] = pc[W0(p)]
    BY <2>1, Worker0
  <2> QED
    BY <2>1, <2>2 DEF PhaseInv, FreedInv
<1>11. CreatorInv'
  BY <1>3, Worker0, WorkersOf DEF PhaseInv, CreatorInv
<1>12. OwnerInv'
  BY <1>5 DEF DestroyInv, OwnerInv
<1>13. IndexInv'
  BY <1>1, <1>3, <1>4 DEF DestroyInv, IndexInv, Thread, LoopPc
<1>14. JoinedInv'
  <2> SUFFICES ASSUME NEW d \in Client, pc'[d] \in LoopPc
               PROVE  /\ prms[tp[d]] = TRUE
                      /\ \A w \in Workers(tp[d]) : w[2] > idx'[d] => pc'[w] = "joined"
    BY DEF JoinedInv
  <2>1. pc[d] \in LoopPc
    BY <1>3, <1>1 DEF Thread
  <2>2. /\ prms[tp[d]] = TRUE
        /\ \A w \in Workers(tp[d]) : w[2] > idx[d] => pc[w] = "joined"
    BY <2>1 DEF DestroyInv, JoinedInv
  <2>3. tp[d] \in Pool
    BY <2>1 DEF DestroyInv, OwnerInv, DestroyPc
  <2>4. \A w \in Workers(tp[d]) : pc[w] = "joined" => pc'[w] = "joined"
    BY <1>3, <2>3, WorkersOf
  <2>5. CASE d = c
    <3>1. \A w \in Workers(tp[c]) : w[2] > idx'[c] => w[2] > idx[c] \/ w[2] = idx[c]
      BY <1>1, <1>4, WorkersOf DEF Index
    <3> QED
      BY <3>1, <2>5, <2>2, <2>4, <1>1, <1>3
  <2>6. CASE d # c
    BY <2>6, <2>2, <2>4, <1>4
  <2> QED
    BY <2>5, <2>6
<1> QED
  BY <1>2, <1>7, <1>8, <1>9, <1>10, <1>11, <1>12, <1>13, <1>14 DEF PhaseInv, DestroyInv

\* Every action preserves the structural invariant.
LEMMA StructStep == StructInv /\ [Next]_vars => StructInv'
<1> SUFFICES ASSUME StructInv, [Next]_vars PROVE StructInv'
  OBVIOUS
<1> USE PoolAssumption, WorkersOf, PoolOf, Worker0 DEF StructInv
<1>1. ASSUME NEW c \in Client, NEW p \in Pool, Create(c, p) PROVE StructInv'
  <2> USE <1>1 DEF Create, Goto, qvars, dvars, hvars
  <2>0. pc[W0(p)] = "unborn" /\ W0(p) # c
    BY DEF PhaseInv, NoneInv
  <2>1. PoolType'
    BY DEF PoolType, Phase, PlaceInv, Thread
  <2>2. QueueType'
    BY DEF QueueType, PlaceInv, AddPc
  <2>3. ThreadType'
    BY DEF ThreadType, Label, PlaceInv, Thread
  <2>4. PlaceInv'
    BY <2>0 DEF ThreadType, PlaceInv, ClientPc, WorkerPc, AddPc, DestroyPc, LoopPc, Thread
  <2>5. PhaseInv'
    <3>1. NoneInv'
      BY DEF PoolType, ThreadType, PlaceInv, PhaseInv, NoneInv, AddPc, DestroyPc, LoopPc, Thread
    <3>2. OpenInv'
      BY DEF PoolType, ThreadType, PlaceInv, PhaseInv, NoneInv, OpenInv, AddPc, DestroyPc, LoopPc, Thread
    <3>3. FreedInv'
      BY DEF PoolType, ThreadType, PlaceInv, PhaseInv, FreedInv, AddPc, DestroyPc, LoopPc, Thread
    <3>4. CreatorInv'
      <4>1. \A q \in Pool : q # p => W0(q) # W0(p) /\ W0(q) # c
        BY DEF W0
      <4>2. prms[p] = FALSE
        BY DEF PhaseInv, NoneInv
      <4> QED
        BY <4>1, <4>2 DEF ThreadType, PhaseInv, CreatorInv
    <3> QED
      BY <3>1, <3>2, <3>3, <3>4 DEF PhaseInv
  <2>6. DestroyInv'
    <3>1. OwnerInv'
      BY DEF PoolType, ThreadType, PlaceInv, DestroyInv, OwnerInv, AddPc, DestroyPc, LoopPc, Thread
    <3>2. IndexInv'
      BY DEF PoolType, ThreadType, PlaceInv, DestroyInv, IndexInv, AddPc, DestroyPc, LoopPc, Thread
    <3>3. JoinedInv'
      BY DEF PoolType, ThreadType, PlaceInv, DestroyInv, OwnerInv, JoinedInv, AddPc, DestroyPc, LoopPc, Thread
    <3> QED
      BY <3>1, <3>2, <3>3 DEF DestroyInv
  <2> QED
    BY <2>1, <2>2, <2>3, <2>4, <2>5, <2>6
<1>2. ASSUME NEW c \in Client, NEW p \in Pool, CreateQueueFails(c, p) PROVE StructInv'
  <2> USE <1>2 DEF CreateQueueFails, Goto, qvars, dvars, hvars
  <2>1. PoolType'
    BY DEF PoolType, Phase, Index
  <2>2. QueueType'
    BY DEF QueueType, PlaceInv, AddPc
  <2>3. ThreadType'
    BY DEF ThreadType, Label, PlaceInv, Thread
  <2>4. PlaceInv'
    BY DEF ThreadType, PlaceInv, ClientPc, WorkerPc, AddPc, DestroyPc, LoopPc, Thread
  <2>5. PhaseInv'
    <3>1. NoneInv'
      BY DEF PoolType, ThreadType, PlaceInv, PhaseInv, NoneInv, AddPc, DestroyPc, LoopPc, Thread
    <3>2. OpenInv'
      BY DEF PoolType, ThreadType, PlaceInv, PhaseInv, NoneInv, OpenInv, AddPc, DestroyPc, LoopPc, Thread
    <3>3. FreedInv'
      <4>1. \A w \in Workers(p) : pc[w] = "unborn"
        BY DEF PhaseInv, NoneInv
      <4>2. pc[W0(p)] # "joined" /\ \A t \in Thread : tp[t] # p
        BY <4>1 DEF PhaseInv, NoneInv
      <4> QED
        BY <4>1, <4>2 DEF PoolType, PhaseInv, FreedInv
    <3>4. CreatorInv'
      BY DEF PoolType, ThreadType, PlaceInv, PhaseInv, CreatorInv, NoneInv, AddPc, DestroyPc, LoopPc, Thread
    <3> QED
      BY <3>1, <3>2, <3>3, <3>4 DEF PhaseInv
  <2>6. DestroyInv'
    <3>1. OwnerInv'
      BY DEF PoolType, ThreadType, PlaceInv, DestroyInv, OwnerInv, AddPc, DestroyPc, LoopPc, Thread
    <3>2. IndexInv'
      BY DEF PoolType, ThreadType, PlaceInv, DestroyInv, IndexInv, AddPc, DestroyPc, LoopPc, Thread
    <3>3. JoinedInv'
      BY DEF PoolType, ThreadType, PlaceInv, DestroyInv, OwnerInv, JoinedInv, AddPc, DestroyPc, LoopPc, Thread
    <3> QED
      BY <3>1, <3>2, <3>3 DEF DestroyInv
  <2> QED
    BY <2>1, <2>2, <2>3, <2>4, <2>5, <2>6
<1>3. ASSUME NEW c \in Client, NEW p \in Pool, CreateFirstFails(c, p) PROVE StructInv'
  <2> USE <1>3 DEF CreateFirstFails, Refused, Goto, qvars, dvars, hvars
  <2>0. pc[W0(p)] = "unborn" /\ W0(p) # c
    BY DEF PhaseInv, NoneInv
  <2>1. PoolType'
    BY DEF PoolType, Phase, PlaceInv, Thread
  <2>2. QueueType'
    BY DEF QueueType, PlaceInv, AddPc
  <2>3. ThreadType'
    BY DEF ThreadType, Label, PlaceInv, Thread
  <2>4. PlaceInv'
    <3>1. PICK l \in Refused : pc' = [pc EXCEPT ![c] = "d_future", ![W0(p)] = l]
      OBVIOUS
    <3>2. /\ pc'[c] = "d_future" /\ pc'[W0(p)] = l
          /\ \A t \in Thread : t # c /\ t # W0(p) => pc'[t] = pc[t]
      BY <2>0, <3>1 DEF ThreadType, Thread
    <3>3. tp' = [tp EXCEPT ![c] = p] /\ add' = add
      OBVIOUS
    <3> QED
      BY <2>0, <3>2, <3>3 DEF ThreadType, PlaceInv, ClientPc, WorkerPc, AddPc, DestroyPc, LoopPc, Thread
  <2>5. PhaseInv'
    <3>1. NoneInv'
      BY DEF PoolType, ThreadType, PlaceInv, PhaseInv, NoneInv, AddPc, DestroyPc, LoopPc, Thread
    <3>2. OpenInv'
      BY DEF PoolType, ThreadType, PlaceInv, PhaseInv, NoneInv, OpenInv, AddPc, DestroyPc, LoopPc, Thread
    <3>3. FreedInv'
      BY DEF PoolType, ThreadType, PlaceInv, PhaseInv, FreedInv, AddPc, DestroyPc, LoopPc, Thread
    <3>4. CreatorInv'
      BY DEF PoolType, ThreadType, PlaceInv, PhaseInv, CreatorInv, NoneInv, AddPc, DestroyPc, LoopPc, Thread
    <3> QED
      BY <3>1, <3>2, <3>3, <3>4 DEF PhaseInv
  <2>6. DestroyInv'
    <3>1. OwnerInv'
      BY DEF PoolType, ThreadType, PlaceInv, DestroyInv, OwnerInv, AddPc, DestroyPc, LoopPc, Thread
    <3>2. IndexInv'
      BY DEF PoolType, ThreadType, PlaceInv, DestroyInv, IndexInv, AddPc, DestroyPc, LoopPc, Thread
    <3>3. JoinedInv'
      BY DEF PoolType, ThreadType, PlaceInv, DestroyInv, OwnerInv, JoinedInv, AddPc, DestroyPc, LoopPc, Thread
    <3> QED
      BY <3>1, <3>2, <3>3 DEF DestroyInv
  <2> QED
    BY <2>1, <2>2, <2>3, <2>4, <2>5, <2>6
<1>4. ASSUME NEW c \in Client, NEW p \in Pool, DestroyCall(c, p) PROVE StructInv'
  <2> USE <1>4 DEF DestroyCall, Goto, qvars, dvars, hvars
  <2>1. PoolType'
    BY DEF PoolType, Phase, PlaceInv, Thread
  <2>2. QueueType'
    BY DEF QueueType, PlaceInv, AddPc
  <2>3. ThreadType'
    BY DEF ThreadType, Label, PlaceInv, Thread
  <2>4. PlaceInv'
    BY DEF ThreadType, PlaceInv, ClientPc, WorkerPc, AddPc, DestroyPc, LoopPc, Thread
  <2>5. PhaseInv'
    <3>1. NoneInv'
      BY DEF PoolType, ThreadType, PlaceInv, PhaseInv, NoneInv, AddPc, DestroyPc, LoopPc, Thread
    <3>2. OpenInv'
      BY DEF PoolType, ThreadType, PlaceInv, PhaseInv, NoneInv, OpenInv, AddPc, DestroyPc, LoopPc, Thread
    <3>3. FreedInv'
      BY DEF PoolType, ThreadType, PlaceInv, PhaseInv, FreedInv, AddPc, DestroyPc, LoopPc, Thread
    <3>4. CreatorInv'
      BY DEF PoolType, ThreadType, PlaceInv, PhaseInv, CreatorInv, NoneInv, AddPc, DestroyPc, LoopPc, Thread
    <3> QED
      BY <3>1, <3>2, <3>3, <3>4 DEF PhaseInv
  <2>6. DestroyInv'
    <3>1. OwnerInv'
      BY DEF PoolType, ThreadType, PlaceInv, DestroyInv, OwnerInv, AddPc, DestroyPc, LoopPc, Thread
    <3>2. IndexInv'
      BY DEF PoolType, ThreadType, PlaceInv, DestroyInv, IndexInv, AddPc, DestroyPc, LoopPc, Thread
    <3>3. JoinedInv'
      BY DEF PoolType, ThreadType, PlaceInv, DestroyInv, OwnerInv, JoinedInv, AddPc, DestroyPc, LoopPc, Thread
    <3> QED
      BY <3>1, <3>2, <3>3 DEF DestroyInv
  <2> QED
    BY <2>1, <2>2, <2>3, <2>4, <2>5, <2>6
<1>5. ASSUME NEW c \in Client, DestroyFuture(c) PROVE StructInv'
  <2> USE <1>5 DEF DestroyFuture, Goto, qvars, dvars, hvars
  <2>1. PoolType'
    BY DEF PoolType, Phase, PlaceInv, Thread
  <2>2. QueueType'
    BY DEF QueueType, PlaceInv, AddPc
  <2>3. ThreadType'
    BY DEF ThreadType, Label, PlaceInv, Thread
  <2>4. PlaceInv'
    BY DEF ThreadType, PlaceInv, ClientPc, WorkerPc, AddPc, DestroyPc, LoopPc, Thread
  <2>5. PhaseInv'
    <3>1. NoneInv'
      BY DEF PoolType, ThreadType, PlaceInv, PhaseInv, NoneInv, AddPc, DestroyPc, LoopPc, Thread
    <3>2. OpenInv'
      BY DEF PoolType, ThreadType, PlaceInv, PhaseInv, NoneInv, OpenInv, AddPc, DestroyPc, LoopPc, Thread
    <3>3. FreedInv'
      BY DEF PoolType, ThreadType, PlaceInv, PhaseInv, FreedInv, AddPc, DestroyPc, LoopPc, Thread
    <3>4. CreatorInv'
      BY DEF PoolType, ThreadType, PlaceInv, PhaseInv, CreatorInv, NoneInv, AddPc, DestroyPc, LoopPc, Thread
    <3> QED
      BY <3>1, <3>2, <3>3, <3>4 DEF PhaseInv
  <2>6. DestroyInv'
    <3>1. OwnerInv'
      BY DEF PoolType, ThreadType, PlaceInv, DestroyInv, OwnerInv, AddPc, DestroyPc, LoopPc, Thread
    <3>2. IndexInv'
      BY DEF PoolType, ThreadType, PlaceInv, DestroyInv, IndexInv, AddPc, DestroyPc, LoopPc, Thread
    <3>3. JoinedInv'
      <4>1. idx[c] = NumWorkers - 1
        BY DEF DestroyInv, IndexInv, LoopPc
      <4>2. \A w \in Workers(tp[c]) : tp[c] \in Pool => ~ (w[2] > idx[c])
        BY <4>1 DEF Index
      <4>3. tp[c] \in Pool
        BY DEF DestroyInv, OwnerInv, DestroyPc
      <4>4. prms[tp[c]] = TRUE
        BY <4>3 DEF PoolType
      <4>5. \A t \in Thread : t # c => pc'[t] = pc[t]
        BY DEF ThreadType
      <4>6. \A d \in Client : pc[d] \in LoopPc => tp[d] \in Pool
        BY DEF DestroyInv, OwnerInv, DestroyPc
      <4> QED
        BY <4>2, <4>3, <4>4, <4>5, <4>6 DEF DestroyInv, JoinedInv, Thread
    <3> QED
      BY <3>1, <3>2, <3>3 DEF DestroyInv
  <2> QED
    BY <2>1, <2>2, <2>3, <2>4, <2>5, <2>6
<1>6. ASSUME NEW c \in Client, DestroyCancel(c) PROVE StructInv'
  <2> USE <1>6 DEF DestroyCancel, Refused, LoopEnds, At, Goto, qvars, dvars, hvars
  <2>0. /\ tp[c] \in Pool /\ phase[tp[c]] = "closing" /\ idx[c] \in Index
        /\ At(c) \in Workers(tp[c]) /\ At(c) \in Worker /\ At(c) # c
        /\ At(c) \in Thread
        /\ \A w \in Workers(tp[c]) : w[2] = idx[c] => w = At(c)
    <3>1. tp[c] \in Pool /\ phase[tp[c]] = "closing"
      BY DEF DestroyInv, OwnerInv, DestroyPc, LoopPc
    <3>2. idx[c] \in Index
      BY DEF DestroyInv, IndexInv, ThreadType, Index, LoopEnds
    <3>3. At(c) \in Workers(tp[c]) /\ \A w \in Workers(tp[c]) : w[2] = idx[c] => w = At(c)
      BY <3>1, <3>2 DEF Workers, At
    <3> QED
      BY <3>1, <3>2, <3>3
  <2>1. PoolType'
    BY DEF PoolType, Phase, PlaceInv, Thread
  <2>2. QueueType'
    BY DEF QueueType, PlaceInv, AddPc
  <2>3. ThreadType'
    <3>1. pc' \in [Thread -> Label]
      BY DEF ThreadType, Label, Thread
    <3>2. cancel' \subseteq Worker
      BY <2>0 DEF ThreadType
    <3> QED
      BY <3>1, <3>2 DEF ThreadType
  <2>4. PlaceInv'
    <3>1. pc[c] = "d_cancel" /\ pc' = [pc EXCEPT ![c] = "d_join"] /\ tp' = tp /\ add' = add
      OBVIOUS
    <3> HIDE DEF DestroyCancel, Refused
    <3> QED
      BY ONLY StructInv, <3>1, c \in Client, PoolAssumption DEF StructInv, ThreadType, PlaceInv, ClientPc, WorkerPc, AddPc, DestroyPc, LoopPc, Thread
  <2>5. PhaseInv'
    <3>1. NoneInv'
      BY <2>0 DEF PoolType, ThreadType, PlaceInv, PhaseInv, NoneInv, AddPc,
         DestroyPc, LoopPc, Thread
    <3>2. OpenInv'
      BY <2>0 DEF PoolType, ThreadType, PlaceInv, PhaseInv, OpenInv, AddPc,
         DestroyPc, LoopPc, Thread
    <3>3. FreedInv'
      BY <2>0 DEF PoolType, ThreadType, PlaceInv, PhaseInv, FreedInv, AddPc,
         DestroyPc, LoopPc, Thread
    <3>4. CreatorInv'
      BY <2>0 DEF PoolType, ThreadType, PlaceInv, PhaseInv, CreatorInv, AddPc,
         DestroyPc, LoopPc, Thread
    <3> QED
      BY <3>1, <3>2, <3>3, <3>4 DEF PhaseInv
  <2>6. DestroyInv'
    <3>1. OwnerInv'
      BY <2>0 DEF PoolType, ThreadType, PlaceInv, DestroyInv, OwnerInv, AddPc,
         DestroyPc, LoopPc, Thread
    <3>2. IndexInv'
      BY <2>0 DEF PoolType, ThreadType, PlaceInv, DestroyInv, IndexInv, AddPc,
         DestroyPc, LoopPc, Thread
    <3>3. JoinedInv'
      BY <2>0 DEF PoolType, ThreadType, PlaceInv, DestroyInv, OwnerInv, JoinedInv, Index, AddPc,
         DestroyPc, LoopPc, Thread
    <3> QED
      BY <3>1, <3>2, <3>3 DEF DestroyInv
  <2> QED
    BY <2>1, <2>2, <2>3, <2>4, <2>5, <2>6
<1>6u. ASSUME NEW c \in Client, DestroyUndefined(c) PROVE StructInv'
  <2> USE <1>6u DEF DestroyUndefined, LoopEnds, At, Goto, qvars, dvars, hvars
  <2>0. /\ tp[c] \in Pool /\ phase[tp[c]] = "closing" /\ idx[c] \in Index
        /\ At(c) \in Workers(tp[c]) /\ At(c) \in Worker /\ At(c) # c
        /\ At(c) \in Thread
        /\ \A w \in Workers(tp[c]) : w[2] = idx[c] => w = At(c)
    <3>1. tp[c] \in Pool /\ phase[tp[c]] = "closing"
      BY DEF DestroyInv, OwnerInv, DestroyPc, LoopPc
    <3>2. idx[c] \in Index
      BY DEF DestroyInv, IndexInv, ThreadType, Index, LoopEnds
    <3>3. At(c) \in Workers(tp[c]) /\ \A w \in Workers(tp[c]) : w[2] = idx[c] => w = At(c)
      BY <3>1, <3>2 DEF Workers, At
    <3> QED
      BY <3>1, <3>2, <3>3
  <2>1. PoolType'
    BY DEF PoolType, Phase, PlaceInv, Thread
  <2>2. QueueType'
    BY DEF QueueType, PlaceInv, AddPc
  <2>3. ThreadType'
    BY <2>0 DEF ThreadType, Label, PlaceInv, Thread, Index
  <2>4. PlaceInv'
    BY <2>0 DEF ThreadType, PlaceInv, ClientPc, WorkerPc, AddPc, DestroyPc, LoopPc, Thread
  <2>5. PhaseInv'
    <3>1. NoneInv'
      BY <2>0 DEF PoolType, ThreadType, PlaceInv, PhaseInv, NoneInv, AddPc,
         DestroyPc, LoopPc, Thread
    <3>2. OpenInv'
      BY <2>0 DEF PoolType, ThreadType, PlaceInv, PhaseInv, OpenInv, AddPc,
         DestroyPc, LoopPc, Thread
    <3>3. FreedInv'
      BY <2>0 DEF PoolType, ThreadType, PlaceInv, PhaseInv, FreedInv, AddPc,
         DestroyPc, LoopPc, Thread
    <3>4. CreatorInv'
      BY <2>0 DEF PoolType, ThreadType, PlaceInv, PhaseInv, CreatorInv, AddPc,
         DestroyPc, LoopPc, Thread
    <3> QED
      BY <3>1, <3>2, <3>3, <3>4 DEF PhaseInv
  <2>6. DestroyInv'
    <3>1. OwnerInv'
      BY <2>0 DEF PoolType, ThreadType, PlaceInv, DestroyInv, OwnerInv, AddPc,
         DestroyPc, LoopPc, Thread
    <3>2. IndexInv'
      BY <2>0 DEF PoolType, ThreadType, PlaceInv, DestroyInv, IndexInv, AddPc,
         DestroyPc, LoopPc, Thread
    <3>3. JoinedInv'
      BY <2>0 DEF PoolType, ThreadType, PlaceInv, DestroyInv, OwnerInv, JoinedInv, Index, AddPc,
         DestroyPc, LoopPc, Thread
    <3> QED
      BY <3>1, <3>2, <3>3 DEF DestroyInv
  <2> QED
    BY <2>1, <2>2, <2>3, <2>4, <2>5, <2>6
<1>7. ASSUME NEW c \in Client, DestroySkip(c) PROVE StructInv'
  <2> USE <1>7 DEF DestroySkip, Refused, Goto, qvars, dvars, hvars
  <2>1. PoolType'
    BY DEF PoolType
  <2>2. QueueType'
    BY DEF QueueType
  <2>3. At(c) \in Thread /\ At(c) # c
    BY AtIndex DEF LoopPc
  <2>4. pc' = [pc EXCEPT ![At(c)] = "joined", ![c] = "d_cancel"]
    BY <2>3 DEF ThreadType, Thread
  <2>5. /\ pc' \in [Thread -> Label] /\ idx' \in [Client -> -1 .. NumWorkers - 1]
        /\ PlaceInv' /\ PhaseInv' /\ DestroyInv'
    BY <2>4, Reap DEF LoopPc, AddPc
  <2>6. ThreadType'
    BY <2>5 DEF ThreadType
  <2> QED
    BY <2>1, <2>2, <2>5, <2>6
<1>8. ASSUME NEW c \in Client, DestroyJoin(c) PROVE StructInv'
  <2> USE <1>8 DEF DestroyJoin, Goto, qvars, dvars, hvars
  <2>1. PoolType'
    BY DEF PoolType
  <2>2. QueueType'
    BY DEF QueueType
  <2>3. ~LoopEnds(c)
    BY DEF DestroyInv, IndexInv, Index, LoopEnds
  <2>4. /\ pc' \in [Thread -> Label] /\ idx' \in [Client -> -1 .. NumWorkers - 1]
        /\ PlaceInv' /\ PhaseInv' /\ DestroyInv'
    BY <2>3, Reap DEF LoopPc, AddPc
  <2>5. ThreadType'
    BY <2>4 DEF ThreadType
  <2> QED
    BY <2>1, <2>2, <2>4, <2>5
<1>9. ASSUME NEW c \in Client, DestroyFree(c) PROVE StructInv'
  <2> USE <1>9 DEF DestroyFree, Goto, qvars, dvars, hvars
  <2>0. /\ tp[c] \in Pool /\ phase[tp[c]] = "closing" /\ queues[tp[c]] = NumWorkers + 1
        /\ \A w \in Workers(tp[c]) : pc[w] = "joined"
        /\ \A t \in Thread : t # c => tp[t] # tp[c]
    <3>1. tp[c] \in Pool /\ phase[tp[c]] = "closing"
      BY DEF DestroyInv, OwnerInv, DestroyPc, LoopPc
    <3>2. queues[tp[c]] = NumWorkers + 1
      BY <3>1 DEF PhaseInv, OpenInv
    <3>3. \A w \in Workers(tp[c]) : w[2] > idx[c]
      BY <3>1 DEF LoopEnds, ThreadType, Index
    <3>4. \A w \in Workers(tp[c]) : pc[w] = "joined"
      BY <3>3 DEF DestroyInv, JoinedInv, LoopPc
    <3>5. \A t \in Thread : tp[t] = tp[c] => pc[t] \in DestroyPc
      BY <3>1, <3>4 DEF PhaseInv, OpenInv, PlaceInv, AddPc, DestroyPc, LoopPc
    <3>6. \A t \in Thread : tp[t] = tp[c] => t \in Client
      BY <3>5 DEF PlaceInv, Thread, WorkerPc, AddPc, DestroyPc, LoopPc
    <3>7. \A t \in Thread : tp[t] = tp[c] => t = c
      BY <3>5, <3>6 DEF DestroyInv, OwnerInv, DestroyPc, LoopPc
    <3> QED
      BY <3>1, <3>2, <3>4, <3>7
  <2>1. PoolType'
    BY <2>0 DEF PoolType, Phase
  <2>2. QueueType'
    <3>1. jobs' \in [Pool -> Seq(Job)] /\ \A p \in Pool : Len(jobs'[p]) <= MaxJobs
      BY <2>0, Len(<< >>) = 0 DEF QueueType
    <3>2. local_jobs' \in [Worker -> Seq(Job)] /\ \A w \in Worker : Len(local_jobs'[w]) <= MaxJobs
      BY DEF QueueType
    <3> QED
      BY <3>1, <3>2 DEF QueueType
  <2>3. ThreadType'
    BY DEF ThreadType, Label, Thread
  <2>4. PlaceInv'
    BY DEF ThreadType, PlaceInv, ClientPc, WorkerPc, AddPc, DestroyPc, LoopPc, Thread
  <2>5. /\ pc'[c] = "idle" /\ \A t \in Thread : t # c => pc'[t] = pc[t]
        /\ tp'[c] = None /\ \A t \in Thread : t # c => tp'[t] = tp[t]
        /\ phase'[tp[c]] = "freed" /\ \A p \in Pool : p # tp[c] => phase'[p] = phase[p]
        /\ queues'[tp[c]] = 0 /\ \A p \in Pool : p # tp[c] => queues'[p] = queues[p]
    BY <2>0 DEF ThreadType, PoolType, Thread
  <2>6. PhaseInv'
    <3>1. NoneInv'
      BY <2>0, <2>5 DEF PhaseInv, NoneInv
    <3>2. OpenInv'
      BY <2>0, <2>5 DEF PhaseInv, OpenInv
    <3>3. FreedInv'
      <4>1. \A p \in Pool : \A w \in Workers(p) : pc'[w] = pc[w]
        BY <2>5
      <4>2. \A p \in Pool : pc'[W0(p)] = pc[W0(p)]
        BY <4>1
      <4>3. \A t \in Thread : tp'[t] # tp[c]
        BY <2>0, <2>5
      <4>4. \A t \in Thread, p \in Pool : tp[t] # p => tp'[t] # p
        BY <2>5
      <4> QED
        BY <4>1, <4>2, <4>3, <4>4, <2>0, <2>5 DEF PhaseInv, FreedInv
    <3>4. CreatorInv'
      BY <2>0, <2>5 DEF PhaseInv, CreatorInv
    <3> QED
      BY <3>1, <3>2, <3>3, <3>4 DEF PhaseInv
  <2>7. DestroyInv'
    <3>1. OwnerInv'
      BY <2>0, <2>5 DEF DestroyInv, OwnerInv, DestroyPc, LoopPc, Thread
    <3>2. IndexInv'
      BY <2>5 DEF ThreadType, DestroyInv, IndexInv, LoopPc, Thread
    <3>3. JoinedInv'
      <4>1. \A d \in Client : pc'[d] \in LoopPc => d # c /\ tp[d] \in Pool
        BY <2>5 DEF DestroyInv, OwnerInv, DestroyPc, LoopPc, Thread
      <4>2. \A d \in Client : d # c => idx'[d] = idx[d]
        BY DEF ThreadType
      <4> QED
        BY <4>1, <4>2, <2>5 DEF DestroyInv, JoinedInv, LoopPc, Thread
    <3> QED
      BY <3>1, <3>2, <3>3 DEF DestroyInv
  <2> QED
    BY <2>1, <2>2, <2>3, <2>4, <2>6, <2>7
<1>10. ASSUME NEW p \in Pool, CreateWorker(p) PROVE StructInv'
  <2> USE <1>10 DEF CreateWorker, Goto, qvars, dvars, hvars
  <2>0. PICK u \in Workers(p), l \in {"loop", "failed", "nothread"} :
          pc[u] = "unborn" /\ pc' = [pc EXCEPT ![u] = l] /\ u # W0(p)
    BY DEF Workers, W0, Index
  <2>1. PoolType'
    BY DEF PoolType
  <2>2. QueueType'
    BY DEF QueueType
  <2>3. /\ pc'[u] = l /\ \A t \in Thread : t # u => pc'[t] = pc[t]
        /\ u \in Worker /\ u \in Thread /\ u \notin Client
    BY <2>0 DEF ThreadType
  <2>4. ThreadType'
    BY <2>0 DEF ThreadType, Label
  <2>5. PlaceInv'
    BY <2>0, <2>3 DEF PlaceInv, ClientPc, WorkerPc, AddPc, DestroyPc, LoopPc, Thread
  <2>6. phase[p] # "none" /\ phase[p] # "freed" /\ prms[p] = FALSE
    BY DEF PhaseInv, NoneInv, FreedInv, CreatorInv
  <2>7. \A q \in Pool : q # p => u \notin Workers(q)
    BY <2>0
  <2>8. PhaseInv'
    <3>1. NoneInv'
      BY <2>3, <2>6, <2>7 DEF PhaseInv, NoneInv
    <3>2. OpenInv'
      <4>1. \A t \in Thread : pc[t] \in DestroyPc => pc'[t] = pc[t]
        BY <2>0, <2>3 DEF DestroyPc, LoopPc
      <4> QED
        BY <4>1 DEF PhaseInv, OpenInv
    <3>3. FreedInv'
      <4>1. \A q \in Pool : phase[q] = "freed" => q # p
        BY <2>6
      <4>2. \A q \in Pool : q # p => \A w \in Workers(q) : pc'[w] = pc[w]
        BY <2>3, <2>7
      <4> QED
        BY <4>1, <4>2 DEF PhaseInv, FreedInv
    <3>4. CreatorInv'
      BY <2>0, <2>3, <2>7 DEF PhaseInv, CreatorInv
    <3> QED
      BY <3>1, <3>2, <3>3, <3>4 DEF PhaseInv
  <2>9. DestroyInv'
    <3>1. \A d \in Client : pc'[d] = pc[d]
      BY <2>3 DEF Thread
    <3>2. OwnerInv' /\ IndexInv'
      BY <3>1 DEF DestroyInv, OwnerInv, IndexInv
    <3>3. \A d \in Client : pc[d] \in LoopPc => tp[d] \in Pool /\ prms[tp[d]] = TRUE
      BY DEF DestroyInv, OwnerInv, JoinedInv, DestroyPc
    <3>4. \A d \in Client : pc[d] \in LoopPc => \A w \in Workers(tp[d]) : pc'[w] = pc[w]
      BY <3>3, <2>3, <2>6, <2>7
    <3>5. JoinedInv'
      BY <3>1, <3>4 DEF DestroyInv, JoinedInv
    <3> QED
      BY <3>2, <3>5 DEF DestroyInv
  <2> QED
    BY <2>1, <2>2, <2>4, <2>5, <2>8, <2>9
<1>11. ASSUME NEW p \in Pool, CreatorDone(p) PROVE StructInv'
  <2> USE <1>11 DEF CreatorDone, Goto, qvars, dvars, hvars
  <2>1. PoolType'
    BY DEF PoolType, Phase, PlaceInv, Thread
  <2>2. QueueType'
    BY DEF QueueType, PlaceInv, AddPc
  <2>3. ThreadType'
    BY DEF ThreadType, Label, PlaceInv, Thread
  <2>4. PlaceInv'
    BY DEF ThreadType, PlaceInv, ClientPc, WorkerPc, AddPc, DestroyPc, LoopPc, Thread
  <2>5. PhaseInv'
    <3>1. NoneInv'
      BY DEF PoolType, ThreadType, PlaceInv, PhaseInv, NoneInv, AddPc, DestroyPc, LoopPc, Thread
    <3>2. OpenInv'
      BY DEF PoolType, ThreadType, PlaceInv, PhaseInv, NoneInv, OpenInv, AddPc, DestroyPc, LoopPc, Thread
    <3>3. FreedInv'
      BY DEF PoolType, ThreadType, PlaceInv, PhaseInv, FreedInv, AddPc, DestroyPc, LoopPc, Thread
    <3>4. CreatorInv'
      BY DEF PoolType, ThreadType, PlaceInv, PhaseInv, CreatorInv, NoneInv, AddPc, DestroyPc, LoopPc, Thread
    <3> QED
      BY <3>1, <3>2, <3>3, <3>4 DEF PhaseInv
  <2>6. DestroyInv'
    <3>1. OwnerInv'
      BY DEF PoolType, ThreadType, PlaceInv, DestroyInv, OwnerInv, AddPc, DestroyPc, LoopPc, Thread
    <3>2. IndexInv'
      BY DEF PoolType, ThreadType, PlaceInv, DestroyInv, IndexInv, AddPc, DestroyPc, LoopPc, Thread
    <3>3. JoinedInv'
      BY DEF PoolType, ThreadType, PlaceInv, DestroyInv, OwnerInv, JoinedInv, AddPc, DestroyPc, LoopPc, Thread
    <3> QED
      BY <3>1, <3>2, <3>3 DEF DestroyInv
  <2> QED
    BY <2>1, <2>2, <2>3, <2>4, <2>5, <2>6
<1>12. ASSUME NEW t \in Thread, NEW p \in Pool, NEW j \in Job, AddCall(t, p, j) PROVE StructInv'
  <2> USE <1>12 DEF AddCall, Home, Goto, qvars, dvars, hvars
  <2>1. PoolType'
    BY DEF PoolType, Phase, PlaceInv, Thread
  <2>2. QueueType'
    BY DEF QueueType, PlaceInv, AddPc
  <2>3. ThreadType'
    BY DEF ThreadType, Label, PlaceInv, Thread
  <2>4. PlaceInv'
    BY DEF ThreadType, PlaceInv, ClientPc, WorkerPc, AddPc, DestroyPc, LoopPc, Thread
  <2>5. PhaseInv'
    <3>1. NoneInv'
      BY DEF PoolType, ThreadType, PlaceInv, PhaseInv, NoneInv, AddPc, DestroyPc, LoopPc, Thread
    <3>2. OpenInv'
      BY DEF PoolType, ThreadType, PlaceInv, PhaseInv, NoneInv, OpenInv, AddPc, DestroyPc, LoopPc, Thread
    <3>3. FreedInv'
      BY DEF PoolType, ThreadType, PlaceInv, PhaseInv, FreedInv, AddPc, DestroyPc, LoopPc, Thread
    <3>4. CreatorInv'
      BY DEF PoolType, ThreadType, PlaceInv, PhaseInv, CreatorInv, NoneInv, AddPc, DestroyPc, LoopPc, Thread
    <3> QED
      BY <3>1, <3>2, <3>3, <3>4 DEF PhaseInv
  <2>6. DestroyInv'
    <3>1. OwnerInv'
      BY DEF PoolType, ThreadType, PlaceInv, DestroyInv, OwnerInv, AddPc, DestroyPc, LoopPc, Thread
    <3>2. IndexInv'
      BY DEF PoolType, ThreadType, PlaceInv, DestroyInv, IndexInv, AddPc, DestroyPc, LoopPc, Thread
    <3>3. JoinedInv'
      BY DEF PoolType, ThreadType, PlaceInv, DestroyInv, OwnerInv, JoinedInv, AddPc, DestroyPc, LoopPc, Thread
    <3> QED
      BY <3>1, <3>2, <3>3 DEF DestroyInv
  <2> QED
    BY <2>1, <2>2, <2>3, <2>4, <2>5, <2>6
<1>13. ASSUME NEW t \in Thread, AddLock(t) PROVE StructInv'
  <2> USE <1>13 DEF AddLock, Lock, Goto, qvars, dvars, hvars
  <2>1. PoolType'
    BY DEF PoolType, Phase, PlaceInv, Thread
  <2>2. QueueType'
    BY DEF QueueType, PlaceInv, AddPc
  <2>3. ThreadType'
    BY DEF ThreadType, Label, PlaceInv, Thread
  <2>4. PlaceInv' /\ PhaseInv' /\ DestroyInv'
    BY AddMove DEF AddPc, PlaceInv, ClientPc, DestroyPc, LoopPc, Thread
  <2> QED
    BY <2>1, <2>2, <2>3, <2>4
<1>14. ASSUME NEW t \in Thread, AddLocal(t) PROVE StructInv'
  <2> USE <1>14 DEF AddLocal, Full, Goto, qvars, dvars, hvars
  <2>1. PoolType'
    BY DEF PoolType, Phase, PlaceInv, Thread
  <2>2. QueueType'
    BY DEF QueueType, PlaceInv, AddPc
  <2>3. ThreadType'
    BY DEF ThreadType, Label, PlaceInv, Thread, AddPc
  <2>4. PlaceInv' /\ PhaseInv' /\ DestroyInv'
    BY AddMove DEF AddPc, PlaceInv, ClientPc, DestroyPc, LoopPc, Thread
  <2> QED
    BY <2>1, <2>2, <2>3, <2>4
<1>15. ASSUME NEW t \in Thread, AddCount(t) PROVE StructInv'
  <2> USE <1>15 DEF AddCount, Goto, qvars, dvars, hvars
  <2>1. PoolType'
    BY DEF PoolType, ThreadType, PlaceInv, AddPc
  <2>2. QueueType'
    BY DEF QueueType, PlaceInv, AddPc
  <2>3. ThreadType'
    BY DEF ThreadType, Label, PlaceInv, Thread
  <2>4. PlaceInv' /\ PhaseInv' /\ DestroyInv'
    BY AddMove DEF AddPc, PlaceInv, ClientPc, DestroyPc, LoopPc, Thread
  <2> QED
    BY <2>1, <2>2, <2>3, <2>4
<1>16. ASSUME NEW t \in Thread, AddGlobal(t) PROVE StructInv'
  <2> USE <1>16 DEF AddGlobal, Full, Goto, qvars, dvars, hvars
  <2>1. PoolType'
    BY DEF PoolType, Phase, PlaceInv, Thread
  <2>2. QueueType'
    BY DEF QueueType, PlaceInv, AddPc
  <2>3. ThreadType'
    BY DEF ThreadType, Label, PlaceInv, Thread, AddPc
  <2>4. PlaceInv' /\ PhaseInv' /\ DestroyInv'
    BY AddMove DEF AddPc, PlaceInv, ClientPc, DestroyPc, LoopPc, Thread
  <2> QED
    BY <2>1, <2>2, <2>3, <2>4
<1>17. ASSUME NEW t \in Thread, AddFull(t) PROVE StructInv'
  <2> USE <1>17 DEF AddFull, Goto, qvars, dvars, hvars
  <2>1. PoolType'
    BY DEF PoolType, Phase, PlaceInv, Thread
  <2>2. QueueType'
    BY DEF QueueType, PlaceInv, AddPc
  <2>3. ThreadType'
    BY DEF ThreadType, Label, PlaceInv, Thread
  <2>4. PlaceInv' /\ PhaseInv' /\ DestroyInv'
    BY AddMove DEF AddPc, PlaceInv, ClientPc, DestroyPc, LoopPc, Thread
  <2> QED
    BY <2>1, <2>2, <2>3, <2>4
<1>18. ASSUME NEW t \in Thread, AddReturn(t) PROVE StructInv'
  <2> USE <1>18 DEF AddReturn, Home, Broadcast, Waiting, Unlock, Goto, qvars, dvars, hvars
  <2>1. PoolType'
    BY DEF PoolType, Phase, PlaceInv, Thread
  <2>2. QueueType'
    BY DEF QueueType, PlaceInv, AddPc
  <2>3. ThreadType'
    BY DEF ThreadType, Label, PlaceInv, Thread
  <2>4. PlaceInv'
    BY DEF ThreadType, PlaceInv, ClientPc, WorkerPc, AddPc, DestroyPc, LoopPc, Thread
  <2>5. PhaseInv'
    <3>1. NoneInv'
      BY DEF PoolType, ThreadType, PlaceInv, PhaseInv, NoneInv, AddPc, DestroyPc, LoopPc, Thread
    <3>2. OpenInv'
      BY DEF PoolType, ThreadType, PlaceInv, PhaseInv, NoneInv, OpenInv, AddPc, DestroyPc, LoopPc, Thread
    <3>3. FreedInv'
      <4>1. ASSUME NEW p \in Pool, phase[p] = "freed", NEW u \in Workers(p)
            PROVE  pc'[u] = pc[u]
        <5>1. pc[u] \in {"unborn", "joined"}
          BY <4>1 DEF PhaseInv, FreedInv
        <5> QED
          BY <5>1
      <4>2. \A p \in Pool : phase[p] = "freed" => pc'[W0(p)] = pc[W0(p)]
        BY <4>1
      <4>3. \A p \in Pool, u \in Thread : tp[u] # p => tp'[u] # p
        BY DEF ThreadType
      <4> QED
        BY <4>1, <4>2, <4>3 DEF PhaseInv, FreedInv
    <3>4. CreatorInv'
      BY DEF PoolType, ThreadType, PlaceInv, PhaseInv, CreatorInv, NoneInv, AddPc, DestroyPc, LoopPc, Thread
    <3> QED
      BY <3>1, <3>2, <3>3, <3>4 DEF PhaseInv
  <2>6. DestroyInv'
    <3>1. OwnerInv'
      BY DEF PoolType, ThreadType, PlaceInv, DestroyInv, OwnerInv, AddPc, DestroyPc, LoopPc, Thread
    <3>2. IndexInv'
      BY DEF PoolType, ThreadType, PlaceInv, DestroyInv, IndexInv, AddPc, DestroyPc, LoopPc, Thread
    <3>3. JoinedInv'
      BY DEF PoolType, ThreadType, PlaceInv, DestroyInv, OwnerInv, JoinedInv, AddPc, DestroyPc, LoopPc, Thread
    <3> QED
      BY <3>1, <3>2, <3>3 DEF DestroyInv
  <2> QED
    BY <2>1, <2>2, <2>3, <2>4, <2>5, <2>6
<1>19. ASSUME NEW w \in Worker, TestCancel(w) PROVE StructInv'
  <2> USE <1>19 DEF TestCancel, Goto, qvars, dvars, hvars
  <2>1. PoolType'
    BY DEF PoolType, Phase, PlaceInv, Thread
  <2>2. QueueType'
    BY DEF QueueType, PlaceInv, AddPc
  <2>3. ThreadType'
    BY DEF ThreadType, Label, PlaceInv, Thread
  <2>4. PlaceInv' /\ PhaseInv' /\ DestroyInv'
    BY WorkerMove DEF LivePc, PlaceInv, AddPc
  <2> QED
    BY <2>1, <2>2, <2>3, <2>4
<1>20. ASSUME NEW w \in Worker, WorkerLock(w) PROVE StructInv'
  <2> USE <1>20 DEF WorkerLock, Lock, Goto, qvars, dvars, hvars
  <2>1. PoolType'
    BY DEF PoolType, Phase, PlaceInv, Thread
  <2>2. QueueType'
    BY DEF QueueType, PlaceInv, AddPc
  <2>3. ThreadType'
    BY DEF ThreadType, Label, PlaceInv, Thread
  <2>4. PlaceInv' /\ PhaseInv' /\ DestroyInv'
    BY WorkerMove DEF LivePc, PlaceInv, AddPc
  <2> QED
    BY <2>1, <2>2, <2>3, <2>4
<1>21. ASSUME NEW w \in Worker, SeekLocal(w) PROVE StructInv'
  <2> USE <1>21 DEF SeekLocal, LocalSource, Victim, Goto, qvars, dvars, hvars
  <2>1. PoolType'
    BY DEF PoolType, Phase, PlaceInv, Thread
  <2>2. QueueType'
    BY DEF QueueType, PlaceInv, AddPc
  <2>3. ThreadType'
    <3>1. job' \in [Worker -> Job \cup {None}]
      BY DEF QueueType, Workers, ThreadType
    <3> QED
      BY <3>1 DEF ThreadType, Label, PlaceInv, Thread
  <2>4. PlaceInv' /\ PhaseInv' /\ DestroyInv'
    BY WorkerMove DEF LivePc, PlaceInv, AddPc
  <2> QED
    BY <2>1, <2>2, <2>3, <2>4
<1>22. ASSUME NEW w \in Worker, SeekUncount(w) PROVE StructInv'
  <2> USE <1>22 DEF SeekUncount, Unlock, Goto, qvars, dvars, hvars
  <2>1. PoolType'
    BY DEF PoolType, Phase, PlaceInv, Thread
  <2>2. QueueType'
    BY DEF QueueType, PlaceInv, AddPc
  <2>3. ThreadType'
    BY DEF ThreadType, Label, PlaceInv, Thread
  <2>4. PlaceInv' /\ PhaseInv' /\ DestroyInv'
    BY WorkerMove DEF LivePc, PlaceInv, AddPc
  <2> QED
    BY <2>1, <2>2, <2>3, <2>4
<1>23. ASSUME NEW w \in Worker, SeekGlobal(w) PROVE StructInv'
  <2> USE <1>23 DEF SeekGlobal, Unlock, Goto, qvars, dvars, hvars
  <2>1. PoolType'
    BY DEF PoolType, Phase, PlaceInv, Thread
  <2>2. QueueType'
    BY DEF QueueType, PlaceInv, AddPc
  <2>3. ThreadType'
    <3>1. job' \in [Worker -> Job \cup {None}]
      BY DEF QueueType, ThreadType
    <3> QED
      BY <3>1 DEF ThreadType, Label, PlaceInv, Thread
  <2>4. PlaceInv' /\ PhaseInv' /\ DestroyInv'
    BY WorkerMove DEF LivePc, PlaceInv, AddPc
  <2> QED
    BY <2>1, <2>2, <2>3, <2>4
<1>24. ASSUME NEW w \in Worker, SeekFails(w) PROVE StructInv'
  <2> USE <1>24 DEF SeekFails, Goto, qvars, dvars, hvars
  <2>1. PoolType'
    BY DEF PoolType, Phase, PlaceInv, Thread
  <2>2. QueueType'
    BY DEF QueueType, PlaceInv, AddPc
  <2>3. ThreadType'
    BY DEF ThreadType, Label, PlaceInv, Thread
  <2>4. PlaceInv' /\ PhaseInv' /\ DestroyInv'
    BY WorkerMove DEF LivePc, PlaceInv, AddPc
  <2> QED
    BY <2>1, <2>2, <2>3, <2>4
<1>25. ASSUME NEW w \in Worker, CondWait(w) PROVE StructInv'
  <2> USE <1>25 DEF CondWait, Unlock, Goto, qvars, dvars, hvars
  <2>1. PoolType'
    BY DEF PoolType, Phase, PlaceInv, Thread
  <2>2. QueueType'
    BY DEF QueueType, PlaceInv, AddPc
  <2>3. ThreadType'
    BY DEF ThreadType, Label, PlaceInv, Thread
  <2>4. PlaceInv' /\ PhaseInv' /\ DestroyInv'
    BY WorkerMove DEF LivePc, PlaceInv, AddPc
  <2> QED
    BY <2>1, <2>2, <2>3, <2>4
<1>26. ASSUME NEW w \in Worker, SpuriousWakeup(w) PROVE StructInv'
  <2> USE <1>26 DEF SpuriousWakeup, Goto, qvars, dvars, hvars
  <2>1. PoolType'
    BY DEF PoolType, Phase, PlaceInv, Thread
  <2>2. QueueType'
    BY DEF QueueType, PlaceInv, AddPc
  <2>3. ThreadType'
    BY DEF ThreadType, Label, PlaceInv, Thread
  <2>4. PlaceInv' /\ PhaseInv' /\ DestroyInv'
    BY WorkerMove DEF LivePc, PlaceInv, AddPc
  <2> QED
    BY <2>1, <2>2, <2>3, <2>4
<1>27. ASSUME NEW w \in Worker, Run(w) PROVE StructInv'
  <2> USE <1>27 DEF Run, Goto, qvars, dvars, hvars
  <2>1. PoolType'
    BY DEF PoolType, Phase, PlaceInv, Thread
  <2>2. QueueType'
    BY DEF QueueType, PlaceInv, AddPc
  <2>3. ThreadType'
    <3>1. ran' \in [Job -> Nat]
      <4>1. CASE job[w] \in Job
        BY <4>1 DEF ThreadType
      <4>2. CASE job[w] \notin Job
        <5>1. ran' = ran
          BY <4>2 DEF ThreadType
        <5>2. ran \in [Job -> Nat]
          BY DEF ThreadType
        <5> QED
          BY <5>1, <5>2, Zenon
      <4> QED
        BY <4>1, <4>2
    <3> QED
      BY <3>1 DEF ThreadType, Label, PlaceInv, Thread
  <2>4. PlaceInv' /\ PhaseInv' /\ DestroyInv'
    BY WorkerMove DEF LivePc, PlaceInv, AddPc
  <2> QED
    BY <2>1, <2>2, <2>3, <2>4
<1>28. ASSUME NEW w \in Worker, JobReturns(w) PROVE StructInv'
  <2> USE <1>28 DEF JobReturns, Goto, qvars, dvars, hvars
  <2>1. PoolType'
    BY DEF PoolType, Phase, PlaceInv, Thread
  <2>2. QueueType'
    BY DEF QueueType, PlaceInv, AddPc
  <2>3. ThreadType'
    BY DEF ThreadType, Label, PlaceInv, Thread
  <2>4. PlaceInv' /\ PhaseInv' /\ DestroyInv'
    BY WorkerMove DEF LivePc, PlaceInv, AddPc
  <2> QED
    BY <2>1, <2>2, <2>3, <2>4
<1>29. ASSUME NEW w \in Worker, CancelInWait(w) PROVE StructInv'
  <2> USE <1>29 DEF CancelInWait, Goto, qvars, dvars, hvars
  <2>1. PoolType'
    BY DEF PoolType, Phase, PlaceInv, Thread
  <2>2. QueueType'
    BY DEF QueueType, PlaceInv, AddPc
  <2>3. ThreadType'
    BY DEF ThreadType, Label, PlaceInv, Thread
  <2>4. PlaceInv' /\ PhaseInv' /\ DestroyInv'
    BY WorkerMove DEF LivePc, PlaceInv, AddPc
  <2> QED
    BY <2>1, <2>2, <2>3, <2>4
<1>30. ASSUME NEW w \in Worker, CancelRelock(w) PROVE StructInv'
  <2> USE <1>30 DEF CancelRelock, Lock, Goto, qvars, dvars, hvars
  <2>1. PoolType'
    BY DEF PoolType, Phase, PlaceInv, Thread
  <2>2. QueueType'
    BY DEF QueueType, PlaceInv, AddPc
  <2>3. ThreadType'
    BY DEF ThreadType, Label, PlaceInv, Thread
  <2>4. PlaceInv' /\ PhaseInv' /\ DestroyInv'
    BY WorkerMove DEF LivePc, PlaceInv, AddPc
  <2> QED
    BY <2>1, <2>2, <2>3, <2>4
<1>31. ASSUME NEW w \in Worker, Cleanup(w) PROVE StructInv'
  <2> USE <1>31 DEF Cleanup, Unlock, Goto, qvars, dvars, hvars
  <2>1. PoolType'
    BY DEF PoolType, Phase, PlaceInv, Thread
  <2>2. QueueType'
    BY DEF QueueType, PlaceInv, AddPc
  <2>3. ThreadType'
    BY DEF ThreadType, Label, PlaceInv, Thread
  <2>4. PlaceInv' /\ PhaseInv' /\ DestroyInv'
    BY WorkerMove DEF LivePc, PlaceInv, AddPc
  <2> QED
    BY <2>1, <2>2, <2>3, <2>4
<1>32. ASSUME NEW w \in Worker, CancelInJob(w) PROVE StructInv'
  <2> USE <1>32 DEF CancelInJob, Goto, qvars, dvars, hvars
  <2>1. PoolType'
    BY DEF PoolType, Phase, PlaceInv, Thread
  <2>2. QueueType'
    BY DEF QueueType, PlaceInv, AddPc
  <2>3. ThreadType'
    BY DEF ThreadType, Label, PlaceInv, Thread
  <2>4. PlaceInv' /\ PhaseInv' /\ DestroyInv'
    BY WorkerMove DEF LivePc, PlaceInv, AddPc
  <2> QED
    BY <2>1, <2>2, <2>3, <2>4
<1>33. CASE UNCHANGED vars
  <2> USE <1>33 DEF vars, qvars, dvars, hvars
  <2>1. PoolType' /\ QueueType' /\ ThreadType'
    BY DEF PoolType, QueueType, ThreadType
  <2>2. PlaceInv'
    BY DEF PlaceInv
  <2>3. PhaseInv' /\ DestroyInv'
    BY DEF PhaseInv, NoneInv, OpenInv, FreedInv, CreatorInv, DestroyInv, OwnerInv,
       IndexInv, JoinedInv
  <2> QED
    BY <2>1, <2>2, <2>3
<1> QED
  BY <1>1, <1>2, <1>3, <1>4, <1>5, <1>6, <1>6u, <1>7, <1>8, <1>9, <1>10, <1>11, <1>12, <1>13, <1>14, <1>15, <1>16, <1>17, <1>18, <1>19, <1>20, <1>21, <1>22, <1>23, <1>24, <1>25, <1>26, <1>27, <1>28, <1>29, <1>30, <1>31, <1>32, <1>33
  DEF Next, ClientNext, AddNext, WorkerNext, Terminated

\* The structural invariant holds in every reachable state.
THEOREM Structure == Spec => []StructInv
<1> QED
  BY StructInit, StructStep, PTL DEF Spec

\* Types: queues never hold more than MAX_JOBS jobs, and every field keeps its
\* range, for any number of pools, clients, workers and jobs (the checks of
\* queue_enqueue and the index arithmetic of thrdpool_destroy).
THEOREM TypeCorrect == Spec => []TypeOK
<1>1. StructInv => TypeOK
  BY TypeParts DEF StructInv
<1> QED
  BY <1>1, Structure, PTL

\* A step keeps the owners of the mutexes and the critical sections together.
LEMMA MutexStep == StructInv /\ MutexSafe /\ [Next]_vars => MutexSafe'
<1> SUFFICES ASSUME StructInv, MutexSafe, [Next]_vars PROVE MutexSafe'
  OBVIOUS
<1> USE PoolAssumption, WorkersOf, PoolOf, Worker0 DEF StructInv, MutexSafe, Inside
<1>1. ASSUME NEW c \in Client, NEW p \in Pool, Create(c, p) PROVE MutexSafe'
  <2>1. pc[W0(p)] = "unborn"
    BY <1>1 DEF PhaseInv, NoneInv, Create, CreateFirstFails
  <2>2. \A t \in Thread, q \in Pool : Inside(t, q)' <=> Inside(t, q)
    BY <1>1, <2>1 DEF Create, CreateFirstFails, Goto, ThreadType, PlaceInv, DestroyPc,
       LoopPc, Thread
  <2> QED
    BY <1>1, <2>2 DEF Create, CreateFirstFails
<1>2. ASSUME NEW c \in Client, NEW p \in Pool, CreateQueueFails(c, p) PROVE MutexSafe'
  BY <1>2 DEF CreateQueueFails, Goto, qvars, dvars, hvars, PoolType, ThreadType, PlaceInv, AddPc,
     DestroyPc, LoopPc, ClientPc, WorkerPc, Thread
<1>3. ASSUME NEW c \in Client, NEW p \in Pool, CreateFirstFails(c, p) PROVE MutexSafe'
  <2>1. pc[W0(p)] = "unborn"
    BY <1>3 DEF PhaseInv, NoneInv, Create, CreateFirstFails
  <2>2. \A t \in Thread, q \in Pool : Inside(t, q)' <=> Inside(t, q)
    BY <1>3, <2>1 DEF Create, CreateFirstFails, Refused, Goto, ThreadType, PlaceInv,
       DestroyPc, LoopPc, Thread
  <2>3. mtx' = mtx
    BY <1>3 DEF Create, CreateFirstFails
  <2> QED
    BY <2>2, <2>3
<1>4. ASSUME NEW c \in Client, NEW p \in Pool, DestroyCall(c, p) PROVE MutexSafe'
  BY <1>4 DEF DestroyCall, Goto, qvars, dvars, hvars, PoolType, ThreadType, PlaceInv, AddPc,
     DestroyPc, LoopPc, ClientPc, WorkerPc, Thread
<1>5. ASSUME NEW c \in Client, DestroyFuture(c) PROVE MutexSafe'
  BY <1>5 DEF DestroyFuture, Goto, qvars, dvars, hvars, PoolType, ThreadType, PlaceInv, AddPc,
     DestroyPc, LoopPc, ClientPc, WorkerPc, Thread
<1>6. ASSUME NEW c \in Client, DestroyCancel(c) PROVE MutexSafe'
  BY <1>6 DEF DestroyCancel, Refused, LoopEnds, At, Goto, qvars, dvars, hvars, PoolType, ThreadType, PlaceInv, AddPc,
     DestroyPc, LoopPc, ClientPc, WorkerPc, Thread
<1>6u. ASSUME NEW c \in Client, DestroyUndefined(c) PROVE MutexSafe'
  BY <1>6u DEF DestroyUndefined, LoopEnds, At, Goto, qvars, dvars, hvars, PoolType, ThreadType, PlaceInv, AddPc,
     DestroyPc, LoopPc, ClientPc, WorkerPc, Thread
<1>7. ASSUME NEW c \in Client, DestroySkip(c) PROVE MutexSafe'
  BY <1>7 DEF DestroySkip, Refused, LoopEnds, At, Goto, qvars, dvars, hvars, PoolType, ThreadType, PlaceInv, AddPc,
     DestroyPc, LoopPc, ClientPc, WorkerPc, Thread
<1>8. ASSUME NEW c \in Client, DestroyJoin(c) PROVE MutexSafe'
  <2>1. At(c) \in Thread /\ At(c) # c
    BY <1>8, AtIndex DEF DestroyJoin, LoopPc, LoopEnds, DestroyInv, IndexInv, Index
  <2>2. \A t \in Thread, q \in Pool : Inside(t, q)' <=> Inside(t, q)
    <3>1. /\ pc'[c] = "d_cancel" /\ pc'[At(c)] = "joined"
          /\ \A t \in Thread : t # c /\ t # At(c) => pc'[t] = pc[t]
      BY <1>8, <2>1 DEF DestroyJoin, ThreadType, Thread
    <3> QED
      BY <1>8, <3>1 DEF DestroyJoin
  <2>3. mtx' = mtx
    BY <1>8 DEF DestroyJoin
  <2> QED
    BY <2>2, <2>3
<1>9. ASSUME NEW c \in Client, DestroyFree(c) PROVE MutexSafe'
  BY <1>9 DEF DestroyFree, LoopEnds, Goto, qvars, dvars, hvars, PoolType, ThreadType, PlaceInv, AddPc,
     DestroyPc, LoopPc, ClientPc, WorkerPc, Thread
<1>10. ASSUME NEW p \in Pool, CreateWorker(p) PROVE MutexSafe'
  <2>1. PICK u \in Workers(p), l \in {"loop", "failed", "nothread"} :
          pc[u] = "unborn" /\ pc' = [pc EXCEPT ![u] = l]
    BY <1>10 DEF CreateWorker, Goto, Workers, Index
  <2>2. \A t \in Thread, q \in Pool : Inside(t, q)' <=> Inside(t, q)
    BY <1>10, <2>1 DEF CreateWorker, ThreadType
  <2> QED
    BY <1>10, <2>2 DEF CreateWorker
<1>11. ASSUME NEW p \in Pool, CreatorDone(p) PROVE MutexSafe'
  BY <1>11 DEF CreatorDone, Goto, qvars, dvars, hvars, PoolType, ThreadType, PlaceInv, AddPc,
     DestroyPc, LoopPc, ClientPc, WorkerPc, Thread
<1>12. ASSUME NEW t \in Thread, NEW p \in Pool, NEW j \in Job, AddCall(t, p, j) PROVE MutexSafe'
  BY <1>12 DEF AddCall, Home, Goto, qvars, dvars, hvars, PoolType, ThreadType, PlaceInv, AddPc,
     DestroyPc, LoopPc, ClientPc, WorkerPc, Thread
<1>13. ASSUME NEW t \in Thread, AddLock(t) PROVE MutexSafe'
  BY <1>13 DEF AddLock, Lock, Goto, qvars, dvars, hvars, PoolType, ThreadType, PlaceInv, AddPc,
     DestroyPc, LoopPc, ClientPc, WorkerPc, Thread
<1>14. ASSUME NEW t \in Thread, AddLocal(t) PROVE MutexSafe'
  BY <1>14 DEF AddLocal, Full, Goto, qvars, dvars, hvars, PoolType, ThreadType, PlaceInv, AddPc,
     DestroyPc, LoopPc, ClientPc, WorkerPc, Thread
<1>15. ASSUME NEW t \in Thread, AddCount(t) PROVE MutexSafe'
  BY <1>15 DEF AddCount, Goto, qvars, dvars, hvars, PoolType, ThreadType, PlaceInv, AddPc,
     DestroyPc, LoopPc, ClientPc, WorkerPc, Thread
<1>16. ASSUME NEW t \in Thread, AddGlobal(t) PROVE MutexSafe'
  BY <1>16 DEF AddGlobal, Full, Goto, qvars, dvars, hvars, PoolType, ThreadType, PlaceInv, AddPc,
     DestroyPc, LoopPc, ClientPc, WorkerPc, Thread
<1>17. ASSUME NEW t \in Thread, AddFull(t) PROVE MutexSafe'
  BY <1>17 DEF AddFull, Goto, qvars, dvars, hvars, PoolType, ThreadType, PlaceInv, AddPc,
     DestroyPc, LoopPc, ClientPc, WorkerPc, Thread
<1>18. ASSUME NEW t \in Thread, AddReturn(t) PROVE MutexSafe'
  BY <1>18 DEF AddReturn, Home, Broadcast, Waiting, Unlock, Goto, qvars, dvars, hvars, PoolType, ThreadType, PlaceInv, AddPc,
     DestroyPc, LoopPc, ClientPc, WorkerPc, Thread
<1>19. ASSUME NEW w \in Worker, TestCancel(w) PROVE MutexSafe'
  BY <1>19 DEF TestCancel, Goto, qvars, dvars, hvars, PoolType, ThreadType, PlaceInv, AddPc,
     DestroyPc, LoopPc, ClientPc, WorkerPc, Thread
<1>20. ASSUME NEW w \in Worker, WorkerLock(w) PROVE MutexSafe'
  BY <1>20 DEF WorkerLock, Lock, Goto, qvars, dvars, hvars, PoolType, ThreadType, PlaceInv, AddPc,
     DestroyPc, LoopPc, ClientPc, WorkerPc, Thread
<1>21. ASSUME NEW w \in Worker, SeekLocal(w) PROVE MutexSafe'
  BY <1>21 DEF SeekLocal, LocalSource, Victim, Goto, qvars, dvars, hvars, PoolType, ThreadType, PlaceInv, AddPc,
     DestroyPc, LoopPc, ClientPc, WorkerPc, Thread
<1>22. ASSUME NEW w \in Worker, SeekUncount(w) PROVE MutexSafe'
  BY <1>22 DEF SeekUncount, Unlock, Goto, qvars, dvars, hvars, PoolType, ThreadType, PlaceInv, AddPc,
     DestroyPc, LoopPc, ClientPc, WorkerPc, Thread
<1>23. ASSUME NEW w \in Worker, SeekGlobal(w) PROVE MutexSafe'
  BY <1>23 DEF SeekGlobal, Unlock, Goto, qvars, dvars, hvars, PoolType, ThreadType, PlaceInv, AddPc,
     DestroyPc, LoopPc, ClientPc, WorkerPc, Thread
<1>24. ASSUME NEW w \in Worker, SeekFails(w) PROVE MutexSafe'
  BY <1>24 DEF SeekFails, Goto, qvars, dvars, hvars, PoolType, ThreadType, PlaceInv, AddPc,
     DestroyPc, LoopPc, ClientPc, WorkerPc, Thread
<1>25. ASSUME NEW w \in Worker, CondWait(w) PROVE MutexSafe'
  BY <1>25 DEF CondWait, Unlock, Goto, qvars, dvars, hvars, PoolType, ThreadType, PlaceInv, AddPc,
     DestroyPc, LoopPc, ClientPc, WorkerPc, Thread
<1>26. ASSUME NEW w \in Worker, SpuriousWakeup(w) PROVE MutexSafe'
  BY <1>26 DEF SpuriousWakeup, Goto, qvars, dvars, hvars, PoolType, ThreadType, PlaceInv, AddPc,
     DestroyPc, LoopPc, ClientPc, WorkerPc, Thread
<1>27. ASSUME NEW w \in Worker, Run(w) PROVE MutexSafe'
  BY <1>27 DEF Run, Goto, qvars, dvars, hvars, PoolType, ThreadType, PlaceInv, AddPc,
     DestroyPc, LoopPc, ClientPc, WorkerPc, Thread
<1>28. ASSUME NEW w \in Worker, JobReturns(w) PROVE MutexSafe'
  BY <1>28 DEF JobReturns, Goto, qvars, dvars, hvars, PoolType, ThreadType, PlaceInv, AddPc,
     DestroyPc, LoopPc, ClientPc, WorkerPc, Thread
<1>29. ASSUME NEW w \in Worker, CancelInWait(w) PROVE MutexSafe'
  BY <1>29 DEF CancelInWait, Goto, qvars, dvars, hvars, PoolType, ThreadType, PlaceInv, AddPc,
     DestroyPc, LoopPc, ClientPc, WorkerPc, Thread
<1>30. ASSUME NEW w \in Worker, CancelRelock(w) PROVE MutexSafe'
  BY <1>30 DEF CancelRelock, Lock, Goto, qvars, dvars, hvars, PoolType, ThreadType, PlaceInv, AddPc,
     DestroyPc, LoopPc, ClientPc, WorkerPc, Thread
<1>31. ASSUME NEW w \in Worker, Cleanup(w) PROVE MutexSafe'
  BY <1>31 DEF Cleanup, Unlock, Goto, qvars, dvars, hvars, PoolType, ThreadType, PlaceInv, AddPc,
     DestroyPc, LoopPc, ClientPc, WorkerPc, Thread
<1>32. ASSUME NEW w \in Worker, CancelInJob(w) PROVE MutexSafe'
  BY <1>32 DEF CancelInJob, Goto, qvars, dvars, hvars, PoolType, ThreadType, PlaceInv, AddPc,
     DestroyPc, LoopPc, ClientPc, WorkerPc, Thread
<1>33. CASE UNCHANGED vars
  BY <1>33 DEF vars
<1> QED
  BY <1>1, <1>2, <1>3, <1>4, <1>5, <1>6, <1>6u, <1>7, <1>8, <1>9, <1>10, <1>11, <1>12, <1>13, <1>14, <1>15, <1>16, <1>17, <1>18, <1>19, <1>20, <1>21, <1>22, <1>23, <1>24, <1>25, <1>26, <1>27, <1>28, <1>29, <1>30, <1>31, <1>32, <1>33
  DEF Next, ClientNext, AddNext, WorkerNext, Terminated

\* seek_mtx is owned by exactly the threads between lock and unlock, a thread
\* cancelled in pthread_cond_wait included (lock block of utils.h).
THEOREM MutexHolds == Spec => []MutexSafe
<1>1. Init => MutexSafe
  BY PoolAssumption, WorkersOf DEF Init, MutexSafe, Inside, Thread
<1> QED
  BY <1>1, MutexStep, Structure, PTL DEF Spec

\* After thrdpool_destroy has freed a pool nothing of it is left in use.
THEOREM TeardownHolds == Spec => []TeardownSafe
<1>1. StructInv /\ MutexSafe => TeardownSafe
  <2> SUFFICES ASSUME StructInv, MutexSafe, NEW p \in Pool, phase[p] = "freed"
               PROVE  mtx[p] = None
    BY DEF StructInv, PhaseInv, FreedInv, TeardownSafe
  <2>1. mtx[p] \in Thread \cup {None}
    BY DEF StructInv, PoolType
  <2>2. \A t \in Thread : ~Inside(t, p)
    BY WorkersOf DEF StructInv, PhaseInv, FreedInv, Inside
  <2> QED
    BY <2>1, <2>2 DEF MutexSafe
<1> QED
  BY <1>1, Structure, MutexHolds, PTL

-----------------------------------------------------------------------------
(***************************************************************************)
(* The queues and the jobs: the counter of local jobs is exact, local jobs *)
(* come first, no wakeup is lost, no job is lost or run twice, and         *)
(* ThreadPool implements JobPool.                                          *)
(***************************************************************************)
\* Steps in the middle of which the counter and the queues disagree, and those
\* in which a worker holds a job that has not been started.
BusyPc == {"count", "uncount", "got"}
PrePc  == {"add_lock", "enqueue"}

\* A step that leaves the jobs where they are.
Quiet ==
  /\ UNCHANGED <<jobs, local_jobs, num_local_jobs, accepted, ran>>
  /\ \A p \in Pool : phase[p] = "freed" => phase'[p] = "freed"
  /\ \A t \in Thread : pc[t] \in BusyPc \/ pc'[t] \in BusyPc =>
       pc'[t] = pc[t] /\ tp'[t] = tp[t] /\ (t \in Worker => job'[t] = job[t])
  /\ \A t \in Thread : add'[t] \in {add[t], None}
  /\ \A t \in Thread : pc'[t] \in PrePc => pc[t] \in PrePc /\ add'[t] = add[t]

\* A step that moves, adds or drops jobs, or admits an argument.
Loud ==
  \/ \E t \in Thread : \/ AddLocal(t) \/ AddCount(t) \/ AddGlobal(t)
                        \/ \E p \in Pool, j \in Job : AddCall(t, p, j)
  \/ \E w \in Worker : SeekLocal(w) \/ SeekUncount(w) \/ SeekGlobal(w) \/ Run(w)
  \/ \E c \in Client : DestroyFree(c)

LEMMA QuietOrLoud == StructInv /\ [Next]_vars => Quiet \/ Loud
<1> SUFFICES ASSUME StructInv, [Next]_vars, ~Loud PROVE Quiet
  OBVIOUS
<1> USE PoolAssumption, WorkersOf, PoolOf, Worker0 DEF StructInv, Quiet, BusyPc, PrePc
<1>1. ASSUME NEW c \in Client, NEW p \in Pool, Create(c, p) PROVE Quiet
  <2>1. pc[W0(p)] = "unborn" /\ phase[p] = "none"
    BY <1>1 DEF PhaseInv, NoneInv, Create
  <2> QED
    BY <1>1, <2>1 DEF Create, Goto, qvars, dvars, hvars, ThreadType, PlaceInv, PoolType, AddPc, DestroyPc, LoopPc, ClientPc, WorkerPc, Thread
<1>2. ASSUME NEW c \in Client, NEW p \in Pool, CreateQueueFails(c, p) PROVE Quiet
  BY <1>2 DEF CreateQueueFails, PoolType, Goto, qvars, dvars, hvars, ThreadType, PlaceInv, PoolType, AddPc, DestroyPc, LoopPc, ClientPc, WorkerPc, Thread
<1>3. ASSUME NEW c \in Client, NEW p \in Pool, CreateFirstFails(c, p) PROVE Quiet
  <2>1. pc[W0(p)] = "unborn" /\ phase[p] = "none"
    BY <1>3 DEF PhaseInv, NoneInv, CreateFirstFails
  <2> QED
    BY <1>3, <2>1 DEF CreateFirstFails, Refused, Goto, qvars, dvars, hvars, ThreadType, PlaceInv, PoolType, AddPc, DestroyPc, LoopPc, ClientPc, WorkerPc, Thread
<1>4. ASSUME NEW c \in Client, NEW p \in Pool, DestroyCall(c, p) PROVE Quiet
  BY <1>4 DEF DestroyCall, Goto, qvars, dvars, hvars, ThreadType, PlaceInv, PoolType, AddPc, DestroyPc, LoopPc, ClientPc, WorkerPc, Thread
<1>5. ASSUME NEW c \in Client, DestroyFuture(c) PROVE Quiet
  BY <1>5 DEF DestroyFuture, Goto, qvars, dvars, hvars, ThreadType, PlaceInv, PoolType, AddPc, DestroyPc, LoopPc, ClientPc, WorkerPc, Thread
<1>6. ASSUME NEW c \in Client, DestroyCancel(c) PROVE Quiet
  BY <1>6 DEF DestroyCancel, Refused, LoopEnds, At, Goto, qvars, dvars, hvars, ThreadType, PlaceInv, PoolType, AddPc, DestroyPc, LoopPc, ClientPc, WorkerPc, Thread
<1>6u. ASSUME NEW c \in Client, DestroyUndefined(c) PROVE Quiet
  BY <1>6u DEF DestroyUndefined, LoopEnds, At, Goto, qvars, dvars, hvars, ThreadType, PlaceInv, PoolType, AddPc, DestroyPc, LoopPc, ClientPc, WorkerPc, Thread
<1>7. ASSUME NEW c \in Client, DestroySkip(c) PROVE Quiet
  <2>1. At(c) \in Thread /\ At(c) # c /\ pc[c] \in LoopPc
    BY <1>7, AtIndex DEF DestroySkip, Refused, LoopPc, LoopEnds, DestroyInv, IndexInv, Index
  <2>2. /\ pc'[c] = "d_cancel" /\ pc'[At(c)] = "joined" /\ pc[At(c)] \in Refused \cup {"dead"}
        /\ \A t \in Thread : t # c /\ t # At(c) => pc'[t] = pc[t]
    BY <1>7, <2>1 DEF DestroySkip, Refused, Goto, ThreadType, Thread
  <2>3. UNCHANGED <<phase, jobs, local_jobs, num_local_jobs, accepted, ran, tp, add, job>>
    BY <1>7 DEF DestroySkip, Refused, qvars, hvars
  <2> QED
    BY <2>1, <2>2, <2>3 DEF LoopPc, Refused
<1>8. ASSUME NEW c \in Client, DestroyJoin(c) PROVE Quiet
  <2>1. At(c) \in Thread /\ At(c) # c /\ pc[c] \in LoopPc
    BY <1>8, AtIndex DEF DestroyJoin, LoopPc, LoopEnds, DestroyInv, IndexInv, Index
  <2>2. /\ pc'[c] = "d_cancel" /\ pc'[At(c)] = "joined" /\ pc[At(c)] \in Refused \cup {"dead"}
        /\ \A t \in Thread : t # c /\ t # At(c) => pc'[t] = pc[t]
    BY <1>8, <2>1 DEF DestroyJoin, Goto, ThreadType, Thread
  <2>3. UNCHANGED <<phase, jobs, local_jobs, num_local_jobs, accepted, ran, tp, add, job>>
    BY <1>8 DEF DestroyJoin, qvars, hvars
  <2> QED
    BY <2>1, <2>2, <2>3 DEF LoopPc, Refused
<1>9. ASSUME NEW p \in Pool, CreateWorker(p) PROVE Quiet
  <2>1. PICK u \in Workers(p), l \in {"loop", "failed", "nothread"} :
          pc[u] = "unborn" /\ pc' = [pc EXCEPT ![u] = l]
    BY <1>9 DEF CreateWorker, Goto, Workers, Index
  <2> QED
    BY <1>9, <2>1 DEF CreateWorker, qvars, hvars, ThreadType
<1>10. ASSUME NEW p \in Pool, CreatorDone(p) PROVE Quiet
  BY <1>10 DEF CreatorDone, Goto, qvars, dvars, hvars, ThreadType, PlaceInv, AddPc, DestroyPc, LoopPc, ClientPc, WorkerPc, Thread
<1>11. ASSUME NEW t \in Thread, AddLock(t) PROVE Quiet
  BY <1>11 DEF AddLock, Lock, Goto, qvars, dvars, hvars, ThreadType, PlaceInv, AddPc, DestroyPc, LoopPc, ClientPc, WorkerPc, Thread
<1>12. ASSUME NEW t \in Thread, AddFull(t) PROVE Quiet
  BY <1>12 DEF AddFull, Goto, qvars, dvars, hvars, ThreadType, PlaceInv, AddPc, DestroyPc, LoopPc, ClientPc, WorkerPc, Thread
<1>13. ASSUME NEW t \in Thread, AddReturn(t) PROVE Quiet
  BY <1>13 DEF AddReturn, Home, Broadcast, Waiting, Unlock, Goto, qvars, dvars, hvars, ThreadType, PlaceInv, AddPc, DestroyPc, LoopPc, ClientPc, WorkerPc, Thread
<1>14. ASSUME NEW w \in Worker, TestCancel(w) PROVE Quiet
  BY <1>14 DEF TestCancel, Goto, qvars, dvars, hvars, ThreadType, PlaceInv, AddPc, DestroyPc, LoopPc, ClientPc, WorkerPc, Thread
<1>15. ASSUME NEW w \in Worker, WorkerLock(w) PROVE Quiet
  BY <1>15 DEF WorkerLock, Lock, Goto, qvars, dvars, hvars, ThreadType, PlaceInv, AddPc, DestroyPc, LoopPc, ClientPc, WorkerPc, Thread
<1>16. ASSUME NEW w \in Worker, SeekFails(w) PROVE Quiet
  BY <1>16 DEF SeekFails, Goto, qvars, dvars, hvars, ThreadType, PlaceInv, AddPc, DestroyPc, LoopPc, ClientPc, WorkerPc, Thread
<1>17. ASSUME NEW w \in Worker, CondWait(w) PROVE Quiet
  BY <1>17 DEF CondWait, Unlock, Goto, qvars, dvars, hvars, ThreadType, PlaceInv, AddPc, DestroyPc, LoopPc, ClientPc, WorkerPc, Thread
<1>18. ASSUME NEW w \in Worker, SpuriousWakeup(w) PROVE Quiet
  BY <1>18 DEF SpuriousWakeup, Goto, qvars, dvars, hvars, ThreadType, PlaceInv, AddPc, DestroyPc, LoopPc, ClientPc, WorkerPc, Thread
<1>19. ASSUME NEW w \in Worker, JobReturns(w) PROVE Quiet
  BY <1>19 DEF JobReturns, Goto, qvars, dvars, hvars, ThreadType, PlaceInv, AddPc, DestroyPc, LoopPc, ClientPc, WorkerPc, Thread
<1>20. ASSUME NEW w \in Worker, CancelInWait(w) PROVE Quiet
  BY <1>20 DEF CancelInWait, Goto, qvars, dvars, hvars, ThreadType, PlaceInv, AddPc, DestroyPc, LoopPc, ClientPc, WorkerPc, Thread
<1>21. ASSUME NEW w \in Worker, CancelRelock(w) PROVE Quiet
  BY <1>21 DEF CancelRelock, Lock, Goto, qvars, dvars, hvars, ThreadType, PlaceInv, AddPc, DestroyPc, LoopPc, ClientPc, WorkerPc, Thread
<1>22. ASSUME NEW w \in Worker, Cleanup(w) PROVE Quiet
  BY <1>22 DEF Cleanup, Unlock, Goto, qvars, dvars, hvars, ThreadType, PlaceInv, AddPc, DestroyPc, LoopPc, ClientPc, WorkerPc, Thread
<1>23. ASSUME NEW w \in Worker, CancelInJob(w) PROVE Quiet
  BY <1>23 DEF CancelInJob, Goto, qvars, dvars, hvars, ThreadType, PlaceInv, AddPc, DestroyPc, LoopPc, ClientPc, WorkerPc, Thread
<1>24. CASE UNCHANGED vars
  BY <1>24 DEF vars
<1> QED
  BY <1>1, <1>2, <1>3, <1>4, <1>5, <1>6, <1>6u, <1>7, <1>8, <1>9, <1>10, <1>11, <1>12, <1>13, <1>14, <1>15, <1>16, <1>17, <1>18, <1>19, <1>20, <1>21, <1>22, <1>23, <1>24
  DEF Loud, Next, ClientNext, AddNext, WorkerNext, Terminated

-----------------------------------------------------------------------------
\* Jobs add to the pool that runs them only.
OwnPool == \A w \in Worker : Targets[w] \subseteq {w[1]}

HomeInv == \A w \in Worker : tp[w] \in {None, w[1]}

\* Every step of a worker is about its own pool, if its jobs stay at home.
LEMMA HomeStep == OwnPool /\ StructInv /\ HomeInv /\ [Next]_vars => HomeInv'
<1> SUFFICES ASSUME OwnPool, StructInv, HomeInv, [Next]_vars PROVE HomeInv'
  OBVIOUS
<1> USE PoolAssumption, PoolOf DEF StructInv, ThreadType, HomeInv
<1>1. ASSUME NEW c \in Client, NEW p \in Pool,
             CreateFirstFails(c, p) \/ DestroyCall(c, p) PROVE HomeInv'
  BY <1>1 DEF CreateFirstFails, Refused, DestroyCall
<1>2. ASSUME NEW c \in Client, DestroyFree(c) PROVE HomeInv'
  BY <1>2 DEF DestroyFree
<1>3. ASSUME NEW t \in Thread, AddReturn(t) PROVE HomeInv'
  BY <1>3 DEF AddReturn
<1>4. ASSUME NEW t \in Thread, NEW p \in Pool, NEW j \in Job, AddCall(t, p, j)
      PROVE  HomeInv'
  BY <1>4 DEF AddCall, OwnPool
<1>5. CASE UNCHANGED tp
  BY <1>5
<1> QED
  BY <1>1, <1>2, <1>3, <1>4, <1>5
  DEF Next, ClientNext, AddNext, WorkerNext, Terminated, vars, Create,
      CreateQueueFails, DestroyFuture, DestroyCancel, DestroySkip, DestroyUndefined, DestroyJoin,
      CreateWorker, CreatorDone, AddLock, AddLocal, AddCount, AddGlobal, AddFull,
      TestCancel, WorkerLock, SeekLocal, SeekUncount, SeekGlobal, SeekFails,
      CondWait, SpuriousWakeup, Run, JobReturns, CancelInWait, CancelRelock,
      Cleanup, CancelInJob

\* The least number of a set, from the well-founded inclusion of intervals.
LEMMA LeastNumber ==
  ASSUME NEW B, B \subseteq Nat, B # {}
  PROVE  \E n \in B : \A m \in B : n <= m
<1> DEFINE T == {0 .. n : n \in B}
<1>1. T \subseteq FiniteSubsetsOf(Nat) /\ T # {}
  <2>1. ASSUME NEW n \in B PROVE 0 .. n \in SUBSET Nat /\ IsFiniteSet(0 .. n)
    <3>1. n \in Int /\ 0 \in Int
      OBVIOUS
    <3> QED
      BY <3>1, FS_Interval
  <2> QED
    BY <2>1 DEF FiniteSubsetsOf
<1>2. IsWellFoundedOn(StrictSubsetOrdering(Nat), FiniteSubsetsOf(Nat))
  BY FS_StrictSubsetOrderingWellFounded
<1> HIDE DEF T
<1>3. PICK x \in T : \A y \in T : <<y, x>> \notin StrictSubsetOrdering(Nat)
  BY <1>1, <1>2, WFMin
<1>4. PICK n \in B : x = 0 .. n
  BY <1>3 DEF T
<1>5. ASSUME NEW m \in B, m < n PROVE FALSE
  <2>1. 0 .. m \in T /\ 0 .. m \subseteq 0 .. n /\ n \notin 0 .. m /\ n \in 0 .. n
    BY <1>5 DEF T
  <2>2. <<0 .. m, x>> \in StrictSubsetOrdering(Nat)
    BY <2>1, <1>4 DEF StrictSubsetOrdering
  <2> QED
    BY <2>1, <2>2, <1>3
<1> QED
  BY <1>5

\* A worker that may steal finds a victim whenever another worker has jobs.
LEMMA VictimFound ==
  ASSUME NEW w \in Worker, NEW v \in Workers(w[1]), v # w, local_jobs[v] # <<>>
  PROVE  Victim(w) # {}
<1> DEFINE busy == {u \in Workers(w[1]) : u # w /\ local_jobs[u] # <<>>}
           B == {i \in Index : <<w[1], i>> \in busy}
<1>1. \A u \in busy : u[2] \in B /\ u = <<w[1], u[2]>>
  BY WorkersOf, PoolOf DEF Workers
<1>2. v[2] \in B
  BY <1>1
<1>3. B \subseteq Nat /\ B # {}
  BY <1>2 DEF Index
<1> HIDE DEF B
<1>4. PICK n \in B : \A m \in B : n <= m
  BY <1>3, LeastNumber
<1>5. <<w[1], n>> \in busy /\ n \in Nat
  BY <1>3, <1>4 DEF B
<1>6. \A u \in busy : n <= u[2]
  BY <1>1, <1>4
<1>7. <<w[1], n>> \in Victim(w)
  BY <1>5, <1>6 DEF Victim
<1> QED
  BY <1>7

-----------------------------------------------------------------------------
\* The critical sections around the counter are entered by one thread a time.
LEMMA Alone ==
  ASSUME StructInv, MutexSafe, NEW p \in Pool, NEW t \in Thread, Inside(t, p)
  PROVE  /\ mtx[p] = t
         /\ \A u \in Thread : Inside(u, p) => u = t
         /\ Counting(p) \subseteq {t} /\ Uncounting(p) \subseteq {t}
BY WorkersOf DEF MutexSafe, Counting, Uncounting, Inside

LEMMA SlotsFinite ==
  ASSUME NEW p \in Pool
  PROVE  IsFiniteSet(LocalSlots(p)) /\ Cardinality(LocalSlots(p)) \in Nat
<1>1. IsFiniteSet(Index) /\ IsFiniteSet(1 .. MaxJobs)
  <2>1. 0 \in Int /\ 1 \in Int /\ NumWorkers - 1 \in Int /\ MaxJobs \in Int
    BY PoolAssumption
  <2> QED
    BY <2>1, FS_Interval DEF Index
<1>2. IsFiniteSet({p})
  BY FS_Singleton
<1>3. IsFiniteSet(Workers(p))
  BY <1>1, <1>2, FS_Product DEF Workers
<1>4. IsFiniteSet(Workers(p) \X (1 .. MaxJobs))
  BY <1>1, <1>3, FS_Product
<1>5. LocalSlots(p) \in SUBSET (Workers(p) \X (1 .. MaxJobs))
  BY DEF LocalSlots
<1>6. IsFiniteSet(LocalSlots(p))
  BY <1>4, <1>5, FS_Subset
<1> QED
  BY <1>6, FS_CardinalityType

\* Without a local source no local queue of the pool holds a job.
LEMMA NoSource ==
  ASSUME StructInv, MutexSafe, LocalCountExact, NEW w \in Worker,
         pc[w] = "seek", LocalSource(w) = {}, NEW v \in Workers(w[1])
  PROVE  local_jobs[v] = <<>>
<1>1. w[1] \in Pool /\ w \in Workers(w[1]) /\ w \in Thread /\ Inside(w, w[1])
  BY PoolOf DEF Inside
<1>2. phase[w[1]] # "freed"
  BY <1>1 DEF StructInv, PhaseInv, FreedInv
<1>3. CASE num_local_jobs[w[1]] = 0
  <2>1. Counting(w[1]) = {} /\ Uncounting(w[1]) = {}
    BY <1>1, Alone DEF Counting, Uncounting
  <2>2. Cardinality(LocalSlots(w[1])) = 0
    BY <1>1, <1>2, <1>3, <2>1, SlotsFinite, FS_EmptySet DEF LocalCountExact
  <2>3. LocalSlots(w[1]) = {}
    BY <1>1, <2>2, SlotsFinite, FS_EmptySet
  <2>4. local_jobs[v] \in Seq(Job)
    BY <1>1, WorkersOf DEF StructInv, QueueType
  <2>5. <<v, 1>> \notin LocalSlots(w[1])
    BY <2>3
  <2>6. <<v, 1>> \in Workers(w[1]) \X (1 .. MaxJobs)
    BY PoolAssumption
  <2>7. ~(1 <= Len(local_jobs[v]))
    BY <2>5, <2>6 DEF LocalSlots
  <2> QED
    BY <2>4, <2>7
<1>4. CASE num_local_jobs[w[1]] # 0
  BY <1>1, <1>4, VictimFound DEF LocalSource
<1> QED
  BY <1>3, <1>4

-----------------------------------------------------------------------------
\* What a step that keeps the three sets of pool p leaves of the count.
SameSets(p) == /\ LocalSlots(p)' = LocalSlots(p) /\ Counting(p)' = Counting(p)
               /\ Uncounting(p)' = Uncounting(p)

LEMMA CountStep ==
  StructInv /\ MutexSafe /\ HomeInv /\ LocalCountExact /\ [Next]_vars
    => LocalCountExact'
<1> SUFFICES ASSUME StructInv, MutexSafe, HomeInv, LocalCountExact, [Next]_vars
             PROVE  LocalCountExact'
  OBVIOUS
<1> USE PoolAssumption, WorkersOf, PoolOf
<1>1. CASE Quiet
  <2> SUFFICES ASSUME NEW p \in Pool, phase'[p] # "freed"
               PROVE  SameSets(p) /\ num_local_jobs'[p] = num_local_jobs[p]
                        /\ phase[p] # "freed"
    BY DEF LocalCountExact, SameSets
  <2>1. Counting(p)' = Counting(p) /\ Uncounting(p)' = Uncounting(p)
    BY <1>1 DEF Quiet, BusyPc, Counting, Uncounting
  <2> QED
    BY <1>1, <2>1 DEF Quiet, SameSets, LocalSlots
<1>2. ASSUME NEW t \in Thread, AddLocal(t) PROVE LocalCountExact'
  <2>0. t \in Worker /\ tp[t] = t[1] /\ t[1] \in Pool
    BY <1>2 DEF AddLocal, StructInv, PlaceInv, AddPc, HomeInv
  <2> PICK p \in Pool : p = t[1]
    BY <2>0
  <2> PICK n \in Int : n = Len(local_jobs[t]) + 1
    BY <2>0 DEF StructInv, QueueType
  <2>1. /\ t \in Worker /\ p \in Pool /\ t \in Workers(p) /\ tp[t] = p
        /\ pc[t] = "enqueue" /\ Inside(t, p)
    BY <1>2, <2>0 DEF AddLocal, Inside
  <2>2. /\ pc' = [pc EXCEPT ![t] = "count"] /\ tp' = tp /\ phase' = phase
        /\ num_local_jobs' = num_local_jobs
        /\ local_jobs' = [local_jobs EXCEPT ![t] = Append(@, add[t])]
        /\ add[t] \in Job /\ n \in 1 .. MaxJobs
    BY <1>2, <2>1 DEF AddLocal, Goto, Full, StructInv, PlaceInv, AddPc, QueueType
  <2>3. ASSUME NEW q \in Pool \ {p} PROVE SameSets(q)
    <3>1. \A u \in Workers(q) : u # t
      OBVIOUS
    <3>2. LocalSlots(q)' = LocalSlots(q)
      BY <2>2, <3>1 DEF LocalSlots, StructInv, QueueType
    <3>3. Counting(q)' = Counting(q) /\ Uncounting(q)' = Uncounting(q)
      BY <2>1, <2>2, <2>3, <3>1 DEF Counting, Uncounting, StructInv, ThreadType
    <3> QED
      BY <3>2, <3>3 DEF SameSets
  <2>4. Counting(p)' = {t} /\ Counting(p) = {}
    BY <2>1, <2>2, Alone DEF Counting, StructInv, ThreadType
  <2>5. Uncounting(p)' = Uncounting(p)
    BY <2>1, <2>2 DEF Uncounting, StructInv, ThreadType
  <2>6. LocalSlots(p)' = LocalSlots(p) \cup {<<t, n>>} /\ <<t, n>> \notin LocalSlots(p)
    <3>1. /\ local_jobs'[t] = Append(local_jobs[t], add[t])
          /\ \A u \in Workers(p) : u # t => local_jobs'[u] = local_jobs[u]
      BY <2>1, <2>2 DEF StructInv, QueueType
    <3>2. local_jobs[t] \in Seq(Job) /\ Len(local_jobs'[t]) = n
      BY <2>1, <2>2, <3>1 DEF StructInv, QueueType
    <3> QED
      BY <2>1, <2>2, <3>1, <3>2 DEF LocalSlots
  <2>7. Cardinality(LocalSlots(p)') = Cardinality(LocalSlots(p)) + 1
    BY <2>1, <2>6, SlotsFinite, FS_AddElement
  <2>8. Cardinality(Counting(p)') = 1 /\ Cardinality(Counting(p)) = 0
    BY <2>4, FS_EmptySet, FS_Singleton
  <2>9. /\ Uncounting(p) = {} /\ Cardinality(Uncounting(p)) = 0
        /\ Cardinality(LocalSlots(p)) \in Nat /\ num_local_jobs[p] \in Int
    <3>1. Uncounting(p) = {}
      BY <2>1, Alone DEF Uncounting
    <3> QED
      BY <3>1, <2>1, FS_EmptySet, SlotsFinite DEF StructInv, PoolType
  <2>10. \A q \in Pool : q # p => SameSets(q)
    BY <2>3
  <2>11. phase' = phase /\ num_local_jobs' = num_local_jobs
    BY <2>2
  <2> SUFFICES ASSUME NEW q \in Pool, phase[q] # "freed"
               PROVE  num_local_jobs[q] + Cardinality(Counting(q)')
                        = Cardinality(LocalSlots(q)') + Cardinality(Uncounting(q)')
    BY <2>11 DEF LocalCountExact
  <2>12. num_local_jobs[q] + Cardinality(Counting(q))
           = Cardinality(LocalSlots(q)) + Cardinality(Uncounting(q))
    BY DEF LocalCountExact
  <2>13. CASE q = p
    BY <2>12, <2>13, <2>5, <2>7, <2>8, <2>9
  <2>14. CASE q # p
    BY <2>12, <2>14, <2>10 DEF SameSets
  <2> QED
    BY <2>13, <2>14
<1>3. ASSUME NEW t \in Thread, AddCount(t) PROVE LocalCountExact'
  <2> PICK p \in Pool : p = tp[t]
    BY <1>3 DEF AddCount, StructInv, PlaceInv, AddPc
  <2>1. p \in Pool /\ pc[t] = "count" /\ Inside(t, p)
    BY <1>3 DEF AddCount, Inside
  <2>2. /\ pc' = [pc EXCEPT ![t] = "broadcast"] /\ tp' = tp /\ phase' = phase
        /\ local_jobs' = local_jobs
        /\ num_local_jobs' = [num_local_jobs EXCEPT ![p] = @ + 1]
    BY <1>3 DEF AddCount, Goto
  <2>3. ASSUME NEW q \in Pool \ {p} PROVE SameSets(q)
    BY <2>1, <2>2, <2>3 DEF SameSets, LocalSlots, Counting, Uncounting, StructInv, ThreadType
  <2>4. Counting(p)' = {} /\ Counting(p) = {t}
    BY <2>1, <2>2, Alone DEF Counting, StructInv, ThreadType
  <2>5. Uncounting(p)' = Uncounting(p) /\ LocalSlots(p)' = LocalSlots(p)
    BY <2>1, <2>2 DEF Uncounting, LocalSlots, StructInv, ThreadType
  <2>6. Cardinality(Counting(p)') = 0 /\ Cardinality(Counting(p)) = 1
    BY <2>4, FS_EmptySet, FS_Singleton
  <2>7. /\ num_local_jobs[p] \in Int /\ num_local_jobs'[p] = num_local_jobs[p] + 1
        /\ \A q \in Pool : q # p => num_local_jobs'[q] = num_local_jobs[q]
    BY <2>1, <2>2 DEF StructInv, PoolType
  <2>8. \A q \in Pool : q # p => SameSets(q)
    BY <2>3
  <2> QED
    BY <2>1, <2>2, <2>5, <2>6, <2>7, <2>8 DEF LocalCountExact, SameSets
<1>4. ASSUME NEW t \in Thread, NEW l \in Label \ {"count", "uncount"},
             pc[t] \notin {"count", "uncount"}, pc' = [pc EXCEPT ![t] = l],
             \A u \in Thread \ {t} : tp'[u] = tp[u],
             UNCHANGED <<phase, local_jobs, num_local_jobs>>
      PROVE  LocalCountExact'
  <2> SUFFICES ASSUME NEW p \in Pool PROVE SameSets(p)
    BY <1>4 DEF LocalCountExact, SameSets
  <2>1. pc'[t] = l /\ \A u \in Thread \ {t} : pc'[u] = pc[u]
    BY <1>4 DEF StructInv, ThreadType
  <2> QED
    BY <1>4, <2>1 DEF SameSets, LocalSlots, Counting, Uncounting
<1>5. ASSUME NEW t \in Thread, AddGlobal(t) PROVE LocalCountExact'
  <2>1. "broadcast" \in Label \ {"count", "uncount"}
    BY DEF Label
  <2> QED
    BY <1>4, <1>5, <2>1 DEF AddGlobal, Goto
<1>6. ASSUME NEW t \in Thread, NEW p \in Pool, NEW j \in Job, AddCall(t, p, j)
      PROVE  LocalCountExact'
  <2>1. "add_lock" \in Label \ {"count", "uncount"}
    BY DEF Label
  <2>2. pc[t] \notin {"count", "uncount"} /\ pc' = [pc EXCEPT ![t] = "add_lock"]
    BY <1>6 DEF AddCall, Home, Goto
  <2>3. \A u \in Thread \ {t} : tp'[u] = tp[u]
    BY <1>6 DEF AddCall, StructInv, ThreadType
  <2>4. UNCHANGED <<phase, local_jobs, num_local_jobs>>
    BY <1>6 DEF AddCall, qvars
  <2> QED
    BY <1>4, <2>1, <2>2, <2>3, <2>4
<1>7. ASSUME NEW w \in Worker, Run(w) PROVE LocalCountExact'
  <2>1. "run" \in Label \ {"count", "uncount"}
    BY DEF Label
  <2> QED
    BY <1>4, <1>7, <2>1 DEF Run, Goto, qvars
<1>8. ASSUME NEW w \in Worker, SeekGlobal(w) PROVE LocalCountExact'
  <2>1. "got" \in Label \ {"count", "uncount"}
    BY DEF Label
  <2> QED
    BY <1>4, <1>8, <2>1 DEF SeekGlobal, Goto
<1>9. ASSUME NEW w \in Worker, SeekLocal(w) PROVE LocalCountExact'
  <2> PICK p \in Pool : p = w[1]
    OBVIOUS
  <2>1. p \in Pool /\ w \in Workers(p) /\ pc[w] = "seek" /\ Inside(w, p)
    BY <1>9 DEF SeekLocal, Inside
  <2>2. PICK v \in LocalSource(w) : local_jobs' = [local_jobs EXCEPT ![v] = Tail(@)]
    BY <1>9 DEF SeekLocal
  <2>3. v \in Workers(p) /\ v \in Worker /\ local_jobs[v] # <<>>
    BY <2>1, <2>2 DEF LocalSource, Victim
  <2> PICK n \in Int : n = Len(local_jobs[v])
    BY <2>3 DEF StructInv, QueueType
  <2>4. /\ pc' = [pc EXCEPT ![w] = "uncount"] /\ tp' = tp /\ phase' = phase
        /\ num_local_jobs' = num_local_jobs
    BY <1>9 DEF SeekLocal, Goto
  <2>5. /\ local_jobs'[v] = Tail(local_jobs[v])
        /\ \A u \in Worker : u # v => local_jobs'[u] = local_jobs[u]
        /\ pc'[w] = "uncount" /\ \A u \in Thread : u # w => pc'[u] = pc[u]
    BY <2>2, <2>3, <2>4 DEF StructInv, QueueType, ThreadType
  <2>6. /\ local_jobs[v] \in Seq(Job) /\ n \in 1 .. MaxJobs
        /\ Len(local_jobs'[v]) = n - 1
    BY <2>3, <2>5 DEF StructInv, QueueType
  <2>7. ASSUME NEW q \in Pool, q # p PROVE SameSets(q)
    <3>1. \A u \in Workers(q) : u # v /\ u # w
      BY <2>1, <2>3, <2>7
    <3> QED
      BY <2>1, <2>4, <2>5, <3>1 DEF SameSets, LocalSlots, Counting, Uncounting
  <2>8. Counting(p)' = Counting(p)
    BY <2>1, <2>4, <2>5 DEF Counting
  <2>9. Uncounting(p)' = {w} /\ Uncounting(p) = {}
    BY <2>1, <2>5, Alone DEF Uncounting
  <2>10. /\ LocalSlots(p)' = LocalSlots(p) \ {<<v, n>>}
         /\ <<v, n>> \in LocalSlots(p)
    <3>1. \A u \in Workers(p), i \in 1 .. MaxJobs :
            i <= Len(local_jobs'[u]) <=> i <= Len(local_jobs[u]) /\ <<u, i>> # <<v, n>>
      <4>1. \A i \in 1 .. MaxJobs : i <= n - 1 <=> i <= n /\ i # n
        BY <2>6
      <4>2. \A i \in 1 .. MaxJobs :
              i <= Len(local_jobs'[v]) <=> i <= Len(local_jobs[v]) /\ <<v, i>> # <<v, n>>
        BY <2>6, <4>1
      <4>3. \A u \in Workers(p), i \in 1 .. MaxJobs : u # v =>
              local_jobs'[u] = local_jobs[u] /\ <<u, i>> # <<v, n>>
        BY <2>1, <2>5
      <4> QED
        BY <4>2, <4>3
    <3>2. \A u \in Workers(p), i \in 1 .. MaxJobs :
            <<u, i>> \in LocalSlots(p)' <=> <<u, i>> \in LocalSlots(p) \ {<<v, n>>}
      BY <3>1 DEF LocalSlots
    <3>3. /\ LocalSlots(p) \subseteq Workers(p) \X (1 .. MaxJobs)
          /\ LocalSlots(p)' \subseteq Workers(p) \X (1 .. MaxJobs)
      BY DEF LocalSlots
    <3>4. <<v, n>> \in LocalSlots(p)
      BY <2>3, <2>6 DEF LocalSlots
    <3> QED
      BY <3>2, <3>3, <3>4
  <2>11. /\ Cardinality(LocalSlots(p)') = Cardinality(LocalSlots(p)) - 1
         /\ Cardinality(LocalSlots(p)) \in Nat
    <3>1. IsFiniteSet(LocalSlots(p)) /\ Cardinality(LocalSlots(p)) \in Nat
      BY SlotsFinite
    <3>2. Cardinality(LocalSlots(p) \ {<<v, n>>}) = Cardinality(LocalSlots(p)) - 1
      BY <2>10, <3>1, FS_RemoveElement
    <3> QED
      BY <2>10, <3>1, <3>2
  <2>12. Cardinality(Uncounting(p)') = 1 /\ Cardinality(Uncounting(p)) = 0
    BY <2>9, FS_EmptySet, FS_Singleton
  <2>13. num_local_jobs[p] \in Int
    BY <2>1 DEF StructInv, PoolType
  <2>14. Cardinality(Counting(p)) = 0
    <3>1. Counting(p) = {}
      BY <2>1, Alone DEF Counting
    <3> QED
      BY <3>1, FS_EmptySet
  <2> QED
    BY <2>1, <2>4, <2>7, <2>8, <2>11, <2>12, <2>13, <2>14 DEF LocalCountExact, SameSets
<1>10. ASSUME NEW w \in Worker, SeekUncount(w) PROVE LocalCountExact'
  <2> PICK p \in Pool : p = w[1]
    OBVIOUS
  <2>1. p \in Pool /\ w \in Workers(p) /\ pc[w] = "uncount" /\ Inside(w, p)
    BY <1>10 DEF SeekUncount, Inside
  <2>2. /\ pc'[w] = "got" /\ \A u \in Thread : u # w => pc'[u] = pc[u]
        /\ tp' = tp /\ phase' = phase /\ local_jobs' = local_jobs
    BY <1>10 DEF SeekUncount, Goto, StructInv, ThreadType
  <2>3. /\ num_local_jobs[p] \in Int /\ num_local_jobs'[p] = num_local_jobs[p] - 1
        /\ \A q \in Pool : q # p => num_local_jobs'[q] = num_local_jobs[q]
    BY <1>10, <2>1 DEF SeekUncount, StructInv, PoolType
  <2>4. \A q \in Pool : q # p => SameSets(q)
    BY <2>1, <2>2 DEF SameSets, LocalSlots, Counting, Uncounting
  <2>5. Counting(p)' = Counting(p) /\ LocalSlots(p)' = LocalSlots(p)
    BY <2>1, <2>2 DEF Counting, LocalSlots
  <2>6. Uncounting(p)' = {} /\ Uncounting(p) = {w}
    BY <2>1, <2>2, Alone DEF Uncounting
  <2>7. /\ Cardinality(Uncounting(p)') = 0 /\ Cardinality(Uncounting(p)) = 1
        /\ Cardinality(LocalSlots(p)) \in Nat
    BY <2>1, <2>6, FS_EmptySet, FS_Singleton, SlotsFinite
  <2>8. Cardinality(Counting(p)) = 0
    <3>1. Counting(p) = {}
      BY <2>1, Alone DEF Counting
    <3> QED
      BY <3>1, FS_EmptySet
  <2> QED
    BY <2>1, <2>2, <2>3, <2>4, <2>5, <2>7, <2>8 DEF LocalCountExact, SameSets
<1>11. ASSUME NEW c \in Client, DestroyFree(c) PROVE LocalCountExact'
  <2> SUFFICES ASSUME NEW q \in Pool, phase'[q] # "freed"
               PROVE  /\ SameSets(q) /\ phase[q] # "freed"
                      /\ num_local_jobs'[q] = num_local_jobs[q]
    BY DEF LocalCountExact, SameSets
  <2>1. tp[c] \in Pool /\ phase' = [phase EXCEPT ![tp[c]] = "freed"] /\ c \in Thread
    BY <1>11 DEF DestroyFree, StructInv, DestroyInv, OwnerInv, DestroyPc, LoopPc, Thread
  <2>2. q # tp[c] /\ phase[q] # "freed"
    BY <2>1 DEF StructInv, PoolType
  <2>3. \A w \in Workers(q) : w \notin Workers(tp[c])
    BY <2>1, <2>2
  <2>4. \A w \in Workers(q) : local_jobs'[w] = local_jobs[w]
    BY <1>11, <2>3 DEF DestroyFree
  <2>5. /\ pc[c] = "d_cancel" /\ pc'[c] = "idle"
        /\ \A t \in Thread : t # c => pc'[t] = pc[t] /\ tp'[t] = tp[t]
    BY <1>11, <2>1 DEF DestroyFree, Goto, StructInv, ThreadType
  <2>6. Counting(q)' = Counting(q) /\ Uncounting(q)' = Uncounting(q)
    BY <2>2, <2>5 DEF Counting, Uncounting
  <2>7. LocalSlots(q)' = LocalSlots(q)
    BY <2>4 DEF LocalSlots
  <2> QED
    BY <1>11, <2>2, <2>6, <2>7 DEF DestroyFree, SameSets
<1> QED
  BY <1>1, <1>2, <1>3, <1>5, <1>6, <1>7, <1>8, <1>9, <1>10, <1>11, QuietOrLoud DEF Loud

\* Under the counter's invariant, a worker takes a global job only when no
\* local queue of its pool holds one.
LEMMA LocalFirstStep ==
  StructInv /\ MutexSafe /\ LocalCountExact /\ [Next]_vars =>
    \A p \in Pool : (jobs[p] # <<>> /\ jobs'[p] = Tail(jobs[p]) /\ phase'[p] # "freed")
      => \A v \in Workers(p) : local_jobs[v] = <<>>
<1> SUFFICES ASSUME StructInv, MutexSafe, LocalCountExact, [Next]_vars,
                    NEW p \in Pool, jobs[p] # <<>>, jobs'[p] = Tail(jobs[p]),
                    phase'[p] # "freed"
             PROVE  \A v \in Workers(p) : local_jobs[v] = <<>>
  OBVIOUS
<1> USE PoolAssumption, WorkersOf, PoolOf
<1>1. /\ jobs[p] \in Seq(Job) /\ jobs'[p] # jobs[p]
      /\ Len(jobs[p]) \in Nat /\ Len(jobs'[p]) = Len(jobs[p]) - 1
  BY DEF StructInv, QueueType
<1>2. ASSUME NEW t \in Thread, AddGlobal(t) PROVE FALSE
  <2>1. tp[t] \in Pool /\ add[t] \in Job
    BY <1>2 DEF AddGlobal, StructInv, PlaceInv, AddPc
  <2>2. jobs'[p] = IF p = tp[t] THEN Append(jobs[p], add[t]) ELSE jobs[p]
    BY <1>2, <2>1 DEF AddGlobal, StructInv, QueueType
  <2>3. Len(Append(jobs[p], add[t])) = Len(jobs[p]) + 1
    BY <1>1, <2>1
  <2>4. Len(jobs'[p]) = Len(jobs[p]) + 1
    BY <1>1, <2>2, <2>3
  <2> QED
    BY <1>1, <2>4
<1>3. ASSUME NEW c \in Client, DestroyFree(c) PROVE FALSE
  <2>1. jobs'[p] = jobs[p] \/ phase'[p] = "freed"
    BY <1>3 DEF DestroyFree, StructInv, QueueType, PoolType
  <2> QED
    BY <1>1, <2>1
<1>4. ASSUME NEW w \in Worker, SeekGlobal(w) PROVE \A v \in Workers(p) : local_jobs[v] = <<>>
  <2>1. w[1] = p
    <3>1. p # w[1] => jobs'[p] = jobs[p]
      BY <1>4 DEF SeekGlobal, StructInv, QueueType
    <3> QED
      BY <1>1, <3>1
  <2> QED
    BY <1>4, <2>1, NoSource DEF SeekGlobal
<1>5. ASSUME UNCHANGED jobs PROVE FALSE
  BY <1>1, <1>5
<1>6. CASE Quiet
  BY <1>5, <1>6 DEF Quiet
<1>7. CASE Loud
  BY <1>2, <1>3, <1>4, <1>5, <1>7
  DEF Loud, AddLocal, AddCount, AddCall, SeekLocal, SeekUncount, Run, qvars
<1> QED
  BY <1>6, <1>7, QuietOrLoud

-----------------------------------------------------------------------------
\* A step after which no pool has more work, no other worker goes to sleep,
\* and whoever has queued a job still has to broadcast.
Stays ==
  /\ \A p \in Pool : HasWork(p)' => HasWork(p)
  /\ \A w \in Worker : pc'[w] \in {"nojob", "wait"} => pc'[w] = pc[w]
  /\ \A t \in Thread : pc[t] \in {"count", "broadcast"} =>
       pc'[t] \in {"count", "broadcast"} /\ tp'[t] = tp[t]

LEMMA StaysAwake ==
  ASSUME StructInv, MutexSafe, MutexSafe', NoLostWakeup, Stays
  PROVE  NoLostWakeup'
<1> SUFFICES ASSUME NEW w \in Worker, HasWork(w[1])'
             PROVE  /\ pc'[w] # "nojob"
                    /\ pc'[w] = "wait" => \E t \in Thread :
                         mtx'[w[1]] = t /\ pc'[t] \in {"count", "broadcast"}
  BY DEF NoLostWakeup
<1>1. w[1] \in Pool /\ HasWork(w[1])
  BY PoolOf DEF Stays
<1>2. pc'[w] # "nojob"
  BY <1>1 DEF Stays, NoLostWakeup
<1>3. ASSUME pc'[w] = "wait"
      PROVE  \E t \in Thread : mtx'[w[1]] = t /\ pc'[t] \in {"count", "broadcast"}
  <2>1. PICK t \in Thread : mtx[w[1]] = t /\ pc[t] \in {"count", "broadcast"}
    BY <1>1, <1>3 DEF Stays, NoLostWakeup
  <2>2. tp[t] = w[1]
    BY <1>1, <2>1 DEF MutexSafe, Inside
  <2>3. pc'[t] \in {"count", "broadcast"} /\ tp'[t] = w[1]
    BY <2>1, <2>2 DEF Stays
  <2>4. Inside(t, w[1])'
    BY <2>3 DEF Inside
  <2> QED
    BY <1>1, <2>3, <2>4 DEF MutexSafe
<1> QED
  BY <1>2, <1>3

\* A worker sleeps only while there is nothing to do, or a broadcast to come.
LEMMA WakeupStep ==
  StructInv /\ MutexSafe /\ MutexSafe' /\ HomeInv /\ LocalCountExact /\ NoLostWakeup
    /\ [Next]_vars => NoLostWakeup'
<1> SUFFICES ASSUME StructInv, MutexSafe, MutexSafe', HomeInv, LocalCountExact,
                    NoLostWakeup, [Next]_vars
             PROVE  NoLostWakeup'
  OBVIOUS
<1> USE PoolAssumption, WorkersOf, PoolOf, Worker0
<1>1. ASSUME NEW c \in Client, NEW p \in Pool, Create(c, p) PROVE NoLostWakeup'
  <2>1. \A q \in Pool : HasWork(q)' => HasWork(q)
    BY <1>1 DEF Create, HasWork, qvars, StructInv, QueueType
  <2>2. pc[W0(p)] = "unborn"
    BY <1>1 DEF Create, StructInv, PhaseInv, NoneInv
  <2>3. Stays
    BY <1>1, <2>1, <2>2 DEF Create, Goto, Stays, StructInv, ThreadType, Thread
  <2> QED
    BY <2>3, StaysAwake
<1>2. ASSUME NEW c \in Client, NEW p \in Pool, CreateQueueFails(c, p) PROVE NoLostWakeup'
  <2>1. \A q \in Pool : HasWork(q)' => HasWork(q)
    BY <1>2 DEF CreateQueueFails, HasWork, qvars, StructInv, QueueType
  <2>2. Stays
    BY <1>2, <2>1 DEF CreateQueueFails, Goto, Stays, StructInv, ThreadType, Thread
  <2> QED
    BY <2>2, StaysAwake
<1>3. ASSUME NEW c \in Client, NEW p \in Pool, CreateFirstFails(c, p) PROVE NoLostWakeup'
  <2>1. \A q \in Pool : HasWork(q)' => HasWork(q)
    BY <1>3 DEF CreateFirstFails, Refused, HasWork, qvars, StructInv, QueueType
  <2>2. pc[W0(p)] = "unborn"
    BY <1>3 DEF CreateFirstFails, Refused, StructInv, PhaseInv, NoneInv
  <2>3. Stays
    BY <1>3, <2>1, <2>2 DEF CreateFirstFails, Refused, Goto, Stays, StructInv, ThreadType, Thread
  <2> QED
    BY <2>3, StaysAwake
<1>4. ASSUME NEW c \in Client, NEW p \in Pool, DestroyCall(c, p) PROVE NoLostWakeup'
  <2>1. \A q \in Pool : HasWork(q)' => HasWork(q)
    BY <1>4 DEF DestroyCall, HasWork, qvars, StructInv, QueueType
  <2>2. Stays
    BY <1>4, <2>1 DEF DestroyCall, Goto, Stays, StructInv, ThreadType, Thread
  <2> QED
    BY <2>2, StaysAwake
<1>5. ASSUME NEW c \in Client, DestroyFuture(c) PROVE NoLostWakeup'
  <2>1. \A q \in Pool : HasWork(q)' => HasWork(q)
    BY <1>5 DEF DestroyFuture, HasWork, qvars, StructInv, QueueType
  <2>2. Stays
    BY <1>5, <2>1 DEF DestroyFuture, Goto, Stays, StructInv, ThreadType, Thread
  <2> QED
    BY <2>2, StaysAwake
<1>6. ASSUME NEW c \in Client, DestroyCancel(c) PROVE NoLostWakeup'
  <2>1. \A q \in Pool : HasWork(q)' => HasWork(q)
    BY <1>6 DEF DestroyCancel, Refused, HasWork, qvars, StructInv, QueueType
  <2>2. Stays
    BY <1>6, <2>1 DEF DestroyCancel, Refused, Goto, Stays, StructInv, ThreadType, Thread
  <2> QED
    BY <2>2, StaysAwake
<1>6u. ASSUME NEW c \in Client, DestroyUndefined(c) PROVE NoLostWakeup'
  <2>1. \A q \in Pool : HasWork(q)' => HasWork(q)
    BY <1>6u DEF DestroyUndefined, HasWork, qvars, StructInv, QueueType
  <2>2. Stays
    BY <1>6u, <2>1 DEF DestroyUndefined, Goto, Stays, StructInv, ThreadType, Thread
  <2> QED
    BY <2>2, StaysAwake
<1>7. ASSUME NEW c \in Client, DestroySkip(c) PROVE NoLostWakeup'
  <2>1. \A q \in Pool : HasWork(q)' => HasWork(q)
    BY <1>7 DEF DestroySkip, Refused, HasWork, qvars, StructInv, QueueType
  <2>2. At(c) \in Thread /\ pc[c] \in LoopPc /\ ~LoopEnds(c)
    BY <1>7, AtIndex DEF DestroySkip, Refused, LoopPc, LoopEnds, StructInv, DestroyInv, IndexInv, Index
  <2>3. Stays
    BY <1>7, <2>1, <2>2 DEF DestroySkip, Refused, Goto, Stays, StructInv, ThreadType, Thread
  <2> QED
    BY <2>3, StaysAwake
<1>8. ASSUME NEW c \in Client, DestroyJoin(c) PROVE NoLostWakeup'
  <2>1. \A q \in Pool : HasWork(q)' => HasWork(q)
    BY <1>8 DEF DestroyJoin, HasWork, qvars, StructInv, QueueType
  <2>2. At(c) \in Thread /\ pc[c] \in LoopPc /\ ~LoopEnds(c)
    BY <1>8, AtIndex DEF DestroyJoin, LoopPc, LoopEnds, StructInv, DestroyInv, IndexInv, Index
  <2>3. Stays
    BY <1>8, <2>1, <2>2 DEF DestroyJoin, Goto, Stays, StructInv, ThreadType, Thread
  <2> QED
    BY <2>3, StaysAwake
<1>9. ASSUME NEW c \in Client, DestroyFree(c) PROVE NoLostWakeup'
  <2>1. \A q \in Pool : HasWork(q)' => HasWork(q)
    BY <1>9 DEF DestroyFree, HasWork, qvars, StructInv, QueueType
  <2>2. Stays
    BY <1>9, <2>1 DEF DestroyFree, Goto, Stays, StructInv, ThreadType, Thread
  <2> QED
    BY <2>2, StaysAwake
<1>10. ASSUME NEW p \in Pool, CreateWorker(p) PROVE NoLostWakeup'
  <2>1. PICK u \in Workers(p), l \in {"loop", "failed", "nothread"} :
          pc[u] = "unborn" /\ pc' = [pc EXCEPT ![u] = l]
    BY <1>10 DEF CreateWorker, Goto, Workers, Index
  <2>2. Stays
    BY <1>10, <2>1 DEF CreateWorker, qvars, Stays, HasWork, StructInv, ThreadType
  <2> QED
    BY <2>2, StaysAwake
<1>11. ASSUME NEW p \in Pool, CreatorDone(p) PROVE NoLostWakeup'
  <2>1. \A q \in Pool : HasWork(q)' => HasWork(q)
    BY <1>11 DEF CreatorDone, HasWork, qvars, StructInv, QueueType
  <2>2. Stays
    BY <1>11, <2>1 DEF CreatorDone, Goto, Stays, StructInv, ThreadType, Thread
  <2> QED
    BY <2>2, StaysAwake
<1>12. ASSUME NEW t \in Thread, NEW p \in Pool, NEW j \in Job, AddCall(t, p, j) PROVE NoLostWakeup'
  <2>1. \A q \in Pool : HasWork(q)' => HasWork(q)
    BY <1>12 DEF AddCall, HasWork, qvars, Home, StructInv, QueueType
  <2>2. Stays
    BY <1>12, <2>1 DEF AddCall, Goto, Stays, Home, StructInv, ThreadType, Thread
  <2> QED
    BY <2>2, StaysAwake
<1>13. ASSUME NEW t \in Thread, AddLock(t) PROVE NoLostWakeup'
  <2>1. \A q \in Pool : HasWork(q)' => HasWork(q)
    BY <1>13 DEF AddLock, HasWork, qvars, StructInv, QueueType
  <2>2. Stays
    BY <1>13, <2>1 DEF AddLock, Goto, Stays, StructInv, ThreadType, Thread
  <2> QED
    BY <2>2, StaysAwake
<1>14. ASSUME NEW t \in Thread, AddLocal(t) PROVE NoLostWakeup'
  <2> PICK p \in Pool : p = tp[t]
    BY <1>14 DEF AddLocal, StructInv, PlaceInv, AddPc
  <2>1. Inside(t, p) /\ pc[t] = "enqueue" /\ mtx[p] = t
    BY <1>14, Alone DEF AddLocal, Inside
  <2>2. /\ pc'[t] = "count" /\ \A u \in Thread : u # t => pc'[u] = pc[u]
        /\ mtx' = mtx
    BY <1>14 DEF AddLocal, Goto, StructInv, ThreadType
  <2>3. \A q \in Pool : q # p /\ HasWork(q)' => HasWork(q)
    <3>1. t[1] = p /\ jobs' = jobs
      BY <1>14 DEF AddLocal, HomeInv, StructInv
    <3>2. \A q \in Pool : q # p => \A v \in Workers(q) : local_jobs'[v] = local_jobs[v]
      BY <1>14, <3>1 DEF AddLocal, StructInv, QueueType
    <3> QED
      BY <3>1, <3>2 DEF HasWork
  <2>4. \A v \in Workers(p) : v # t => pc[v] # "nojob"
    BY <2>1, Alone DEF Inside
  <2>5. ASSUME NEW v \in Worker, HasWork(v[1])'
        PROVE  /\ pc'[v] # "nojob"
               /\ pc'[v] = "wait" => \E u \in Thread :
                    mtx'[v[1]] = u /\ pc'[u] \in {"count", "broadcast"}
    <3>1. CASE v[1] = p
      BY <2>1, <2>2, <2>4, <3>1
    <3>2. CASE v[1] # p
      BY <2>1, <2>2, <2>3, <2>5, <3>2 DEF NoLostWakeup
    <3> QED
      BY <3>1, <3>2
  <2> QED
    BY <2>5 DEF NoLostWakeup
<1>15. ASSUME NEW t \in Thread, AddCount(t) PROVE NoLostWakeup'
  <2>1. \A q \in Pool : HasWork(q)' => HasWork(q)
    BY <1>15 DEF AddCount, HasWork, qvars, StructInv, QueueType
  <2>2. Stays
    BY <1>15, <2>1 DEF AddCount, Goto, Stays, StructInv, ThreadType, Thread
  <2> QED
    BY <2>2, StaysAwake
<1>16. ASSUME NEW t \in Thread, AddGlobal(t) PROVE NoLostWakeup'
  <2> PICK p \in Pool : p = tp[t]
    BY <1>16 DEF AddGlobal, StructInv, PlaceInv, AddPc
  <2>1. Inside(t, p) /\ pc[t] = "enqueue" /\ mtx[p] = t
    BY <1>16, Alone DEF AddGlobal, Inside
  <2>2. /\ pc'[t] = "broadcast" /\ \A u \in Thread : u # t => pc'[u] = pc[u]
        /\ mtx' = mtx
    BY <1>16 DEF AddGlobal, Goto, StructInv, ThreadType
  <2>3. \A q \in Pool : q # p /\ HasWork(q)' => HasWork(q)
    BY <1>16 DEF AddGlobal, HasWork, StructInv, QueueType
  <2>4. \A v \in Workers(p) : v # t => pc[v] # "nojob"
    BY <2>1, Alone DEF Inside
  <2>5. ASSUME NEW v \in Worker, HasWork(v[1])'
        PROVE  /\ pc'[v] # "nojob"
               /\ pc'[v] = "wait" => \E u \in Thread :
                    mtx'[v[1]] = u /\ pc'[u] \in {"count", "broadcast"}
    <3>1. CASE v[1] = p
      BY <2>1, <2>2, <2>4, <3>1
    <3>2. CASE v[1] # p
      BY <2>1, <2>2, <2>3, <2>5, <3>2 DEF NoLostWakeup
    <3> QED
      BY <3>1, <3>2
  <2> QED
    BY <2>5 DEF NoLostWakeup
<1>17. ASSUME NEW t \in Thread, AddFull(t) PROVE NoLostWakeup'
  <2>1. \A q \in Pool : HasWork(q)' => HasWork(q)
    BY <1>17 DEF AddFull, HasWork, qvars, StructInv, QueueType
  <2>2. Stays
    BY <1>17, <2>1 DEF AddFull, Goto, Stays, StructInv, ThreadType, Thread
  <2> QED
    BY <2>2, StaysAwake
<1>18. ASSUME NEW t \in Thread, AddReturn(t) PROVE NoLostWakeup'
  <2> PICK p \in Pool : p = tp[t]
    BY <1>18 DEF AddReturn, StructInv, PlaceInv, AddPc
  <2>1. Inside(t, p) /\ pc[t] = "broadcast"
    BY <1>18 DEF AddReturn, Inside
  <2>2. \A q \in Pool : HasWork(q)' <=> HasWork(q)
    BY <1>18 DEF AddReturn, HasWork, qvars
  <2>3. \A v \in Workers(p) : pc'[v] # "nojob" /\ pc'[v] # "wait"
    <3>1. \A v \in Workers(p) : v # t => pc[v] # "nojob"
      BY <2>1, Alone DEF Inside
    <3> QED
      BY <1>18, <3>1 DEF AddReturn, Home, Broadcast, Waiting, Thread
  <2>4. /\ \A u \in Thread : u # t /\ u \notin Workers(p) => pc'[u] = pc[u]
        /\ \A u \in Thread : u # t /\ pc[u] # "wait" => pc'[u] = pc[u]
        /\ pc'[t] \notin {"nojob", "wait"}
        /\ \A q \in Pool : q # p => mtx'[q] = mtx[q] /\ mtx[q] # t
    <3>1. \A q \in Pool : q # p => mtx[q] # t
      BY <2>1 DEF MutexSafe, Inside
    <3>2. \A q \in Pool : q # p => mtx'[q] = mtx[q]
      BY <1>18 DEF AddReturn, Unlock, StructInv, PoolType
    <3> QED
      BY <1>18, <3>1, <3>2 DEF AddReturn, Home, Broadcast, Waiting
  <2>5. ASSUME NEW v \in Worker, HasWork(v[1])'
        PROVE  /\ pc'[v] # "nojob"
               /\ pc'[v] = "wait" => \E u \in Thread :
                    mtx'[v[1]] = u /\ pc'[u] \in {"count", "broadcast"}
    <3>1. CASE v[1] = p
      BY <2>3, <3>1
    <3>2. CASE v[1] # p
      <4>1. pc'[v] \in {"nojob", "wait"} => pc'[v] = pc[v]
        BY <2>4, <3>2
      <4>2. HasWork(v[1])
        BY <2>2, <2>5
      <4>3. \A u \in Thread : mtx[v[1]] = u /\ pc[u] \in {"count", "broadcast"}
              => mtx'[v[1]] = u /\ pc'[u] \in {"count", "broadcast"}
        BY <2>4, <3>2
      <4> QED
        BY <4>1, <4>2, <4>3 DEF NoLostWakeup
    <3> QED
      BY <3>1, <3>2
  <2> QED
    BY <2>5 DEF NoLostWakeup
<1>19. ASSUME NEW w \in Worker, TestCancel(w) PROVE NoLostWakeup'
  <2>1. \A q \in Pool : HasWork(q)' => HasWork(q)
    BY <1>19 DEF TestCancel, HasWork, qvars, StructInv, QueueType
  <2>2. Stays
    BY <1>19, <2>1 DEF TestCancel, Goto, Stays, StructInv, ThreadType, Thread
  <2> QED
    BY <2>2, StaysAwake
<1>20. ASSUME NEW w \in Worker, WorkerLock(w) PROVE NoLostWakeup'
  <2>1. \A q \in Pool : HasWork(q)' => HasWork(q)
    BY <1>20 DEF WorkerLock, HasWork, qvars, StructInv, QueueType
  <2>2. Stays
    BY <1>20, <2>1 DEF WorkerLock, Goto, Stays, StructInv, ThreadType, Thread
  <2> QED
    BY <2>2, StaysAwake
<1>21. ASSUME NEW w \in Worker, SeekLocal(w) PROVE NoLostWakeup'
  <2>1. \A q \in Pool : HasWork(q)' => HasWork(q)
    BY <1>21 DEF SeekLocal, HasWork, qvars, LocalSource, Victim, StructInv, QueueType
  <2>2. Stays
    BY <1>21, <2>1 DEF SeekLocal, Goto, Stays, LocalSource, Victim, StructInv, ThreadType, Thread
  <2> QED
    BY <2>2, StaysAwake
<1>22. ASSUME NEW w \in Worker, SeekUncount(w) PROVE NoLostWakeup'
  <2>1. \A q \in Pool : HasWork(q)' => HasWork(q)
    BY <1>22 DEF SeekUncount, HasWork, qvars, StructInv, QueueType
  <2>2. Stays
    BY <1>22, <2>1 DEF SeekUncount, Goto, Stays, StructInv, ThreadType, Thread
  <2> QED
    BY <2>2, StaysAwake
<1>23. ASSUME NEW w \in Worker, SeekGlobal(w) PROVE NoLostWakeup'
  <2>1. \A q \in Pool : HasWork(q)' => HasWork(q)
    BY <1>23 DEF SeekGlobal, HasWork, qvars, StructInv, QueueType
  <2>2. Stays
    BY <1>23, <2>1 DEF SeekGlobal, Goto, Stays, StructInv, ThreadType, Thread
  <2> QED
    BY <2>2, StaysAwake
<1>24. ASSUME NEW w \in Worker, SeekFails(w) PROVE NoLostWakeup'
  <2> DEFINE p == w[1]
  <2>1. ~HasWork(p)' /\ ~HasWork(p)
    BY <1>24, NoSource DEF SeekFails, HasWork, qvars
  <2>2. \A v \in Worker : v # w => pc'[v] = pc[v]
    BY <1>24 DEF SeekFails, Goto, StructInv, ThreadType
  <2>3. \A t \in Thread : pc[t] \in {"count", "broadcast"} => pc'[t] = pc[t]
    BY <1>24 DEF SeekFails, Goto, StructInv, ThreadType
  <2>4. \A q \in Pool : HasWork(q)' <=> HasWork(q)
    BY <1>24 DEF SeekFails, HasWork, qvars
  <2> QED
    BY <1>24, <2>1, <2>2, <2>3, <2>4 DEF SeekFails, NoLostWakeup
<1>25. ASSUME NEW w \in Worker, CondWait(w) PROVE NoLostWakeup'
  <2>1. ~HasWork(w[1])' /\ ~HasWork(w[1])
    BY <1>25 DEF CondWait, NoLostWakeup, HasWork, qvars
  <2>2. \A q \in Pool : HasWork(q)' <=> HasWork(q)
    BY <1>25 DEF CondWait, HasWork, qvars
  <2>3. \A v \in Worker : v # w => pc'[v] = pc[v]
    BY <1>25 DEF CondWait, Goto, StructInv, ThreadType
  <2>4. \A q \in Pool : q # w[1] => mtx'[q] = mtx[q]
    BY <1>25 DEF CondWait, Unlock, StructInv, PoolType
  <2>5. \A t \in Thread : pc[t] \in {"count", "broadcast"} => pc'[t] = pc[t]
    BY <1>25 DEF CondWait, Goto, StructInv, ThreadType
  <2>6. ASSUME NEW v \in Worker, HasWork(v[1])'
        PROVE  /\ pc'[v] # "nojob"
               /\ pc'[v] = "wait" => \E t \in Thread :
                    mtx'[v[1]] = t /\ pc'[t] \in {"count", "broadcast"}
    <3>1. v[1] # w[1] /\ v # w /\ HasWork(v[1])
      BY <2>1, <2>2, <2>6
    <3> QED
      BY <2>3, <2>4, <2>5, <3>1 DEF NoLostWakeup
  <2> QED
    BY <2>6 DEF NoLostWakeup
<1>26. ASSUME NEW w \in Worker, SpuriousWakeup(w) PROVE NoLostWakeup'
  <2>1. \A q \in Pool : HasWork(q)' => HasWork(q)
    BY <1>26 DEF SpuriousWakeup, HasWork, qvars, StructInv, QueueType
  <2>2. Stays
    BY <1>26, <2>1 DEF SpuriousWakeup, Goto, Stays, StructInv, ThreadType, Thread
  <2> QED
    BY <2>2, StaysAwake
<1>27. ASSUME NEW w \in Worker, Run(w) PROVE NoLostWakeup'
  <2>1. \A q \in Pool : HasWork(q)' => HasWork(q)
    BY <1>27 DEF Run, HasWork, qvars, StructInv, QueueType
  <2>2. Stays
    BY <1>27, <2>1 DEF Run, Goto, Stays, StructInv, ThreadType, Thread
  <2> QED
    BY <2>2, StaysAwake
<1>28. ASSUME NEW w \in Worker, JobReturns(w) PROVE NoLostWakeup'
  <2>1. \A q \in Pool : HasWork(q)' => HasWork(q)
    BY <1>28 DEF JobReturns, HasWork, qvars, StructInv, QueueType
  <2>2. Stays
    BY <1>28, <2>1 DEF JobReturns, Goto, Stays, StructInv, ThreadType, Thread
  <2> QED
    BY <2>2, StaysAwake
<1>29. ASSUME NEW w \in Worker, CancelInWait(w) PROVE NoLostWakeup'
  <2>1. \A q \in Pool : HasWork(q)' => HasWork(q)
    BY <1>29 DEF CancelInWait, HasWork, qvars, StructInv, QueueType
  <2>2. Stays
    BY <1>29, <2>1 DEF CancelInWait, Goto, Stays, StructInv, ThreadType, Thread
  <2> QED
    BY <2>2, StaysAwake
<1>30. ASSUME NEW w \in Worker, CancelRelock(w) PROVE NoLostWakeup'
  <2>1. \A q \in Pool : HasWork(q)' => HasWork(q)
    BY <1>30 DEF CancelRelock, HasWork, qvars, StructInv, QueueType
  <2>2. Stays
    BY <1>30, <2>1 DEF CancelRelock, Goto, Stays, StructInv, ThreadType, Thread
  <2> QED
    BY <2>2, StaysAwake
<1>31. ASSUME NEW w \in Worker, Cleanup(w) PROVE NoLostWakeup'
  <2>1. \A q \in Pool : HasWork(q)' => HasWork(q)
    BY <1>31 DEF Cleanup, HasWork, qvars, StructInv, QueueType
  <2>2. Stays
    BY <1>31, <2>1 DEF Cleanup, Goto, Stays, StructInv, ThreadType, Thread
  <2> QED
    BY <2>2, StaysAwake
<1>32. ASSUME NEW w \in Worker, CancelInJob(w) PROVE NoLostWakeup'
  <2>1. \A q \in Pool : HasWork(q)' => HasWork(q)
    BY <1>32 DEF CancelInJob, HasWork, qvars, StructInv, QueueType
  <2>2. Stays
    BY <1>32, <2>1 DEF CancelInJob, Goto, Stays, StructInv, ThreadType, Thread
  <2> QED
    BY <2>2, StaysAwake
<1>33. CASE UNCHANGED vars
  BY <1>33 DEF vars, NoLostWakeup, HasWork
<1> QED
  BY <1>1, <1>2, <1>3, <1>4, <1>5, <1>6, <1>6u, <1>7, <1>8, <1>9, <1>10, <1>11, <1>12, <1>13, <1>14, <1>15, <1>16, <1>17, <1>18, <1>19, <1>20, <1>21, <1>22, <1>23, <1>24, <1>25, <1>26, <1>27, <1>28, <1>29, <1>30, <1>31, <1>32, <1>33
  DEF Next, ClientNext, AddNext, WorkerNext, Terminated

-----------------------------------------------------------------------------
\* The invariant behind the counter: workers stay in their own pool.
LEMMA HomeCount == ASSUME OwnPool PROVE Spec => [](HomeInv /\ LocalCountExact)
<1>1. Init => HomeInv /\ LocalCountExact
  <2> SUFFICES ASSUME Init PROVE HomeInv /\ LocalCountExact
    OBVIOUS
  <2>1. HomeInv
    BY PoolOf DEF Init, HomeInv
  <2>2. ASSUME NEW p \in Pool
        PROVE  Counting(p) = {} /\ Uncounting(p) = {} /\ LocalSlots(p) = {}
    BY PoolAssumption, WorkersOf DEF Init, Counting, Uncounting, LocalSlots, Thread
  <2>3. LocalCountExact
    BY <2>2, FS_EmptySet DEF Init, LocalCountExact
  <2> QED
    BY <2>1, <2>3
<1>2. StructInv /\ HomeInv /\ [Next]_vars => HomeInv'
  BY HomeStep
<1> QED
  BY <1>1, <1>2, CountStep, Structure, MutexHolds, PTL DEF Spec

\* If jobs add to their own pool only, num_local_jobs is exact whenever no
\* thread is between a local queue and the counter, for any number of pools,
\* clients and workers (job_seeking and thrdpool_add under seek_mtx).
THEOREM LocalCountHolds == ASSUME OwnPool PROVE Spec => []LocalCountExact
<1> QED
  BY HomeCount, PTL

\* Then a worker takes a global job only when no local job is left in its pool
\* (job_seeking asks work_steal before the global queue).
THEOREM LocalFirstHolds == ASSUME OwnPool PROVE Spec => LocalFirst
<1>1. StructInv /\ MutexSafe /\ LocalCountExact /\ [Next]_vars =>
        [\A p \in Pool : (jobs[p] # <<>> /\ jobs'[p] = Tail(jobs[p])
                            /\ phase'[p] # "freed")
           => \A w \in Workers(p) : local_jobs[w] = <<>>]_vars
  BY LocalFirstStep
<1> QED
  BY <1>1, HomeCount, Structure, MutexHolds, PTL DEF Spec, LocalFirst

\* And no wakeup is lost: no worker decides to sleep while its pool has a job,
\* and while one sleeps, whoever has queued a job still has to broadcast
\* (pthread_cond_wait and pthread_cond_broadcast under seek_mtx).
THEOREM WakeupHolds == ASSUME OwnPool PROVE Spec => []NoLostWakeup
<1>1. Init => NoLostWakeup
  BY PoolOf DEF Init, NoLostWakeup
<1> QED
  BY <1>1, WakeupStep, HomeCount, Structure, MutexHolds, PTL DEF Spec

-----------------------------------------------------------------------------
(***************************************************************************)
(* The jobs.                                                               *)
(***************************************************************************)
\* At most one element.
Few(S) == \A x, y \in S : x = y

\* A job that is about to be enqueued is new, and nobody else adds it.
AddInv ==
  \A t \in Thread : pc[t] \in PrePc =>
    add[t] \notin accepted /\ \A u \in Thread \ {t} : add[u] # add[t]

\* A worker that has taken a job knows which one.
TakenInv == \A w \in Worker : pc[w] \in {"uncount", "got"} => job[w] \in Job

\* A job is in one place at a time: a queue, a worker's hands, or behind it.
PlaceOf(j) ==
  /\ Few(GlobalAt(j)) /\ Few(LocalAt(j)) /\ Few(TakenBy(j)) /\ ran[j] <= 1
  /\ GlobalAt(j) # {} => LocalAt(j) = {}
  /\ GlobalAt(j) # {} \/ LocalAt(j) # {} => TakenBy(j) = {}
  /\ GlobalAt(j) # {} \/ LocalAt(j) # {} \/ TakenBy(j) # {} => ran[j] = 0

Nowhere(j) == GlobalAt(j) = {} /\ LocalAt(j) = {} /\ TakenBy(j) = {} /\ ran[j] = 0

\* It is nowhere before it is accepted, and never afterwards unless a pool has
\* been freed.
KeptOf(j) ==
  /\ j \notin accepted => Nowhere(j)
  /\ j \in accepted /\ (\A p \in Pool : phase[p] # "freed") => ~Nowhere(j)

JobInv == AddInv /\ TakenInv /\ \A j \in Job : PlaceOf(j) /\ KeptOf(j)

-----------------------------------------------------------------------------
\* The slots of a family of queues that hold job j.
Slots(F, D, j) == {s \in D \X (1 .. MaxJobs) :
                     s[2] <= Len(F[s[1]]) /\ F[s[1]][s[2]] = j}

\* queue_enqueue puts the job into one more slot.
LEMMA SlotsAppend ==
  ASSUME NEW D, NEW F \in [D -> Seq(Job)], NEW d \in D, NEW h \in Job,
         Len(F[d]) < MaxJobs,
         NEW G, G[d] = Append(F[d], h), \A e \in D : e # d => G[e] = F[e], NEW j
  PROVE  /\ j # h => Slots(G, D, j) = Slots(F, D, j)
         /\ Slots(F, D, h) = {} => Slots(G, D, h) = {<<d, Len(F[d]) + 1>>}
<1> USE PoolAssumption
<1>1. /\ G[d] = Append(F[d], h) /\ Len(G[d]) = Len(F[d]) + 1 /\ Len(F[d]) \in Nat
      /\ G[d][Len(F[d]) + 1] = h
      /\ \A i \in 1 .. Len(F[d]) : G[d][i] = F[d][i]
      /\ \A e \in D : e # d => G[e] = F[e]
  OBVIOUS
<1>2. \A e \in D, i \in 1 .. MaxJobs :
        (i <= Len(G[e]) /\ G[e][i] = j)
          <=> \/ i <= Len(F[e]) /\ F[e][i] = j
              \/ e = d /\ i = Len(F[d]) + 1 /\ j = h
  <2> SUFFICES ASSUME NEW e \in D, NEW i \in 1 .. MaxJobs
               PROVE  (i <= Len(G[e]) /\ G[e][i] = j)
                        <=> \/ i <= Len(F[e]) /\ F[e][i] = j
                            \/ e = d /\ i = Len(F[d]) + 1 /\ j = h
    OBVIOUS
  <2>1. CASE e # d
    BY <1>1, <2>1
  <2>2. CASE e = d
    <3>1. i <= Len(G[d]) <=> i <= Len(F[d]) \/ i = Len(F[d]) + 1
      BY <1>1
    <3>2. i <= Len(F[d]) => i \in 1 .. Len(F[d]) /\ i # Len(F[d]) + 1
      BY <1>1
    <3> QED
      BY <1>1, <2>2, <3>1, <3>2
  <2> QED
    BY <2>1, <2>2
<1>3. ASSUME j # h PROVE Slots(G, D, j) = Slots(F, D, j)
  BY <1>2, <1>3 DEF Slots
<1>4. ASSUME Slots(F, D, h) = {} PROVE Slots(G, D, h) = {<<d, Len(F[d]) + 1>>}
  <2>1. \A e \in D, i \in 1 .. MaxJobs : ~(i <= Len(F[e]) /\ F[e][i] = h)
    <3> SUFFICES ASSUME NEW e \in D, NEW i \in 1 .. MaxJobs, i <= Len(F[e]), F[e][i] = h
                 PROVE  FALSE
      OBVIOUS
    <3>1. <<e, i>> \in Slots(F, D, h)
      BY DEF Slots
    <3> QED
      BY <1>4, <3>1
  <2>2. \A e \in D, i \in 1 .. MaxJobs :
          (i <= Len(G[e]) /\ G[e][i] = h) <=> e = d /\ i = Len(F[d]) + 1
    <3> SUFFICES ASSUME NEW e \in D, NEW i \in 1 .. MaxJobs
                 PROVE  (i <= Len(G[e]) /\ G[e][i] = h) <=> e = d /\ i = Len(F[d]) + 1
      OBVIOUS
    <3>1. CASE e # d
      BY <1>1, <2>1, <3>1
    <3>2. CASE e = d
      <4>1. i <= Len(G[d]) <=> i <= Len(F[d]) \/ i = Len(F[d]) + 1
        BY <1>1
      <4>2. i <= Len(F[d]) => i \in 1 .. Len(F[d]) /\ i # Len(F[d]) + 1
        BY <1>1
      <4> QED
        BY <1>1, <2>1, <3>2, <4>1, <4>2
    <3> QED
      BY <3>1, <3>2
  <2>3. Len(F[d]) + 1 \in 1 .. MaxJobs
    BY <1>1
  <2> QED
    BY <2>2, <2>3 DEF Slots
<1> QED
  BY <1>3, <1>4

\* The queues G are the queues F without the first job of queue d.
Dequeued(F, G, D, d) ==
  /\ Len(F[d]) \in 1 .. MaxJobs /\ Len(G[d]) = Len(F[d]) - 1
  /\ \A i \in 1 .. Len(F[d]) - 1 : G[d][i] = F[d][i + 1]
  /\ \A e \in D : e # d => G[e] = F[e]

\* queue_dequeue moves the jobs of one queue up, and its first job out.
LEMMA SlotsTail ==
  ASSUME NEW D, NEW F, NEW G, NEW d \in D, Dequeued(F, G, D, d),
         NEW j, Few(Slots(F, D, j))
  PROVE  /\ Few(Slots(G, D, j))
         /\ j # F[d][1] => (Slots(G, D, j) = {} <=> Slots(F, D, j) = {})
         /\ j = F[d][1] => Slots(F, D, j) # {} /\ Slots(G, D, j) = {}
<1> USE PoolAssumption
<1>1. /\ Len(F[d]) \in Nat /\ Len(F[d]) >= 1 /\ Len(G[d]) = Len(F[d]) - 1
      /\ Len(F[d]) <= MaxJobs
      /\ \A i \in 1 .. Len(F[d]) - 1 : G[d][i] = F[d][i + 1]
      /\ \A e \in D : e # d => G[e] = F[e]
  <2>1. /\ Len(F[d]) \in 1 .. MaxJobs /\ Len(G[d]) = Len(F[d]) - 1
        /\ \A i \in 1 .. Len(F[d]) - 1 : G[d][i] = F[d][i + 1]
        /\ \A e \in D : e # d => G[e] = F[e]
    BY DEF Dequeued
  <2>2. \A n \in 1 .. MaxJobs : n \in Nat /\ n >= 1 /\ n <= MaxJobs
    OBVIOUS
  <2> QED
    BY <2>1, <2>2
<1>2. ASSUME NEW e \in D, NEW i \in 1 .. MaxJobs, <<e, i>> \in Slots(G, D, j)
      PROVE  /\ e = d => <<d, i + 1>> \in Slots(F, D, j)
             /\ e # d => <<e, i>> \in Slots(F, D, j)
  <2>1. i <= Len(G[e]) /\ G[e][i] = j
    BY <1>2 DEF Slots
  <2>2. ASSUME e = d PROVE <<d, i + 1>> \in Slots(F, D, j)
    <3>1. i \in 1 .. Len(F[d]) - 1 /\ i + 1 \in 1 .. MaxJobs
      BY <1>1, <2>1, <2>2
    <3>2. G[d][i] = F[d][i + 1]
      BY <1>1, <3>1
    <3>3. F[d][i + 1] = j /\ i + 1 <= Len(F[d])
      BY <1>1, <2>1, <2>2, <3>1, <3>2
    <3> QED
      BY <3>1, <3>3 DEF Slots
  <2>3. ASSUME e # d PROVE <<e, i>> \in Slots(F, D, j)
    BY <1>1, <2>1, <2>3 DEF Slots
  <2> QED
    BY <2>2, <2>3
<1>3. ASSUME NEW x \in Slots(G, D, j), NEW y \in Slots(G, D, j) PROVE x = y
  <2>1. PICK e \in D, i \in 1 .. MaxJobs : x = <<e, i>>
    BY DEF Slots
  <2>2. PICK f \in D, k \in 1 .. MaxJobs : y = <<f, k>>
    BY DEF Slots
  <2>3. CASE e = d /\ f = d
    <3>1. <<d, i + 1>> = <<d, k + 1>>
      BY <1>2, <2>1, <2>2, <2>3 DEF Few
    <3>2. i + 1 = k + 1
      BY <3>1
    <3> QED
      BY <2>1, <2>2, <2>3, <3>2
  <2>4. CASE e # d /\ f # d
    BY <1>2, <2>1, <2>2, <2>4 DEF Few
  <2>5. CASE e = d /\ f # d
    <3>1. <<d, i + 1>> = <<f, k>>
      BY <1>2, <2>1, <2>2, <2>5 DEF Few
    <3> QED
      BY <2>5, <3>1
  <2>6. CASE e # d /\ f = d
    <3>1. <<d, k + 1>> = <<e, i>>
      BY <1>2, <2>1, <2>2, <2>6 DEF Few
    <3> QED
      BY <2>6, <3>1
  <2> QED
    BY <2>3, <2>4, <2>5, <2>6
<1>4. ASSUME j # F[d][1], NEW s \in Slots(F, D, j) PROVE Slots(G, D, j) # {}
  <2>1. PICK e \in D, i \in 1 .. MaxJobs : s = <<e, i>> /\ i <= Len(F[e]) /\ F[e][i] = j
    BY <1>4 DEF Slots
  <2>2. CASE e = d
    <3>1. i # 1
      BY <1>1, <1>4, <2>1, <2>2
    <3>2. i - 1 \in 1 .. Len(F[d]) - 1 /\ i - 1 \in 1 .. MaxJobs /\ (i - 1) + 1 = i
      BY <1>1, <2>1, <2>2, <3>1
    <3>3. G[d][i - 1] = j /\ i - 1 <= Len(G[d])
      BY <1>1, <2>1, <2>2, <3>2
    <3>4. <<d, i - 1>> \in Slots(G, D, j)
      BY <3>2, <3>3 DEF Slots
    <3> QED
      BY <3>4
  <2>3. CASE e # d
    <3>1. <<e, i>> \in Slots(G, D, j)
      BY <1>1, <2>1, <2>3 DEF Slots
    <3> QED
      BY <3>1
  <2> QED
    BY <2>2, <2>3
<1>5. ASSUME j = F[d][1] PROVE Slots(F, D, j) # {} /\ Slots(G, D, j) = {}
  <2>1. <<d, 1>> \in Slots(F, D, j)
    BY <1>1, <1>5 DEF Slots
  <2>2. ASSUME NEW s \in Slots(G, D, j) PROVE FALSE
    <3>1. PICK e \in D, i \in 1 .. MaxJobs : s = <<e, i>>
      BY <2>2 DEF Slots
    <3>2. CASE e = d
      <4>1. <<d, i + 1>> = <<d, 1>>
        BY <1>2, <2>1, <3>1, <3>2 DEF Few
      <4>2. i + 1 = 1
        BY <4>1
      <4> QED
        BY <4>2
    <3>3. CASE e # d
      <4>1. <<e, i>> = <<d, 1>>
        BY <1>2, <2>1, <3>1, <3>3 DEF Few
      <4> QED
        BY <3>3, <4>1
    <3> QED
      BY <3>2, <3>3
  <2> QED
    BY <2>1, <2>2
<1>6. \A s \in Slots(G, D, j) : Slots(F, D, j) # {}
  <2> SUFFICES ASSUME NEW s \in Slots(G, D, j) PROVE Slots(F, D, j) # {}
    OBVIOUS
  <2>1. PICK e \in D, i \in 1 .. MaxJobs : s = <<e, i>>
    BY DEF Slots
  <2> QED
    BY <1>2, <2>1
<1> QED
  BY <1>3, <1>4, <1>5, <1>6 DEF Few

\* The same for a worker's queue.
LEMMA LocalAppend ==
  ASSUME NEW v \in Worker, NEW h \in Job, local_jobs \in [Worker -> Seq(Job)],
         Len(local_jobs[v]) < MaxJobs, local_jobs'[v] = Append(local_jobs[v], h),
         \A w \in Worker : w # v => local_jobs'[w] = local_jobs[w], NEW j
  PROVE  /\ j # h => LocalAt(j)' = LocalAt(j)
         /\ LocalAt(h) = {} => LocalAt(h)' = {<<v, Len(local_jobs[v]) + 1>>}
<1>1. \A i : LocalAt(i) = Slots(local_jobs, Worker, i) /\ LocalAt(i)' = Slots(local_jobs', Worker, i)
  BY DEF LocalAt, Slots
<1>2. /\ j # h => Slots(local_jobs', Worker, j) = Slots(local_jobs, Worker, j)
      /\ Slots(local_jobs, Worker, h) = {} =>
           Slots(local_jobs', Worker, h) = {<<v, Len(local_jobs[v]) + 1>>}
  BY SlotsAppend
<1> QED
  BY <1>1, <1>2

LEMMA LocalTail ==
  ASSUME NEW v \in Worker, local_jobs \in [Worker -> Seq(Job)], local_jobs[v] # <<>>,
         Len(local_jobs[v]) <= MaxJobs, local_jobs'[v] = Tail(local_jobs[v]),
         \A w \in Worker : w # v => local_jobs'[w] = local_jobs[w],
         NEW j, Few(LocalAt(j))
  PROVE  /\ Few(LocalAt(j)')
         /\ j # Head(local_jobs[v]) => (LocalAt(j)' = {} <=> LocalAt(j) = {})
         /\ j = Head(local_jobs[v]) => LocalAt(j) # {} /\ LocalAt(j)' = {}
<1>1. LocalAt(j) = Slots(local_jobs, Worker, j) /\ LocalAt(j)' = Slots(local_jobs', Worker, j)
  BY DEF LocalAt, Slots
<1>2. Few(Slots(local_jobs, Worker, j))
  BY <1>1
<1>3. Dequeued(local_jobs, local_jobs', Worker, v) /\ Head(local_jobs[v]) = local_jobs[v][1]
  BY PoolAssumption DEF Dequeued
<1>4. /\ Few(Slots(local_jobs', Worker, j))
      /\ j # local_jobs[v][1] => (Slots(local_jobs', Worker, j) = {} <=> Slots(local_jobs, Worker, j) = {})
      /\ j = local_jobs[v][1] => Slots(local_jobs, Worker, j) # {} /\ Slots(local_jobs', Worker, j) = {}
  BY <1>2, <1>3, SlotsTail
<1> QED
  BY <1>1, <1>4, <1>3

\* The same for a global queue.
LEMMA GlobalAppend ==
  ASSUME NEW q \in Pool, NEW h \in Job, jobs \in [Pool -> Seq(Job)],
         Len(jobs[q]) < MaxJobs, jobs'[q] = Append(jobs[q], h),
         \A p \in Pool : p # q => jobs'[p] = jobs[p], NEW j
  PROVE  /\ j # h => GlobalAt(j)' = GlobalAt(j)
         /\ GlobalAt(h) = {} => GlobalAt(h)' = {<<q, Len(jobs[q]) + 1>>}
<1>1. \A i : GlobalAt(i) = Slots(jobs, Pool, i) /\ GlobalAt(i)' = Slots(jobs', Pool, i)
  BY DEF GlobalAt, Slots
<1>2. /\ j # h => Slots(jobs', Pool, j) = Slots(jobs, Pool, j)
      /\ Slots(jobs, Pool, h) = {} =>
           Slots(jobs', Pool, h) = {<<q, Len(jobs[q]) + 1>>}
  BY SlotsAppend
<1> QED
  BY <1>1, <1>2

LEMMA GlobalTail ==
  ASSUME NEW q \in Pool, jobs \in [Pool -> Seq(Job)], jobs[q] # <<>>,
         Len(jobs[q]) <= MaxJobs, jobs'[q] = Tail(jobs[q]),
         \A p \in Pool : p # q => jobs'[p] = jobs[p],
         NEW j, Few(GlobalAt(j))
  PROVE  /\ Few(GlobalAt(j)')
         /\ j # Head(jobs[q]) => (GlobalAt(j)' = {} <=> GlobalAt(j) = {})
         /\ j = Head(jobs[q]) => GlobalAt(j) # {} /\ GlobalAt(j)' = {}
<1>1. GlobalAt(j) = Slots(jobs, Pool, j) /\ GlobalAt(j)' = Slots(jobs', Pool, j)
  BY DEF GlobalAt, Slots
<1>2. Few(Slots(jobs, Pool, j))
  BY <1>1
<1>3. Dequeued(jobs, jobs', Pool, q) /\ Head(jobs[q]) = jobs[q][1]
  BY PoolAssumption DEF Dequeued
<1>4. /\ Few(Slots(jobs', Pool, j))
      /\ j # jobs[q][1] => (Slots(jobs', Pool, j) = {} <=> Slots(jobs, Pool, j) = {})
      /\ j = jobs[q][1] => Slots(jobs, Pool, j) # {} /\ Slots(jobs', Pool, j) = {}
  BY <1>2, <1>3, SlotsTail
<1> QED
  BY <1>1, <1>4, <1>3

-----------------------------------------------------------------------------
\* Arguments of thrdpool_add stay new until they are enqueued.
LEMMA AddStep == StructInv /\ AddInv /\ [Next]_vars => AddInv'
<1> SUFFICES ASSUME StructInv, AddInv, [Next]_vars PROVE AddInv'
  OBVIOUS
<1> USE PoolAssumption, WorkersOf, PoolOf
<1>1. \A t \in Thread : pc[t] \in PrePc => add[t] # None
  BY DEF StructInv, PlaceInv, PrePc, AddPc
<1>2. CASE Quiet
  BY <1>1, <1>2 DEF Quiet, AddInv
<1>3. ASSUME NEW t \in Thread, AddLocal(t) \/ AddGlobal(t) PROVE AddInv'
  <2>1. /\ pc[t] \in PrePc /\ pc'[t] \notin PrePc /\ add' = add
        /\ accepted' = accepted \cup {add[t]}
        /\ \A u \in Thread : u # t => pc'[u] = pc[u]
    BY <1>3 DEF AddLocal, AddGlobal, Goto, StructInv, ThreadType, PrePc
  <2> QED
    BY <2>1 DEF AddInv
<1>4. ASSUME NEW t \in Thread, NEW p \in Pool, NEW j \in Job, AddCall(t, p, j)
      PROVE  AddInv'
  <2>1. /\ add'[t] = j /\ \A u \in Thread : add[u] # j /\ j \notin accepted
        /\ \A u \in Thread : u # t => add'[u] = add[u] /\ pc'[u] = pc[u]
        /\ accepted' = accepted
    BY <1>4 DEF AddCall, Goto, hvars, StructInv, ThreadType
  <2> QED
    BY <2>1 DEF AddInv
<1>5. ASSUME NEW t \in Thread, AddCount(t) PROVE AddInv'
  <2>1. UNCHANGED <<add, accepted>> /\ \A u \in Thread : pc'[u] \in PrePc => pc[u] \in PrePc
    BY <1>5 DEF AddCount, Goto, hvars, StructInv, ThreadType, PrePc
  <2> QED
    BY <2>1 DEF AddInv
<1>6. ASSUME NEW w \in Worker, SeekLocal(w) \/ SeekUncount(w) \/ SeekGlobal(w) \/ Run(w)
      PROVE  AddInv'
  <2>1. UNCHANGED <<add, accepted>> /\ \A u \in Thread : pc'[u] \in PrePc => pc[u] \in PrePc
    BY <1>6 DEF SeekLocal, SeekUncount, SeekGlobal, Run, Goto, hvars, StructInv,
                ThreadType, PrePc
  <2> QED
    BY <2>1 DEF AddInv
<1>7. ASSUME NEW c \in Client, DestroyFree(c) PROVE AddInv'
  <2>1. UNCHANGED <<add, accepted>> /\ \A u \in Thread : pc'[u] \in PrePc => pc[u] \in PrePc
    BY <1>7 DEF DestroyFree, Goto, hvars, StructInv, ThreadType, PrePc
  <2> QED
    BY <2>1 DEF AddInv
<1> QED
  BY <1>2, <1>3, <1>4, <1>5, <1>6, <1>7, QuietOrLoud DEF Loud

\* The head of a queue is a job.
LEMMA HeadIsJob == ASSUME NEW s \in Seq(Job), s # <<>> PROVE Head(s) \in Job
OBVIOUS

LEMMA TakenStep == StructInv /\ TakenInv /\ [Next]_vars => TakenInv'
<1> SUFFICES ASSUME StructInv, TakenInv, [Next]_vars PROVE TakenInv'
  OBVIOUS
<1> USE PoolAssumption, WorkersOf, PoolOf
<1>1. CASE Quiet
  BY <1>1 DEF Quiet, BusyPc, TakenInv
<1>2. ASSUME NEW w \in Worker, SeekLocal(w) PROVE TakenInv'
  <2>1. PICK v \in LocalSource(w) : job' = [job EXCEPT ![w] = Head(local_jobs[v])]
    BY <1>2 DEF SeekLocal
  <2>2. v \in Worker /\ local_jobs[v] # <<>>
    BY <2>1 DEF LocalSource, Victim
  <2>3. Head(local_jobs[v]) \in Job
    BY <2>2, HeadIsJob DEF StructInv, QueueType
  <2> QED
    BY <1>2, <2>1, <2>3 DEF SeekLocal, Goto, TakenInv, StructInv, ThreadType
<1>3. ASSUME NEW w \in Worker, SeekGlobal(w) PROVE TakenInv'
  <2>1. Head(jobs[w[1]]) \in Job
    BY <1>3, HeadIsJob DEF SeekGlobal, StructInv, QueueType
  <2> QED
    BY <1>3, <2>1 DEF SeekGlobal, Goto, TakenInv, StructInv, ThreadType
<1>4. ASSUME NEW w \in Worker, SeekUncount(w) \/ Run(w) PROVE TakenInv'
  BY <1>4 DEF SeekUncount, Run, Goto, TakenInv, StructInv, ThreadType
<1>5. ASSUME NEW t \in Thread, NEW p \in Pool, NEW j \in Job,
             AddLocal(t) \/ AddGlobal(t) \/ AddCount(t) \/ AddCall(t, p, j) PROVE TakenInv'
  BY <1>5 DEF AddLocal, AddGlobal, AddCount, AddCall, Goto, TakenInv, StructInv, ThreadType
<1>6. ASSUME NEW c \in Client, DestroyFree(c) PROVE TakenInv'
  BY <1>6 DEF DestroyFree, Goto, TakenInv, StructInv, ThreadType
<1>7. ASSUME NEW t \in Thread, AddLocal(t) \/ AddGlobal(t) \/ AddCount(t) PROVE TakenInv'
  BY <1>7 DEF AddLocal, AddGlobal, AddCount, Goto, TakenInv, StructInv, ThreadType
<1> QED
  BY <1>1, <1>2, <1>3, <1>4, <1>5, <1>6, <1>7, QuietOrLoud DEF Loud

-----------------------------------------------------------------------------
\* A step after which job j is in the same kinds of places as before.
LEMMA Alike ==
  ASSUME NEW j \in Job, PlaceOf(j), KeptOf(j),
         Few(GlobalAt(j)'), Few(LocalAt(j)'), Few(TakenBy(j)'),
         GlobalAt(j)' = {} <=> GlobalAt(j) = {}, LocalAt(j)' = {} <=> LocalAt(j) = {},
         TakenBy(j)' = {} <=> TakenBy(j) = {}, ran'[j] = ran[j],
         j \in accepted' <=> j \in accepted,
         \A p \in Pool : phase[p] = "freed" => phase'[p] = "freed"
  PROVE  PlaceOf(j)' /\ KeptOf(j)'
BY DEF PlaceOf, KeptOf, Nowhere

\* A step that does not touch the worker's hands.
LEMMA TakenSame ==
  ASSUME NEW j,
         \A w \in Worker : pc[w] \in {"uncount", "got"} \/ pc'[w] \in {"uncount", "got"} =>
           pc[w] \in {"uncount", "got"} /\ pc'[w] \in {"uncount", "got"} /\ job'[w] = job[w]
  PROVE  TakenBy(j)' = TakenBy(j)
BY DEF TakenBy

\* A worker takes job h: for every other job nothing changes.
LEMMA TakenOne ==
  ASSUME NEW j, NEW w \in Worker, pc[w] = "seek", pc'[w] \in {"uncount", "got"},
         \A v \in Worker : v # w => pc'[v] = pc[v] /\ job'[v] = job[v]
  PROVE  /\ job'[w] # j => TakenBy(j)' = TakenBy(j)
         /\ job'[w] = j /\ TakenBy(j) = {} => TakenBy(j)' = {w}
BY DEF TakenBy

\* A job that is enqueued is in one queue, wherever it was before is nowhere.
LEMMA NowGlobal ==
  ASSUME NEW j \in Job, NEW s, GlobalAt(j)' = {s}, LocalAt(j)' = {}, TakenBy(j)' = {},
         ran'[j] = 0, j \in accepted'
  PROVE  PlaceOf(j)' /\ KeptOf(j)'
BY DEF PlaceOf, KeptOf, Nowhere, Few

LEMMA NowLocal ==
  ASSUME NEW j \in Job, NEW s, GlobalAt(j)' = {}, LocalAt(j)' = {s}, TakenBy(j)' = {},
         ran'[j] = 0, j \in accepted'
  PROVE  PlaceOf(j)' /\ KeptOf(j)'
BY DEF PlaceOf, KeptOf, Nowhere, Few

LEMMA NowTaken ==
  ASSUME NEW j \in Job, NEW w, GlobalAt(j)' = {}, LocalAt(j)' = {}, TakenBy(j)' = {w},
         ran'[j] = 0, j \in accepted'
  PROVE  PlaceOf(j)' /\ KeptOf(j)'
BY DEF PlaceOf, KeptOf, Nowhere, Few

LEMMA NowRun ==
  ASSUME NEW j \in Job, GlobalAt(j)' = {}, LocalAt(j)' = {}, TakenBy(j)' = {},
         ran'[j] = 1, j \in accepted'
  PROVE  PlaceOf(j)' /\ KeptOf(j)'
BY DEF PlaceOf, KeptOf, Nowhere, Few

\* Every step keeps every job in one place, and accepted jobs somewhere.
LEMMA PlaceStep ==
  StructInv /\ JobInv /\ [Next]_vars => \A j \in Job : PlaceOf(j)' /\ KeptOf(j)'
<1> SUFFICES ASSUME StructInv, JobInv, [Next]_vars, NEW j \in Job
             PROVE  PlaceOf(j)' /\ KeptOf(j)'
  OBVIOUS
<1> USE PoolAssumption, WorkersOf, PoolOf
<1>1. PlaceOf(j) /\ KeptOf(j) /\ Few(GlobalAt(j)) /\ Few(LocalAt(j)) /\ Few(TakenBy(j))
  BY DEF JobInv, PlaceOf
<1>2. CASE Quiet
  <2>1. GlobalAt(j)' = GlobalAt(j) /\ LocalAt(j)' = LocalAt(j)
    BY <1>2 DEF Quiet, GlobalAt, LocalAt
  <2>2. TakenBy(j)' = TakenBy(j)
    BY <1>2 DEF Quiet, BusyPc, TakenBy
  <2> QED
    BY <1>1, <1>2, <2>1, <2>2, Alike DEF Quiet
<1>3. ASSUME NEW t \in Thread, AddLocal(t) PROVE PlaceOf(j)' /\ KeptOf(j)'
  <2>1. /\ t \in Worker /\ pc[t] \in PrePc /\ add[t] \in Job
        /\ Len(local_jobs[t]) < MaxJobs
        /\ local_jobs \in [Worker -> Seq(Job)] /\ local_jobs'[t] = Append(local_jobs[t], add[t])
        /\ \A u \in Worker : u # t => local_jobs'[u] = local_jobs[u]
        /\ UNCHANGED <<phase, jobs, ran>> /\ accepted' = accepted \cup {add[t]}
    <3>1. /\ t \in Worker /\ pc[t] = "enqueue" /\ ~Full(local_jobs[t])
          /\ local_jobs' = [local_jobs EXCEPT ![t] = Append(@, add[t])]
          /\ UNCHANGED <<phase, jobs, ran>> /\ accepted' = accepted \cup {add[t]}
      BY <1>3 DEF AddLocal
    <3>2. local_jobs \in [Worker -> Seq(Job)] /\ add[t] \in Job
      BY <3>1 DEF StructInv, PlaceInv, AddPc, QueueType
    <3>3. Len(local_jobs[t]) < MaxJobs
      BY <3>1, <3>2 DEF Full
    <3> QED
      BY <3>1, <3>2, <3>3 DEF PrePc
  <2>2. GlobalAt(j)' = GlobalAt(j)
    BY <2>1 DEF GlobalAt
  <2>3. TakenBy(j)' = TakenBy(j)
    BY <1>3, TakenSame DEF AddLocal, Goto, StructInv, ThreadType
  <2>4. CASE j = add[t]
    <3>1. Nowhere(j) /\ j \in accepted'
      BY <2>1, <2>4 DEF JobInv, AddInv, KeptOf
    <3>2. LocalAt(j) = {}
      BY <3>1 DEF Nowhere
    <3>4. LocalAt(j)' = {<<t, Len(local_jobs[t]) + 1>>}
      BY <2>1, <2>4, <3>2, LocalAppend
    <3>5. GlobalAt(j)' = {} /\ TakenBy(j)' = {} /\ ran'[j] = 0
      BY <2>1, <2>2, <2>3, <3>1 DEF Nowhere
    <3> QED
      BY <3>1, <3>4, <3>5, NowLocal
  <2>5. CASE j # add[t]
    <3>2. LocalAt(j)' = LocalAt(j)
      BY <2>1, <2>5, LocalAppend
    <3>3. /\ ran'[j] = ran[j] /\ (j \in accepted' <=> j \in accepted)
          /\ \A p \in Pool : phase[p] = "freed" => phase'[p] = "freed"
      BY <2>1, <2>5
    <3> QED
      BY <1>1, <2>2, <2>3, <3>2, <3>3, Alike
  <2> QED
    BY <2>4, <2>5
<1>4. ASSUME NEW t \in Thread, AddGlobal(t) PROVE PlaceOf(j)' /\ KeptOf(j)'
  <2> PICK p \in Pool : p = tp[t]
    BY <1>4 DEF AddGlobal, StructInv, PlaceInv, AddPc
  <2>1. /\ pc[t] \in PrePc /\ add[t] \in Job
        /\ Len(jobs[p]) < MaxJobs
        /\ jobs \in [Pool -> Seq(Job)] /\ jobs'[p] = Append(jobs[p], add[t])
        /\ \A q \in Pool : q # p => jobs'[q] = jobs[q]
        /\ UNCHANGED <<phase, local_jobs, ran>> /\ accepted' = accepted \cup {add[t]}
    <3>1. /\ pc[t] = "enqueue" /\ ~Full(jobs[p])
          /\ jobs' = [jobs EXCEPT ![p] = Append(@, add[t])]
          /\ UNCHANGED <<phase, local_jobs, ran>> /\ accepted' = accepted \cup {add[t]}
      BY <1>4 DEF AddGlobal
    <3>2. jobs \in [Pool -> Seq(Job)] /\ add[t] \in Job /\ tp[t] \in Pool
      BY <3>1 DEF StructInv, PlaceInv, AddPc, QueueType
    <3>3. Len(jobs[p]) < MaxJobs
      BY <3>1, <3>2 DEF Full
    <3> QED
      BY <3>1, <3>2, <3>3 DEF PrePc
  <2>2. LocalAt(j)' = LocalAt(j)
    BY <2>1 DEF LocalAt
  <2>3. TakenBy(j)' = TakenBy(j)
    BY <1>4, TakenSame DEF AddGlobal, Goto, StructInv, ThreadType
  <2>4. CASE j = add[t]
    <3>1. Nowhere(j) /\ j \in accepted'
      BY <2>1, <2>4 DEF JobInv, AddInv, KeptOf
    <3>2. GlobalAt(j) = {}
      BY <3>1 DEF Nowhere
    <3>4. GlobalAt(j)' = {<<p, Len(jobs[p]) + 1>>}
      BY <2>1, <2>4, <3>2, GlobalAppend
    <3>5. LocalAt(j)' = {} /\ TakenBy(j)' = {} /\ ran'[j] = 0
      BY <2>1, <2>2, <2>3, <3>1 DEF Nowhere
    <3> QED
      BY <3>1, <3>4, <3>5, NowGlobal
  <2>5. CASE j # add[t]
    <3>1. add[t] \in Job /\ Len(jobs[p]) < MaxJobs /\ jobs \in [Pool -> Seq(Job)]
      BY <2>1
    <3>2. /\ jobs'[p] = Append(jobs[p], add[t])
          /\ \A q \in Pool : q # p => jobs'[q] = jobs[q]
      BY <2>1
    <3>5. GlobalAt(j)' = GlobalAt(j)
      <4> HIDE PoolAssumption, WorkersOf, PoolOf
      <4> QED
        BY <2>5, <3>1, <3>2, GlobalAppend
    <3>3. /\ ran'[j] = ran[j] /\ (j \in accepted' <=> j \in accepted)
          /\ \A q \in Pool : phase[q] = "freed" => phase'[q] = "freed"
      BY <2>1, <2>5
    <3> QED
      BY <1>1, <2>2, <2>3, <3>3, <3>5, Alike
  <2> QED
    BY <2>4, <2>5
<1>5. ASSUME NEW w \in Worker, SeekLocal(w) PROVE PlaceOf(j)' /\ KeptOf(j)'
  <2>1. PICK v \in LocalSource(w) : /\ job' = [job EXCEPT ![w] = Head(local_jobs[v])]
                                    /\ local_jobs' = [local_jobs EXCEPT ![v] = Tail(@)]
    BY <1>5 DEF SeekLocal
  <2>2. /\ v \in Worker /\ local_jobs[v] # <<>> /\ Len(local_jobs[v]) <= MaxJobs
        /\ local_jobs \in [Worker -> Seq(Job)] /\ job'[w] = Head(local_jobs[v])
    BY <2>1 DEF LocalSource, Victim, StructInv, QueueType, ThreadType
  <2>3. /\ UNCHANGED <<phase, jobs, accepted, ran>> /\ pc[w] = "seek" /\ pc'[w] = "uncount"
        /\ \A u \in Worker : u # w => pc'[u] = pc[u] /\ job'[u] = job[u]
    BY <1>5, <2>1 DEF SeekLocal, Goto, hvars, StructInv, ThreadType
  <2>4. GlobalAt(j)' = GlobalAt(j)
    BY <2>3 DEF GlobalAt
  <2>5. /\ Few(LocalAt(j)')
        /\ j # Head(local_jobs[v]) => (LocalAt(j)' = {} <=> LocalAt(j) = {})
        /\ j = Head(local_jobs[v]) => LocalAt(j) # {} /\ LocalAt(j)' = {}
    <3>1. /\ local_jobs'[v] = Tail(local_jobs[v])
          /\ \A u \in Worker : u # v => local_jobs'[u] = local_jobs[u]
      BY <2>1, <2>2
    <3> QED
      BY <1>1, <2>2, <3>1, LocalTail
  <2>6. CASE j = Head(local_jobs[v])
    <3>1. GlobalAt(j) = {} /\ TakenBy(j) = {} /\ ran[j] = 0 /\ j \in accepted
      BY <1>1, <2>5, <2>6 DEF PlaceOf, KeptOf, Nowhere
    <3>2. TakenBy(j)' = {w}
      BY <2>2, <2>3, <2>6, <3>1, TakenOne
    <3> QED
      BY <2>3, <2>4, <2>5, <2>6, <3>1, <3>2, NowTaken
  <2>7. CASE j # Head(local_jobs[v])
    <3>1. TakenBy(j)' = TakenBy(j)
      BY <2>2, <2>3, <2>7, TakenOne
    <3> QED
      BY <1>1, <2>3, <2>4, <2>5, <2>7, <3>1, Alike
  <2> QED
    BY <2>6, <2>7
<1>6. ASSUME NEW w \in Worker, SeekGlobal(w) PROVE PlaceOf(j)' /\ KeptOf(j)'
  <2> PICK p \in Pool : p = w[1]
    OBVIOUS
  <2>1. /\ job' = [job EXCEPT ![w] = Head(jobs[p])]
        /\ jobs' = [jobs EXCEPT ![p] = Tail(@)] /\ jobs[p] # <<>>
    BY <1>6 DEF SeekGlobal
  <2>2. /\ Len(jobs[p]) <= MaxJobs
        /\ jobs \in [Pool -> Seq(Job)] /\ job'[w] = Head(jobs[p])
    BY <2>1 DEF StructInv, QueueType, ThreadType
  <2>3. /\ UNCHANGED <<phase, local_jobs, accepted, ran>> /\ pc[w] = "seek" /\ pc'[w] = "got"
        /\ \A u \in Worker : u # w => pc'[u] = pc[u] /\ job'[u] = job[u]
    BY <1>6, <2>1 DEF SeekGlobal, Goto, hvars, StructInv, ThreadType
  <2>4. LocalAt(j)' = LocalAt(j)
    BY <2>3 DEF LocalAt
  <2>5. /\ Few(GlobalAt(j)')
        /\ j # Head(jobs[p]) => (GlobalAt(j)' = {} <=> GlobalAt(j) = {})
        /\ j = Head(jobs[p]) => GlobalAt(j) # {} /\ GlobalAt(j)' = {}
    <3>1. /\ jobs'[p] = Tail(jobs[p])
          /\ \A q \in Pool : q # p => jobs'[q] = jobs[q]
      BY <2>1, <2>2
    <3> QED
      BY <1>1, <2>1, <2>2, <3>1, GlobalTail
  <2>6. CASE j = Head(jobs[p])
    <3>1. LocalAt(j) = {} /\ TakenBy(j) = {} /\ ran[j] = 0 /\ j \in accepted
      BY <1>1, <2>5, <2>6 DEF PlaceOf, KeptOf, Nowhere
    <3>2. TakenBy(j)' = {w}
      BY <2>2, <2>3, <2>6, <3>1, TakenOne
    <3> QED
      BY <2>3, <2>4, <2>5, <2>6, <3>1, <3>2, NowTaken
  <2>7. CASE j # Head(jobs[p])
    <3>1. TakenBy(j)' = TakenBy(j)
      BY <2>2, <2>3, <2>7, TakenOne
    <3> QED
      BY <1>1, <2>3, <2>4, <2>5, <2>7, <3>1, Alike
  <2> QED
    BY <2>6, <2>7
<1>7. ASSUME NEW w \in Worker, Run(w) PROVE PlaceOf(j)' /\ KeptOf(j)'
  <2>1. /\ pc[w] = "got" /\ pc'[w] = "run" /\ job[w] \in Job
        /\ \A u \in Worker : u # w => pc'[u] = pc[u]
        /\ UNCHANGED <<phase, jobs, local_jobs, job, accepted>>
        /\ ran' = [ran EXCEPT ![job[w]] = @ + 1]
    BY <1>7 DEF Run, Goto, qvars, StructInv, ThreadType, JobInv, TakenInv
  <2>2. GlobalAt(j)' = GlobalAt(j) /\ LocalAt(j)' = LocalAt(j)
    BY <2>1 DEF GlobalAt, LocalAt
  <2>3. CASE j = job[w]
    <3>1. w \in TakenBy(j)
      BY <2>1, <2>3 DEF TakenBy
    <3>2. GlobalAt(j) = {} /\ LocalAt(j) = {} /\ ran[j] = 0 /\ j \in accepted
      BY <1>1, <3>1 DEF PlaceOf, KeptOf, Nowhere
    <3>3. \A u \in Worker : u # w => u \notin TakenBy(j)
      BY <1>1, <3>1 DEF Few
    <3>4. TakenBy(j)' = {}
      BY <2>1, <3>3 DEF TakenBy
    <3>5. ran'[j] = 1
      BY <2>1, <2>3, <3>2 DEF StructInv, ThreadType
    <3> QED
      BY <2>1, <2>2, <3>2, <3>4, <3>5, NowRun
  <2>4. CASE j # job[w]
    <3>1. TakenBy(j)' = TakenBy(j)
      BY <2>1, <2>4 DEF TakenBy
    <3>2. ran'[j] = ran[j]
      BY <2>1, <2>4 DEF StructInv, ThreadType
    <3> QED
      BY <1>1, <2>1, <2>2, <3>1, <3>2, Alike
  <2> QED
    BY <2>3, <2>4
<1>8. ASSUME NEW t \in Thread, NEW p \in Pool, NEW i \in Job, AddCall(t, p, i)
      PROVE  PlaceOf(j)' /\ KeptOf(j)'
  <2>1. UNCHANGED <<phase, jobs, local_jobs, job, accepted, ran>>
    BY <1>8 DEF AddCall, qvars, hvars
  <2>2. GlobalAt(j)' = GlobalAt(j) /\ LocalAt(j)' = LocalAt(j)
    BY <2>1 DEF GlobalAt, LocalAt
  <2>3. TakenBy(j)' = TakenBy(j)
    BY <1>8, <2>1, TakenSame DEF AddCall, Home, Goto, StructInv, ThreadType
  <2> QED
    BY <1>1, <2>1, <2>2, <2>3, Alike
<1>9. ASSUME NEW t \in Thread, AddCount(t) PROVE PlaceOf(j)' /\ KeptOf(j)'
  <2>1. UNCHANGED <<phase, jobs, local_jobs, job, accepted, ran>>
    BY <1>9 DEF AddCount, qvars, hvars
  <2>2. GlobalAt(j)' = GlobalAt(j) /\ LocalAt(j)' = LocalAt(j)
    BY <2>1 DEF GlobalAt, LocalAt
  <2>3. TakenBy(j)' = TakenBy(j)
    BY <1>9, <2>1, TakenSame DEF AddCount, Goto, StructInv, ThreadType
  <2> QED
    BY <1>1, <2>1, <2>2, <2>3, Alike
<1>10. ASSUME NEW w \in Worker, SeekUncount(w) PROVE PlaceOf(j)' /\ KeptOf(j)'
  <2>1. UNCHANGED <<phase, jobs, local_jobs, job, accepted, ran>>
    BY <1>10 DEF SeekUncount, hvars
  <2>2. GlobalAt(j)' = GlobalAt(j) /\ LocalAt(j)' = LocalAt(j)
    BY <2>1 DEF GlobalAt, LocalAt
  <2>3. TakenBy(j)' = TakenBy(j)
    BY <1>10, <2>1, TakenSame DEF SeekUncount, Goto, StructInv, ThreadType
  <2> QED
    BY <1>1, <2>1, <2>2, <2>3, Alike
<1>11. ASSUME NEW c \in Client, DestroyFree(c) PROVE PlaceOf(j)' /\ KeptOf(j)'
  <2>1. /\ tp[c] \in Pool /\ phase'[tp[c]] = "freed" /\ UNCHANGED <<job, accepted, ran>>
    BY <1>11 DEF DestroyFree, StructInv, DestroyInv, OwnerInv, DestroyPc, LoopPc, PoolType,
                 hvars
  <2>2. TakenBy(j)' = TakenBy(j)
    BY <1>11, <2>1, TakenSame DEF DestroyFree, Goto, StructInv, ThreadType
  <2>3. GlobalAt(j)' \subseteq GlobalAt(j)
    <3>1. jobs' = [jobs EXCEPT ![tp[c]] = <<>>]
      BY <1>11 DEF DestroyFree
    <3>2. \A p \in Pool : jobs'[p] = IF p = tp[c] THEN <<>> ELSE jobs[p]
      BY <3>1 DEF StructInv, QueueType
    <3>3. ASSUME NEW s \in GlobalAt(j)' PROVE s \in GlobalAt(j)
      <4>1. s \in Pool \X (1 .. MaxJobs) /\ s[2] <= Len(jobs'[s[1]]) /\ jobs'[s[1]][s[2]] = j
        BY <3>3 DEF GlobalAt
      <4>2. s[1] # tp[c]
        BY <3>2, <4>1
      <4>3. jobs'[s[1]] = jobs[s[1]]
        BY <3>2, <4>1, <4>2
      <4> QED
        BY <4>1, <4>3 DEF GlobalAt
    <3> QED
      BY <3>3
  <2>4. LocalAt(j)' \subseteq LocalAt(j)
    <3>2. \A w \in Worker : local_jobs'[w] = <<>> \/ local_jobs'[w] = local_jobs[w]
      BY <1>11 DEF DestroyFree
    <3>3. ASSUME NEW s \in LocalAt(j)' PROVE s \in LocalAt(j)
      <4>1. /\ s \in Worker \X (1 .. MaxJobs) /\ s[2] <= Len(local_jobs'[s[1]])
            /\ local_jobs'[s[1]][s[2]] = j
        BY <3>3 DEF LocalAt
      <4>2. local_jobs'[s[1]] = local_jobs[s[1]]
        BY <3>2, <4>1
      <4> QED
        BY <4>1, <4>2 DEF LocalAt
    <3> QED
      BY <3>3
  <2> QED
    BY <1>1, <2>1, <2>2, <2>3, <2>4 DEF PlaceOf, KeptOf, Nowhere, Few
<1> QED
  BY <1>2, <1>3, <1>4, <1>5, <1>6, <1>7, <1>8, <1>9, <1>10, <1>11, QuietOrLoud DEF Loud

LEMMA JobInit == Init => JobInv
<1> SUFFICES ASSUME Init PROVE JobInv
  OBVIOUS
<1>0. \A t \in Thread : pc[t] = "idle" \/ pc[t] = "unborn"
  BY DEF Init
<1>1. AddInv /\ TakenInv
  BY <1>0, PoolOf DEF AddInv, TakenInv, PrePc
<1>2. ASSUME NEW j \in Job PROVE PlaceOf(j) /\ KeptOf(j)
  <2>1. GlobalAt(j) = {} /\ LocalAt(j) = {}
    BY PoolAssumption DEF Init, GlobalAt, LocalAt
  <2>2. TakenBy(j) = {}
    BY <1>0, PoolOf DEF TakenBy
  <2>3. ran[j] = 0 /\ j \notin accepted
    BY DEF Init
  <2> QED
    BY <2>1, <2>2, <2>3 DEF PlaceOf, KeptOf, Nowhere, Few
<1> QED
  BY <1>1, <1>2 DEF JobInv

\* A set with at most one element counts at most one.
LEMMA FewIsOne ==
  ASSUME NEW S, Few(S)
  PROVE  Cardinality(S) = IF S = {} THEN 0 ELSE 1
<1>1. CASE S = {}
  BY <1>1, FS_EmptySet
<1>2. CASE S # {}
  <2>1. PICK x \in S : S = {x}
    BY <1>2 DEF Few
  <2> QED
    BY <2>1, FS_Singleton
<1> QED
  BY <1>1, <1>2

LEMMA PlaceConserved == StructInv /\ JobInv => JobConserved
<1> SUFFICES ASSUME StructInv, JobInv, NEW j \in Job
             PROVE  /\ Copies(j) <= 1
                    /\ j \notin accepted => Copies(j) = 0
                    /\ (j \in accepted /\ \A p \in Pool : phase[p] # "freed")
                         => Copies(j) = 1
  BY DEF JobConserved
<1>1. PlaceOf(j) /\ KeptOf(j) /\ ran[j] \in Nat
  BY DEF JobInv, StructInv, ThreadType
<1>2. Copies(j) = (IF GlobalAt(j) = {} THEN 0 ELSE 1) + (IF LocalAt(j) = {} THEN 0 ELSE 1)
                    + (IF TakenBy(j) = {} THEN 0 ELSE 1) + ran[j]
  <2>1. Cardinality(GlobalAt(j)) = IF GlobalAt(j) = {} THEN 0 ELSE 1
    BY <1>1, FewIsOne DEF PlaceOf
  <2>2. Cardinality(LocalAt(j)) = IF LocalAt(j) = {} THEN 0 ELSE 1
    BY <1>1, FewIsOne DEF PlaceOf
  <2>3. Cardinality(TakenBy(j)) = IF TakenBy(j) = {} THEN 0 ELSE 1
    BY <1>1, FewIsOne DEF PlaceOf
  <2> QED
    BY <2>1, <2>2, <2>3 DEF Copies
<1>3. ran[j] = 0 \/ ran[j] = 1
  BY <1>1 DEF PlaceOf
<1> HIDE DEF Copies
<1> QED
  BY <1>1, <1>2, <1>3 DEF PlaceOf, KeptOf, Nowhere

\* A job that thrdpool_add accepted is in exactly one queue, or in the hands of
\* exactly one worker, or has been run exactly once, whichever worker steals
\* it (thrdpool_add, work_dequeue, work_steal, job_seeking, thread_body): for
\* any number of pools, workers, clients and jobs, whatever Targets is.
THEOREM ConservedHolds == Spec => []JobConserved
<1>1. StructInv /\ JobInv /\ [Next]_vars => JobInv'
  BY AddStep, TakenStep, PlaceStep DEF JobInv
<1> QED
  BY <1>1, JobInit, PlaceConserved, Structure, PTL DEF Spec

-----------------------------------------------------------------------------
(***************************************************************************)
(* ThreadPool implements JobPool.                                          *)
(***************************************************************************)
HandPc == {"uncount", "got"}
RunPc  == {"run"} \cup AddPc

\* What a worker does with a job: it has taken one, is running one, or is dead
\* and may have died in one.
Kind(w) == IF pc[w] \in HandPc THEN "hand"
           ELSE IF pc[w] \in RunPc THEN "run"
           ELSE IF pc[w] \in Dead THEN "dead" ELSE "free"

\* A worker that has a job is the only one with it, and has started it unless
\* it has only just taken it.
HoldInv ==
  \A w \in Worker :
    /\ Kind(w) \in {"hand", "run"} => job[w] \in Job
    /\ job[w] \in Job => /\ Kind(w) # "free" /\ job[w] \in accepted
                         /\ Kind(w) = "hand" => ran[job[w]] = 0
                         /\ Kind(w) # "hand" => ran[job[w]] = 1
                         /\ \A v \in Worker : job[v] = job[w] => v = w

\* Workers are cancelled by thrdpool_destroy.
CancelInv == \A w \in cancel : phase[w[1]] \in {"closing", "freed"}

\* A step that leaves queues and jobs alone; workers without one may die.
Still ==
  /\ UNCHANGED <<jobs, local_jobs, accepted, ran, job>>
  /\ \A w \in Worker : \/ Kind(w)' = Kind(w)
                       \/ Kind(w) = "free" /\ Kind(w)' = "dead"
  /\ \/ phase' = phase
     \/ \E p \in Pool :
          /\ phase[p] = "none"
          /\ \E s \in {"up", "closing", "freed"} : phase' = [phase EXCEPT ![p] = s]
     \/ \E p \in Pool : phase[p] = "up" /\ phase' = [phase EXCEPT ![p] = "closing"]

\* A step that moves a job, or ends one.
Moving ==
  \/ \E t \in Thread : AddLocal(t) \/ AddGlobal(t)
  \/ \E w \in Worker : \/ SeekLocal(w) \/ SeekGlobal(w) \/ Run(w)
                       \/ JobReturns(w) \/ CancelInJob(w)
  \/ \E c \in Client : DestroyFree(c)

LEMMA StillOrMoving == StructInv /\ [Next]_vars => Still \/ Moving
<1> SUFFICES ASSUME StructInv, [Next]_vars, ~Moving PROVE Still
  OBVIOUS
<1> USE PoolAssumption, WorkersOf, PoolOf, Worker0
        DEF StructInv, Still, Kind, HandPc, RunPc, Dead
<1> DEFINE Kept == UNCHANGED <<jobs, local_jobs, accepted, ran, job>>
<1>0. /\ pc \in [Thread -> Label]
      /\ \A c \in Client : pc[c] \in ClientPc
      /\ \A w \in Worker : pc[w] \in WorkerPc
  BY DEF ThreadType, PlaceInv
<1>1. ASSUME NEW c \in Client, NEW p \in Pool, Create(c, p) PROVE Still
  <2>1. pc[W0(p)] = "unborn" /\ phase[p] = "none"
    BY <1>1 DEF PhaseInv, NoneInv, Create
  <2> QED
    BY <1>1, <2>1, <1>0 DEF Create, Goto, qvars, hvars, AddPc
<1>2. ASSUME NEW c \in Client, NEW p \in Pool, CreateQueueFails(c, p) PROVE Still
  BY <1>2 DEF CreateQueueFails, qvars, hvars
<1>3. ASSUME NEW c \in Client, NEW p \in Pool, CreateFirstFails(c, p) PROVE Still
  <2>1. pc[W0(p)] = "unborn" /\ phase[p] = "none"
    BY <1>3 DEF PhaseInv, NoneInv, CreateFirstFails
  <2>2. PICK l \in Refused : pc' = [pc EXCEPT ![c] = "d_future", ![W0(p)] = l]
    BY <1>3 DEF CreateFirstFails
  <2> QED
    BY <1>3, <2>1, <2>2, <1>0 DEF CreateFirstFails, Refused, qvars, hvars, AddPc
<1>4. ASSUME NEW c \in Client, NEW p \in Pool, DestroyCall(c, p) PROVE Still
  <2>1. Kept /\ \A w \in Worker : pc'[w] = pc[w]
    BY <1>4, <1>0 DEF DestroyCall, Goto, qvars, hvars
  <2>2. phase[p] = "up" /\ phase' = [phase EXCEPT ![p] = "closing"]
    BY <1>4 DEF DestroyCall
  <2> QED
    BY <2>1, <2>2
<1>5. ASSUME NEW c \in Client, DestroyFuture(c) PROVE Still
  BY <1>5, <1>0 DEF DestroyFuture, Goto, qvars, hvars
<1>6. ASSUME NEW c \in Client, DestroyCancel(c) PROVE Still
  BY <1>6, <1>0 DEF DestroyCancel, Refused, Goto, qvars, hvars
<1>6u. ASSUME NEW c \in Client, DestroyUndefined(c) PROVE Still
  BY <1>6u, <1>0 DEF DestroyUndefined, Goto, qvars, hvars
<1>7. ASSUME NEW c \in Client, DestroySkip(c) PROVE Still
  <2>1. At(c) \in Thread /\ At(c) # c /\ pc[At(c)] \in Refused
    BY <1>7, AtIndex, WorkersOf DEF DestroySkip, Refused, LoopPc
  <2>2. /\ pc'[At(c)] = "joined"
        /\ \A w \in Worker : w # At(c) => pc'[w] = pc[w]
    BY <1>7, <2>1, <1>0 DEF DestroySkip, Refused, Goto
  <2>3. Kept /\ phase' = phase
    BY <1>7 DEF DestroySkip, Refused, qvars, hvars
  <2> QED
    BY <2>1, <2>2, <2>3 DEF AddPc, Refused
<1>8. ASSUME NEW c \in Client, DestroyJoin(c) PROVE Still
  <2>1. At(c) \in Thread /\ At(c) # c /\ pc[At(c)] = "dead"
    <3>1. ~LoopEnds(c) /\ pc[c] \in LoopPc
      BY <1>8 DEF DestroyJoin, LoopPc, LoopEnds, DestroyInv, IndexInv, Index
    <3> QED
      BY <1>8, <3>1, AtIndex, WorkersOf DEF DestroyJoin
  <2>2. /\ pc'[At(c)] = "joined"
        /\ \A w \in Worker : w # At(c) => pc'[w] = pc[w]
    BY <1>8, <2>1, <1>0 DEF DestroyJoin
  <2>3. Kept /\ phase' = phase
    BY <1>8 DEF DestroyJoin, qvars, hvars
  <2> QED
    BY <2>1, <2>2, <2>3 DEF AddPc
<1>9. ASSUME NEW p \in Pool, CreateWorker(p) PROVE Still
  <2>1. PICK u \in Workers(p), l \in {"loop", "failed", "nothread"} :
          pc[u] = "unborn" /\ pc' = [pc EXCEPT ![u] = l]
    BY <1>9 DEF CreateWorker, Goto, Workers, Index
  <2>2. \A w \in Worker : w # u => pc'[w] = pc[w]
    BY <2>1, <1>0
  <2>3. pc'[u] \in {"loop", "failed", "nothread"} /\ u \in Worker
    BY <2>1, <1>0
  <2>4. Kept /\ phase' = phase
    BY <1>9 DEF CreateWorker, qvars, hvars
  <2> QED
    BY <2>1, <2>2, <2>3, <2>4 DEF AddPc
<1>10. ASSUME NEW p \in Pool, CreatorDone(p) PROVE Still
  BY <1>10, <1>0 DEF CreatorDone, Goto, qvars, hvars, AddPc
<1>11. ASSUME NEW t \in Thread, NEW p \in Pool, NEW j \in Job, AddCall(t, p, j)
       PROVE  Still
  BY <1>11, <1>0 DEF AddCall, Home, Goto, qvars, hvars, AddPc, Thread
<1>12. ASSUME NEW t \in Thread, AddLock(t) \/ AddCount(t) \/ AddFull(t) PROVE Still
  <2>1. /\ Kept /\ phase' = phase /\ pc[t] \in AddPc /\ pc'[t] \in AddPc
        /\ \A w \in Worker : w # t => pc'[w] = pc[w]
    BY <1>12, <1>0 DEF AddLock, AddCount, AddFull, Goto, qvars, hvars, AddPc
  <2> QED
    BY <2>1 DEF AddPc
<1>13. ASSUME NEW t \in Thread, AddReturn(t) PROVE Still
  <2>1. Kept /\ phase' = phase
    BY <1>13 DEF AddReturn, qvars, hvars
  <2>2. \A w \in Worker : \/ w = t /\ pc[w] = "broadcast" /\ pc'[w] = "run"
                          \/ pc[w] = "wait" /\ pc'[w] = "relock"
                          \/ pc'[w] = pc[w]
    BY <1>13, <1>0 DEF AddReturn, Broadcast, Waiting, Home
  <2> QED
    BY <2>1, <2>2 DEF AddPc
<1>14. ASSUME NEW w \in Worker,
              \/ TestCancel(w) \/ WorkerLock(w) \/ SeekUncount(w) \/ SeekFails(w)
              \/ CondWait(w) \/ SpuriousWakeup(w) \/ CancelInWait(w)
              \/ CancelRelock(w) \/ Cleanup(w)
       PROVE  Still
  <2>1. Kept /\ phase' = phase
    BY <1>14 DEF TestCancel, WorkerLock, SeekUncount, SeekFails, CondWait,
         SpuriousWakeup, CancelInWait, CancelRelock, Cleanup, qvars, hvars
  <2>2. PICK l \in Label : pc' = [pc EXCEPT ![w] = l]
    BY <1>14 DEF TestCancel, WorkerLock, SeekUncount, SeekFails, CondWait,
         SpuriousWakeup, CancelInWait, CancelRelock, Cleanup, Goto, Label
  <2>3. \A u \in Worker : u # w => pc'[u] = pc[u]
    BY <2>2, <1>0
  <2>4. \/ pc[w] = "uncount" /\ pc'[w] = "got"
        \/ /\ pc[w] \in {"loop", "lock", "relock", "seek", "nojob", "wait",
                         "cancel_relock", "cleanup"}
           /\ pc'[w] \in {"dead", "lock", "seek", "nojob", "wait", "relock",
                          "cancel_relock", "cleanup"}
    BY <1>14, <1>0 DEF TestCancel, WorkerLock, SeekUncount, SeekFails, CondWait,
         SpuriousWakeup, CancelInWait, CancelRelock, Cleanup, Goto
  <2> QED
    BY <2>1, <2>3, <2>4 DEF AddPc
<1>15. CASE UNCHANGED vars
  BY <1>15 DEF vars
<1> HIDE DEF Still
<1> QED
  BY <1>1, <1>2, <1>3, <1>4, <1>5, <1>6, <1>6u, <1>7, <1>8, <1>9, <1>10, <1>11, <1>12, <1>13,
     <1>14, <1>15 DEF Next, ClientNext, AddNext, WorkerNext, Moving, Terminated

-----------------------------------------------------------------------------
\* A job in a queue is accepted, has not been started, and nobody has it.
LEMMA QueuedFree ==
  ASSUME JobInv, HoldInv, NEW j \in Job, GlobalAt(j) # {} \/ LocalAt(j) # {}
  PROVE  j \in accepted /\ ran[j] = 0 /\ \A w \in Worker : job[w] # j
<1>1. PlaceOf(j) /\ KeptOf(j)
  BY DEF JobInv
<1>2. j \in accepted /\ ran[j] = 0 /\ TakenBy(j) = {}
  BY <1>1 DEF PlaceOf, KeptOf, Nowhere
<1>3. ASSUME NEW w \in Worker, job[w] = j PROVE FALSE
  <2>1. Kind(w) = "hand"
    BY <1>2, <1>3 DEF HoldInv
  <2>2. w \in TakenBy(j)
    BY <1>3, <2>1 DEF Kind, HandPc, TakenBy
  <2> QED
    BY <1>2, <2>2
<1> QED
  BY <1>2, <1>3

\* The first job of a local queue, and of a global one.
LEMMA LocalHead ==
  ASSUME StructInv, NEW v \in Worker, local_jobs[v] # <<>>
  PROVE  /\ Head(local_jobs[v]) \in Job /\ LocalAt(Head(local_jobs[v])) # {}
         /\ local_jobs[v] \in Seq(Job) /\ Len(local_jobs[v]) \in 1 .. MaxJobs
<1>1. local_jobs[v] \in Seq(Job) /\ Len(local_jobs[v]) <= MaxJobs
  BY DEF StructInv, QueueType
<1>2. Len(local_jobs[v]) \in 1 .. MaxJobs /\ Head(local_jobs[v]) = local_jobs[v][1]
      /\ 1 \in 1 .. MaxJobs
  BY <1>1, PoolAssumption
<1>3. <<v, 1>> \in LocalAt(Head(local_jobs[v]))
  BY <1>2 DEF LocalAt
<1> QED
  BY <1>1, <1>2, <1>3, HeadIsJob

LEMMA GlobalHead ==
  ASSUME StructInv, NEW p \in Pool, jobs[p] # <<>>
  PROVE  /\ Head(jobs[p]) \in Job /\ GlobalAt(Head(jobs[p])) # {}
         /\ jobs[p] \in Seq(Job) /\ Len(jobs[p]) \in 1 .. MaxJobs
<1>1. jobs[p] \in Seq(Job) /\ Len(jobs[p]) <= MaxJobs
  BY DEF StructInv, QueueType
<1>2. Len(jobs[p]) \in 1 .. MaxJobs /\ Head(jobs[p]) = jobs[p][1]
      /\ 1 \in 1 .. MaxJobs
  BY <1>1, PoolAssumption
<1>3. <<p, 1>> \in GlobalAt(Head(jobs[p]))
  BY <1>2 DEF GlobalAt
<1> QED
  BY <1>1, <1>2, <1>3, HeadIsJob

\* A worker takes job h, which nobody has.
LEMMA HoldTake ==
  ASSUME StructInv, HoldInv, NEW w \in Worker, NEW h \in Job, h \in accepted, ran[h] = 0,
         \A u \in Worker : job[u] # h, pc[w] = "seek", pc'[w] \in HandPc,
         \A u \in Worker : u # w => pc'[u] = pc[u],
         job' = [job EXCEPT ![w] = h], UNCHANGED <<accepted, ran>>
  PROVE  HoldInv'
<1>1. job'[w] = h /\ \A u \in Worker : u # w => job'[u] = job[u]
  BY DEF StructInv, ThreadType
<1>2. Kind(w)' = "hand" /\ \A u \in Worker : u # w => Kind(u)' = Kind(u)
  BY DEF Kind
<1> QED
  BY <1>1, <1>2 DEF HoldInv

LEMMA HoldStep == StructInv /\ JobInv /\ HoldInv /\ [Next]_vars => HoldInv'
<1> SUFFICES ASSUME StructInv, JobInv, HoldInv, [Next]_vars PROVE HoldInv'
  OBVIOUS
<1> USE PoolAssumption, WorkersOf, PoolOf
<1>1. CASE Still
  BY <1>1 DEF Still, HoldInv
<1>2. ASSUME NEW t \in Thread, AddLocal(t) \/ AddGlobal(t) PROVE HoldInv'
  <2>1. /\ UNCHANGED <<job, ran>> /\ accepted \subseteq accepted'
        /\ \A w \in Worker : pc'[w] = pc[w] \/ (pc[w] \in RunPc /\ pc'[w] \in RunPc)
    BY <1>2 DEF AddLocal, AddGlobal, Goto, StructInv, ThreadType, RunPc, AddPc
  <2>2. \A w \in Worker : Kind(w)' = Kind(w)
    BY <2>1 DEF Kind, HandPc, RunPc, AddPc
  <2> QED
    BY <2>1, <2>2 DEF HoldInv
<1>3. ASSUME NEW w \in Worker, SeekLocal(w) PROVE HoldInv'
  <2>1. PICK v \in LocalSource(w) : job' = [job EXCEPT ![w] = Head(local_jobs[v])]
    BY <1>3 DEF SeekLocal
  <2>2. v \in Worker /\ local_jobs[v] # <<>>
    BY <2>1 DEF LocalSource, Victim
  <2> DEFINE h == Head(local_jobs[v])
  <2>3. h \in Job /\ LocalAt(h) # {} /\ job' = [job EXCEPT ![w] = h]
    BY <2>1, <2>2, LocalHead
  <2>4. h \in accepted /\ ran[h] = 0 /\ \A u \in Worker : job[u] # h
    BY <2>3, QueuedFree
  <2>5. /\ pc[w] = "seek" /\ pc'[w] \in HandPc /\ UNCHANGED <<accepted, ran>>
        /\ \A u \in Worker : u # w => pc'[u] = pc[u]
    BY <1>3 DEF SeekLocal, Goto, hvars, StructInv, ThreadType, HandPc
  <2> HIDE PoolAssumption, WorkersOf, PoolOf DEF h
  <2> QED
    BY <2>3, <2>4, <2>5, HoldTake
<1>4. ASSUME NEW w \in Worker, SeekGlobal(w) PROVE HoldInv'
  <2> DEFINE h == Head(jobs[w[1]])
  <2>1. job' = [job EXCEPT ![w] = h] /\ jobs[w[1]] # <<>>
    BY <1>4 DEF SeekGlobal
  <2>3. h \in Job /\ GlobalAt(h) # {}
    BY <2>1, GlobalHead
  <2>4. h \in accepted /\ ran[h] = 0 /\ \A u \in Worker : job[u] # h
    BY <2>3, QueuedFree
  <2>5. /\ pc[w] = "seek" /\ pc'[w] \in HandPc /\ UNCHANGED <<accepted, ran>>
        /\ \A u \in Worker : u # w => pc'[u] = pc[u]
    BY <1>4 DEF SeekGlobal, Goto, hvars, StructInv, ThreadType, HandPc
  <2> HIDE PoolAssumption, WorkersOf, PoolOf DEF h
  <2> QED
    BY <2>1, <2>3, <2>4, <2>5, HoldTake
<1>5. ASSUME NEW w \in Worker, Run(w) PROVE HoldInv'
  <2>1. /\ pc[w] = "got" /\ pc'[w] = "run" /\ UNCHANGED <<job, accepted>>
        /\ ran' = [ran EXCEPT ![job[w]] = @ + 1]
        /\ \A u \in Worker : u # w => pc'[u] = pc[u]
    BY <1>5 DEF Run, Goto, qvars, StructInv, ThreadType
  <2>2. Kind(w) = "hand" /\ Kind(w)' = "run"
        /\ \A u \in Worker : u # w => Kind(u)' = Kind(u)
    BY <2>1 DEF Kind, HandPc, RunPc, AddPc
  <2>3. job[w] \in Job /\ ran[job[w]] = 0
    BY <2>2 DEF HoldInv
  <2>4. ran'[job[w]] = 1 /\ \A i \in Job : i # job[w] => ran'[i] = ran[i]
    BY <2>1, <2>3 DEF StructInv, ThreadType
  <2> QED
    BY <2>1, <2>2, <2>3, <2>4 DEF HoldInv
<1>6. ASSUME NEW w \in Worker, JobReturns(w) PROVE HoldInv'
  <2>1. /\ pc[w] = "run" /\ pc'[w] = "loop" /\ UNCHANGED <<accepted, ran>>
        /\ job'[w] = None /\ \A u \in Worker : u # w => pc'[u] = pc[u] /\ job'[u] = job[u]
    BY <1>6 DEF JobReturns, Goto, hvars, StructInv, ThreadType
  <2>2. Kind(w)' = "free" /\ \A u \in Worker : u # w => Kind(u)' = Kind(u)
    BY <2>1 DEF Kind, HandPc, RunPc, AddPc, Dead
  <2> QED
    BY <2>1, <2>2 DEF HoldInv
<1>7. ASSUME NEW w \in Worker, CancelInJob(w) PROVE HoldInv'
  <2>1. /\ pc[w] = "run" /\ pc'[w] = "dead" /\ UNCHANGED <<accepted, ran, job>>
        /\ \A u \in Worker : u # w => pc'[u] = pc[u]
    BY <1>7 DEF CancelInJob, Goto, hvars, StructInv, ThreadType
  <2>2. Kind(w) = "run" /\ Kind(w)' = "dead"
        /\ \A u \in Worker : u # w => Kind(u)' = Kind(u)
    BY <2>1 DEF Kind, HandPc, RunPc, AddPc, Dead
  <2> QED
    BY <2>1, <2>2 DEF HoldInv
<1>8. ASSUME NEW c \in Client, DestroyFree(c) PROVE HoldInv'
  <2>1. UNCHANGED <<accepted, ran, job>> /\ \A w \in Worker : pc'[w] = pc[w]
    BY <1>8 DEF DestroyFree, Goto, hvars, StructInv, ThreadType
  <2>2. \A w \in Worker : Kind(w)' = Kind(w)
    BY <2>1 DEF Kind
  <2> QED
    BY <2>1, <2>2 DEF HoldInv
<1> QED
  BY <1>1, <1>2, <1>3, <1>4, <1>5, <1>6, <1>7, <1>8, StillOrMoving DEF Moving

LEMMA CancelStep == StructInv /\ CancelInv /\ [Next]_vars => CancelInv'
<1> SUFFICES ASSUME StructInv, CancelInv, [Next]_vars PROVE CancelInv'
  OBVIOUS
<1>1. /\ cancel \subseteq Worker /\ phase \in [Pool -> Phase]
      /\ \A w \in Worker : w[1] \in Pool
  BY PoolOf DEF StructInv, ThreadType, PoolType
<1>2. \A p \in Pool : phase[p] \in {"closing", "freed"} => phase'[p] \in {"closing", "freed"}
  <2>1. CASE Still
    BY <1>1, <2>1 DEF Still
  <2>2. CASE Moving
    BY <1>1, <2>2 DEF Moving, AddLocal, AddGlobal, SeekLocal, SeekGlobal, Run,
                      JobReturns, CancelInJob, DestroyFree
  <2> QED
    BY <2>1, <2>2, StillOrMoving
<1>3. \/ cancel' = cancel
      \/ \E c \in Client : DestroyCancel(c)
  BY DEF Next, ClientNext, AddNext, WorkerNext, Terminated, vars, dvars,
         Create, CreateQueueFails, CreateFirstFails, DestroyCall, DestroyFuture,
         DestroySkip, DestroyUndefined, DestroyJoin, DestroyFree, CreateWorker, CreatorDone, AddCall,
         AddLock, AddLocal, AddCount, AddGlobal, AddFull, AddReturn, TestCancel,
         WorkerLock, SeekLocal, SeekUncount, SeekGlobal, SeekFails, CondWait,
         SpuriousWakeup, Run, JobReturns, CancelInWait, CancelRelock, Cleanup,
         CancelInJob
<1>4. ASSUME NEW c \in Client, DestroyCancel(c) PROVE CancelInv'
  <2>1. /\ tp[c] \in Pool /\ phase[tp[c]] = "closing" /\ At(c) \in Workers(tp[c])
        /\ cancel' = cancel \cup {At(c)} /\ phase' = phase
    BY <1>4, AtIndex DEF DestroyCancel, Refused, LoopPc
  <2> QED
    BY <2>1, WorkersOf DEF CancelInv
<1> QED
  BY <1>1, <1>2, <1>3, <1>4 DEF CancelInv

-----------------------------------------------------------------------------
\* Where the jobs of the abstract view are.
Has(q, j) == \E i \in 1 .. Len(q) : q[i] = j
Queued(p, j) == Has(jobs[p], j) \/ \E w \in Workers(p) : Has(local_jobs[w], j)
Held(p, j) == \E w \in Workers(p) : job[w] = j /\ pc[w] \notin Dead

LEMMA Members ==
  ASSUME NEW p \in Pool
  PROVE  /\ \A j : j \in WaitingIn(p) <=> /\ j \in accepted /\ ran[j] = 0
                                          /\ Queued(p, j) \/ Held(p, j)
         /\ \A j : j \in RunningIn(p) <=> j \in accepted /\ ran[j] > 0 /\ Held(p, j)
BY DEF WaitingIn, RunningIn, Queued, Held, Has

LEMMA MembersNext ==
  ASSUME NEW p \in Pool
  PROVE  /\ \A j : j \in WaitingIn(p)' <=> /\ j \in accepted' /\ ran'[j] = 0
                                           /\ Queued(p, j)' \/ Held(p, j)'
         /\ \A j : j \in RunningIn(p)' <=> j \in accepted' /\ ran'[j] > 0 /\ Held(p, j)'
BY DEF WaitingIn, RunningIn, Queued, Held, Has

\* The lost jobs are the accepted ones that are nowhere else.
LEMMA LostMembers ==
  /\ \A j : j \in LostJobs <=> /\ j \in accepted /\ j \notin DoneJobs
                               /\ \A p \in Pool : j \notin WaitingIn(p) /\ j \notin RunningIn(p)
  /\ \A j : j \in LostJobs' <=> /\ j \in accepted' /\ j \notin DoneJobs'
                                /\ \A p \in Pool : j \notin WaitingIn(p)' /\ j \notin RunningIn(p)'
<1> DEFINE U == UNION {WaitingIn(p) \cup RunningIn(p) : p \in Pool}
<1>1. \A j : j \in U <=> \E p \in Pool : j \in WaitingIn(p) \/ j \in RunningIn(p)
  OBVIOUS
<1>2. \A j : j \in U' <=> \E p \in Pool : j \in WaitingIn(p)' \/ j \in RunningIn(p)'
  OBVIOUS
<1>3. LostJobs = accepted \ (DoneJobs \cup U) /\ LostJobs' = accepted' \ (DoneJobs' \cup U')
  BY DEF LostJobs
<1> HIDE DEF U
<1> QED
  BY <1>1, <1>2, <1>3

LEMMA LostSame ==
  ASSUME accepted' = accepted, DoneJobs' = DoneJobs,
         \A p \in Pool : WaitingIn(p)' = WaitingIn(p) /\ RunningIn(p)' = RunningIn(p)
  PROVE  LostJobs' = LostJobs
<1>1. \A j : j \in LostJobs' <=> j \in LostJobs
  BY LostMembers
<1> QED
  BY <1>1

LEMMA DoneMembers ==
  /\ \A j : j \in DoneJobs <=> j \in accepted /\ ran[j] > 0 /\ \A w \in Worker : job[w] # j
  /\ \A j : j \in DoneJobs' <=> j \in accepted' /\ ran'[j] > 0 /\ \A w \in Worker : job'[w] # j
BY DEF DoneJobs

\* A running job is held by the worker that runs it and by no other.
LEMMA OneHolder ==
  ASSUME StructInv, HoldInv, NEW w \in Worker, Kind(w) \in {"hand", "run"}
  PROVE  /\ job[w] \in accepted /\ job[w] \in Job /\ Held(w[1], job[w])
         /\ \A v \in Worker : job[v] = job[w] => v = w
         /\ \A p \in Pool : p # w[1] => ~Held(p, job[w])
<1>1. /\ job[w] \in Job /\ job[w] \in accepted
      /\ \A v \in Worker : job[v] = job[w] => v = w
  BY DEF HoldInv
<1>2. pc[w] \notin Dead
  BY DEF Kind, HandPc, RunPc, AddPc, Dead
<1> QED
  BY <1>1, <1>2, PoolOf, WorkersOf DEF Held

\* The abstract steps, given what becomes of the sets of jobs.
SameView ==
  /\ \A p \in Pool : WaitingIn(p)' = WaitingIn(p) /\ RunningIn(p)' = RunningIn(p)
  /\ DoneJobs' = DoneJobs /\ LostJobs' = LostJobs

LEMMA IsStutter == SameView /\ phase' = phase => UNCHANGED JP!vars
BY DEF SameView, JP!vars

LEMMA IsPhase ==
  ASSUME SameView, NEW p \in Pool,
         \/ /\ phase[p] = "none"
            /\ \E s \in {"up", "closing", "freed"} : phase' = [phase EXCEPT ![p] = s]
         \/ phase[p] = "up" /\ phase' = [phase EXCEPT ![p] = "closing"]
  PROVE  JP!Next
<1>1. JP!Open(p) \/ JP!Close(p)
  BY DEF SameView, JP!Open, JP!Close
<1> QED
  BY <1>1 DEF JP!Next

LEMMA IsSubmit ==
  ASSUME NEW p \in Pool, NEW j \in Job, phase' = phase,
         phase[p] = "up" \/ (phase[p] = "closing" /\ RunningIn(p) # {}),
         j \notin accepted,
         \A q \in Pool : WaitingIn(q)' = IF q = p THEN WaitingIn(q) \cup {j} ELSE WaitingIn(q),
         \A q \in Pool : RunningIn(q)' = RunningIn(q),
         DoneJobs' = DoneJobs, LostJobs' = LostJobs
  PROVE  JP!Next
<1>1. j \notin JP!Known
  <2>1. \A q \in Pool : j \notin WaitingIn(q) /\ j \notin RunningIn(q)
    BY DEF WaitingIn, RunningIn
  <2>2. j \notin DoneJobs /\ j \notin LostJobs
    BY DEF DoneJobs, LostJobs
  <2> QED
    BY <2>1, <2>2 DEF JP!Known
<1>2. JP!Submit(p, j)
  BY <1>1 DEF JP!Submit
<1> QED
  BY <1>2 DEF JP!Next

\* JobPool counts as this module does.
LEMMA SameCardinality == ASSUME NEW S PROVE JP!Cardinality(S) = Cardinality(S)
BY DEF JP!Cardinality, Cardinality

LEMMA IsStart ==
  ASSUME NEW p \in Pool, NEW j \in WaitingIn(p), j \in Job, phase' = phase,
         Cardinality(RunningIn(p)) < NumWorkers,
         \A q \in Pool : WaitingIn(q)' = IF q = p THEN WaitingIn(q) \ {j} ELSE WaitingIn(q),
         \A q \in Pool : RunningIn(q)' = IF q = p THEN RunningIn(q) \cup {j} ELSE RunningIn(q),
         DoneJobs' = DoneJobs, LostJobs' = LostJobs
  PROVE  JP!Next
<1>1. /\ [q \in Pool |-> RunningIn(q)][p] = RunningIn(p)
      /\ JP!Cardinality(RunningIn(p)) < NumWorkers
  BY SameCardinality
<1>2. JP!Start(p, j)
  BY <1>1 DEF JP!Start
<1> QED
  BY <1>2 DEF JP!Next

LEMMA IsEnd ==
  ASSUME NEW p \in Pool, NEW j \in RunningIn(p), j \in Job, phase' = phase,
         \A q \in Pool : WaitingIn(q)' = WaitingIn(q),
         \A q \in Pool : RunningIn(q)' = IF q = p THEN RunningIn(q) \ {j} ELSE RunningIn(q),
         \/ DoneJobs' = DoneJobs \cup {j} /\ LostJobs' = LostJobs
         \/ phase[p] = "closing" /\ DoneJobs' = DoneJobs /\ LostJobs' = LostJobs \cup {j}
  PROVE  JP!Next
<1>1. JP!Finish(p, j) \/ JP!Kill(p, j)
  BY DEF JP!Finish, JP!Kill
<1> QED
  BY <1>1 DEF JP!Next

LEMMA IsFree ==
  ASSUME NEW p \in Pool, phase[p] = "closing", phase' = [phase EXCEPT ![p] = "freed"],
         RunningIn(p) = {},
         \A q \in Pool : WaitingIn(q)' = IF q = p THEN {} ELSE WaitingIn(q),
         \A q \in Pool : RunningIn(q)' = RunningIn(q),
         DoneJobs' = DoneJobs, LostJobs' = LostJobs \cup WaitingIn(p)
  PROVE  JP!Next
<1>1. JP!Free(p)
  BY DEF JP!Free
<1> QED
  BY <1>1 DEF JP!Next

-----------------------------------------------------------------------------
\* What queue_enqueue and queue_dequeue do to the contents of a queue.
LEMMA HasAppend ==
  ASSUME NEW q \in Seq(Job), NEW x \in Job, NEW y
  PROVE  Has(Append(q, x), y) <=> Has(q, y) \/ y = x
<1>1. /\ Len(Append(q, x)) = Len(q) + 1 /\ Len(q) \in Nat
      /\ Append(q, x)[Len(q) + 1] = x
      /\ \A i \in 1 .. Len(q) : Append(q, x)[i] = q[i]
  OBVIOUS
<1>2. \A i \in 1 .. Len(q) + 1 : i \in 1 .. Len(q) \/ i = Len(q) + 1
  BY <1>1
<1>3. /\ 1 .. Len(q) \subseteq 1 .. Len(q) + 1 /\ Len(q) + 1 \in 1 .. Len(q) + 1
  BY <1>1
<1> QED
  BY <1>1, <1>2, <1>3 DEF Has

LEMMA HasTail ==
  ASSUME NEW q \in Seq(Job), q # <<>>, NEW y
  PROVE  Has(q, y) <=> y = Head(q) \/ Has(Tail(q), y)
<1>1. /\ Len(q) \in Nat /\ Len(q) >= 1 /\ Len(Tail(q)) = Len(q) - 1 /\ Head(q) = q[1]
      /\ \A i \in 1 .. Len(q) - 1 : Tail(q)[i] = q[i + 1]
  OBVIOUS
<1>2. ASSUME NEW i \in 1 .. Len(q), q[i] = y PROVE y = Head(q) \/ Has(Tail(q), y)
  <2>1. CASE i = 1
    BY <1>1, <1>2, <2>1
  <2>2. CASE i # 1
    <3>1. i - 1 \in 1 .. Len(q) - 1 /\ i - 1 + 1 = i
      BY <1>1, <2>2
    <3> QED
      BY <1>1, <1>2, <3>1 DEF Has
  <2> QED
    BY <2>1, <2>2
<1>3. ASSUME NEW i \in 1 .. Len(Tail(q)), Tail(q)[i] = y PROVE Has(q, y)
  <2>1. i \in 1 .. Len(q) - 1 /\ i + 1 \in 1 .. Len(q)
    BY <1>1
  <2> QED
    BY <1>1, <1>3, <2>1 DEF Has
<1>4. y = Head(q) => Has(q, y)
  BY <1>1 DEF Has
<1> QED
  BY <1>2, <1>3, <1>4 DEF Has

\* The jobs that are queued somewhere are those the slots hold.
LEMMA QueuedSlots ==
  ASSUME StructInv, NEW p \in Pool, NEW j, Queued(p, j)
  PROVE  /\ j \in Job
         /\ \/ \E i \in 1 .. MaxJobs : <<p, i>> \in GlobalAt(j)
            \/ \E w \in Workers(p), i \in 1 .. MaxJobs : <<w, i>> \in LocalAt(j)
<1> USE PoolAssumption
<1>1. CASE Has(jobs[p], j)
  <2>1. jobs[p] \in Seq(Job) /\ Len(jobs[p]) <= MaxJobs
    BY DEF StructInv, QueueType
  <2>2. PICK i \in 1 .. Len(jobs[p]) : jobs[p][i] = j
    BY <1>1 DEF Has
  <2>3. i \in 1 .. MaxJobs /\ i <= Len(jobs[p]) /\ j \in Job
    BY <2>1, <2>2
  <2> QED
    BY <2>2, <2>3 DEF GlobalAt
<1>2. CASE \E w \in Workers(p) : Has(local_jobs[w], j)
  <2>1. PICK w \in Workers(p) : Has(local_jobs[w], j)
    BY <1>2
  <2>2. w \in Worker /\ local_jobs[w] \in Seq(Job) /\ Len(local_jobs[w]) <= MaxJobs
    BY WorkersOf DEF StructInv, QueueType
  <2>3. PICK i \in 1 .. Len(local_jobs[w]) : local_jobs[w][i] = j
    BY <2>1 DEF Has
  <2>4. i \in 1 .. MaxJobs /\ i <= Len(local_jobs[w]) /\ j \in Job
    BY <2>2, <2>3
  <2> QED
    BY <2>2, <2>3, <2>4 DEF LocalAt
<1> QED
  BY <1>1, <1>2 DEF Queued

LEMMA QueuedJob ==
  ASSUME StructInv, JobInv, HoldInv, NEW p \in Pool, NEW j, Queued(p, j)
  PROVE  /\ j \in Job /\ j \in accepted /\ ran[j] = 0
         /\ \A w \in Worker : job[w] # j
         /\ \A q \in Pool : Queued(q, j) => q = p
<1>1. /\ j \in Job
      /\ \/ \E i \in 1 .. MaxJobs : <<p, i>> \in GlobalAt(j)
         \/ \E w \in Workers(p), i \in 1 .. MaxJobs : <<w, i>> \in LocalAt(j)
  BY QueuedSlots
<1>2. j \in accepted /\ ran[j] = 0 /\ \A w \in Worker : job[w] # j
  BY <1>1, QueuedFree
<1>3. ASSUME NEW q \in Pool, Queued(q, j) PROVE q = p
  <2>1. \/ \E i \in 1 .. MaxJobs : <<q, i>> \in GlobalAt(j)
        \/ \E w \in Workers(q), i \in 1 .. MaxJobs : <<w, i>> \in LocalAt(j)
    BY <1>3, QueuedSlots
  <2>2. Few(GlobalAt(j)) /\ Few(LocalAt(j)) /\ (GlobalAt(j) # {} => LocalAt(j) = {})
    BY <1>1 DEF JobInv, PlaceOf
  <2>3. CASE LocalAt(j) = {}
    <3>1. PICK i \in 1 .. MaxJobs, k \in 1 .. MaxJobs :
            <<p, i>> \in GlobalAt(j) /\ <<q, k>> \in GlobalAt(j)
      BY <1>1, <2>1, <2>3
    <3>2. <<p, i>> = <<q, k>>
      BY <2>2, <3>1 DEF Few
    <3> QED
      BY <3>2
  <2>4. CASE GlobalAt(j) = {}
    <3>1. PICK v \in Workers(p), u \in Workers(q), i \in 1 .. MaxJobs, k \in 1 .. MaxJobs :
            <<v, i>> \in LocalAt(j) /\ <<u, k>> \in LocalAt(j)
      BY <1>1, <2>1, <2>4
    <3>2. <<v, i>> = <<u, k>>
      BY <2>2, <3>1 DEF Few
    <3>3. v = u
      BY <3>2
    <3> QED
      BY <3>3, WorkersOf
  <2> QED
    BY <2>2, <2>3, <2>4
<1> QED
  BY <1>1, <1>2, <1>3

-----------------------------------------------------------------------------
LEMMA WorkersCount ==
  ASSUME NEW p \in Pool
  PROVE  IsFiniteSet(Workers(p)) /\ Cardinality(Workers(p)) = NumWorkers
<1>1. 0 \in Int /\ NumWorkers - 1 \in Int /\ NumWorkers \in Nat /\ NumWorkers >= 1
  BY PoolAssumption
<1>2. IsFiniteSet(Index) /\ Cardinality(Index) = NumWorkers
  <2>1. /\ IsFiniteSet(0 .. NumWorkers - 1)
        /\ Cardinality(0 .. NumWorkers - 1)
             = IF 0 > NumWorkers - 1 THEN 0 ELSE (NumWorkers - 1) - 0 + 1
    BY <1>1, FS_Interval
  <2> QED
    BY <1>1, <2>1 DEF Index
<1>3. IsFiniteSet({p}) /\ Cardinality({p}) = 1
  BY FS_Singleton
<1>4. /\ IsFiniteSet({p} \X Index)
      /\ Cardinality({p} \X Index) = Cardinality({p}) * Cardinality(Index)
  BY <1>2, <1>3, FS_Product
<1> QED
  BY <1>1, <1>2, <1>3, <1>4 DEF Workers

\* While a worker has not started its job, fewer jobs run than there are workers.
LEMMA FewerRunning ==
  ASSUME StructInv, HoldInv, NEW w \in Worker, pc[w] = "got"
  PROVE  Cardinality(RunningIn(w[1])) < NumWorkers
<1> DEFINE R == RunningIn(w[1])
           S == Workers(w[1]) \ {w}
           H == {u \in S : job[u] \in R}
           f == [u \in H |-> job[u]]
<1>1. w[1] \in Pool /\ w \in Workers(w[1])
  BY PoolOf
<1>2. IsFiniteSet(S) /\ Cardinality(S) = NumWorkers - 1
  BY <1>1, WorkersCount, FS_RemoveElement
<1>3. IsFiniteSet(H) /\ Cardinality(H) <= Cardinality(S)
  BY <1>2, FS_Subset
<1>4. ran[job[w]] = 0
  <2>1. Kind(w) = "hand"
    BY DEF Kind, HandPc
  <2> QED
    BY <2>1 DEF HoldInv
<1>5. \A j \in R : \E u \in H : job[u] = j
  BY <1>4 DEF RunningIn
<1>6. f \in Surjection(H, R)
  <2>1. f \in [H -> R]
    OBVIOUS
  <2>2. \A j \in R : \E u \in H : f[u] = j
    BY <1>5
  <2> HIDE DEF R, H, f
  <2> QED
    BY <2>1, <2>2 DEF Surjection
<1> HIDE DEF R, H, f, S
<1>7. IsFiniteSet(R) /\ Cardinality(R) <= Cardinality(H)
  BY <1>3, <1>6, FS_Surjection
<1>8. Cardinality(R) \in Nat /\ Cardinality(H) \in Nat /\ NumWorkers \in Nat
  BY <1>3, <1>7, FS_CardinalityType, PoolAssumption
<1>9. Cardinality(R) < NumWorkers
  BY <1>2, <1>3, <1>7, <1>8
<1> QED
  BY <1>9 DEF R

\* A step that leaves queues and jobs alone leaves the view alone.
LEMMA StillView == ASSUME StructInv, HoldInv, Still PROVE SameView
<1>1. UNCHANGED <<jobs, local_jobs, accepted, ran, job>> /\ accepted \subseteq Job
  BY DEF Still, StructInv, ThreadType
<1>2. ASSUME NEW w \in Worker, job[w] \in Job PROVE pc'[w] \in Dead <=> pc[w] \in Dead
  <2>1. Kind(w)' = Kind(w)
    BY <1>2 DEF Still, HoldInv
  <2> QED
    BY <2>1 DEF Kind, HandPc, RunPc, AddPc, Dead
<1>3. ASSUME NEW p \in Pool PROVE WaitingIn(p)' = WaitingIn(p) /\ RunningIn(p)' = RunningIn(p)
  <2>1. \A j : Queued(p, j)' <=> Queued(p, j)
    BY <1>1 DEF Queued, Has
  <2>2. \A j \in Job : Held(p, j)' <=> Held(p, j)
    BY <1>1, <1>2, WorkersOf DEF Held
  <2> QED
    BY <1>1, <2>1, <2>2, Members, MembersNext
<1>4. DoneJobs' = DoneJobs
  BY <1>1 DEF DoneJobs
<1>5. LostJobs' = LostJobs
  BY <1>1, <1>3, <1>4, LostSame
<1> QED
  BY <1>3, <1>4, <1>5 DEF SameView

\* A job that joins the queues of one pool waits there.
LEMMA AddView ==
  ASSUME StructInv, JobInv, HoldInv, NEW p \in Pool, NEW j \in Job, j \notin accepted,
         \A q \in Pool : \A i : Queued(q, i)' <=> Queued(q, i) \/ (q = p /\ i = j),
         UNCHANGED <<job, ran>>, accepted' = accepted \cup {j},
         \A w \in Worker : pc'[w] \in Dead <=> pc[w] \in Dead
  PROVE  /\ \A q \in Pool : WaitingIn(q)' = IF q = p THEN WaitingIn(q) \cup {j}
                                            ELSE WaitingIn(q)
         /\ \A q \in Pool : RunningIn(q)' = RunningIn(q)
         /\ DoneJobs' = DoneJobs /\ LostJobs' = LostJobs
<1>1. /\ ran[j] = 0 /\ \A w \in Worker : job[w] # j
      /\ \A q \in Pool : ~Queued(q, j) /\ ~Held(q, j)
  <2>1. ran[j] = 0
    BY DEF JobInv, KeptOf, Nowhere
  <2>2. \A w \in Worker : job[w] # j
    BY DEF HoldInv
  <2> QED
    BY <2>1, <2>2, QueuedJob, WorkersOf DEF Held
<1>2. \A q \in Pool : \A i : Held(q, i)' <=> Held(q, i)
  BY WorkersOf DEF Held
<1>3. ASSUME NEW q \in Pool
      PROVE  /\ WaitingIn(q)' = IF q = p THEN WaitingIn(q) \cup {j} ELSE WaitingIn(q)
             /\ RunningIn(q)' = RunningIn(q)
  <2>1. \A i : i \in RunningIn(q)' <=> i \in RunningIn(q)
    BY <1>1, <1>2, Members, MembersNext
  <2>2. \A i : i \in WaitingIn(q)' <=> i \in WaitingIn(q) \/ (q = p /\ i = j)
    BY <1>1, <1>2, Members, MembersNext
  <2> QED
    BY <2>1, <2>2
<1>4. DoneJobs' = DoneJobs
  <2>1. \A i : i \in DoneJobs' <=> i \in DoneJobs
    BY <1>1, DoneMembers
  <2> QED
    BY <2>1
<1>5. j \in WaitingIn(p)' /\ j \notin LostJobs
  BY <1>3 DEF LostJobs
<1>6. LostJobs' = LostJobs
  <2>1. \A i : i # j => (i \in LostJobs' <=> i \in LostJobs)
    BY <1>3, <1>4, LostMembers
  <2>2. j \notin LostJobs'
    BY <1>5, LostMembers
  <2> QED
    BY <1>5, <2>1, <2>2
<1> QED
  BY <1>3, <1>4, <1>6

LEMMA AddLocalView ==
  ASSUME StructInv, JobInv, HoldInv, NEW t \in Thread, AddLocal(t)
  PROVE  JP!Next
<1>1. /\ t \in Worker /\ pc[t] = "enqueue" /\ add[t] \in Job /\ add[t] \notin accepted
      /\ local_jobs' = [local_jobs EXCEPT ![t] = Append(@, add[t])]
      /\ UNCHANGED <<phase, jobs, job, ran>> /\ accepted' = accepted \cup {add[t]}
      /\ pc' = [pc EXCEPT ![t] = "count"]
  BY DEF AddLocal, Goto, StructInv, PlaceInv, AddPc, JobInv, AddInv, PrePc
<1>2. PICK p \in Pool : p = t[1] /\ t \in Workers(p)
  BY <1>1, PoolOf
<1>3. local_jobs \in [Worker -> Seq(Job)] /\ pc \in [Thread -> Label]
  BY DEF StructInv, QueueType, ThreadType
<1>4. /\ local_jobs'[t] = Append(local_jobs[t], add[t])
      /\ \A w \in Worker : w # t => local_jobs'[w] = local_jobs[w]
  BY <1>1, <1>3
<1>5. \A i : /\ Has(local_jobs'[t], i) <=> Has(local_jobs[t], i) \/ i = add[t]
             /\ \A w \in Worker : w # t =>
                  (Has(local_jobs'[w], i) <=> Has(local_jobs[w], i))
  BY <1>1, <1>3, <1>4, HasAppend
<1>6. \A q \in Pool : \A i : Queued(q, i)' <=> Queued(q, i) \/ (q = p /\ i = add[t])
  <2>1. ASSUME NEW q \in Pool, NEW i
        PROVE  Queued(q, i)' <=> Queued(q, i) \/ (q = p /\ i = add[t])
    <3>1. Has(jobs[q], i)' <=> Has(jobs[q], i)
      BY <1>1 DEF Has
    <3>2. \A w \in Workers(q) : w \in Worker /\ w[1] = q
      BY WorkersOf
    <3>3. Queued(q, i)' <=> Has(jobs[q], i) \/ \E w \in Workers(q) : Has(local_jobs'[w], i)
      BY <3>1 DEF Queued, Has
    <3> QED
      BY <1>2, <1>5, <3>2, <3>3 DEF Queued
  <2> QED
    BY <2>1
<1>7. \A w \in Worker : pc'[w] \in Dead <=> pc[w] \in Dead
  BY <1>1, <1>3, PoolOf DEF Dead
<1>8. /\ \A q \in Pool : WaitingIn(q)' = IF q = p THEN WaitingIn(q) \cup {add[t]}
                                            ELSE WaitingIn(q)
      /\ \A q \in Pool : RunningIn(q)' = RunningIn(q)
      /\ DoneJobs' = DoneJobs /\ LostJobs' = LostJobs
  BY <1>1, <1>6, <1>7, AddView
<1>9. RunningIn(p) # {}
  <2>1. Kind(t) = "run"
    BY <1>1 DEF Kind, HandPc, RunPc, AddPc
  <2>2. job[t] \in Job /\ ran[job[t]] = 1
    BY <1>1, <2>1 DEF HoldInv
  <2>3. job[t] \in RunningIn(p)
    BY <1>1, <1>2, <2>1, <2>2, OneHolder, Members
  <2> QED
    BY <2>3
<1>10. phase[p] \in {"up", "closing"}
  <2>1. phase[p] # "none"
    BY <1>1, <1>2 DEF StructInv, PhaseInv, NoneInv
  <2>2. phase[p] # "freed"
    BY <1>1, <1>2 DEF StructInv, PhaseInv, FreedInv
  <2> QED
    BY <2>1, <2>2 DEF StructInv, PoolType, Phase
<1> QED
  BY <1>1, <1>8, <1>9, <1>10, IsSubmit

LEMMA AddGlobalView ==
  ASSUME StructInv, JobInv, HoldInv, NEW t \in Thread, AddGlobal(t)
  PROVE  JP!Next
<1>1. /\ t \in Client /\ pc[t] = "enqueue" /\ add[t] \in Job /\ add[t] \notin accepted
      /\ tp[t] \in Pool
      /\ jobs' = [jobs EXCEPT ![tp[t]] = Append(@, add[t])]
      /\ UNCHANGED <<phase, local_jobs, job, ran>> /\ accepted' = accepted \cup {add[t]}
      /\ pc' = [pc EXCEPT ![t] = "broadcast"]
  BY DEF AddGlobal, Goto, StructInv, PlaceInv, AddPc, JobInv, AddInv, PrePc
<1>2. PICK p \in Pool : p = tp[t]
  BY <1>1
<1>3. jobs \in [Pool -> Seq(Job)] /\ pc \in [Thread -> Label]
  BY DEF StructInv, QueueType, ThreadType
<1>4. /\ jobs'[p] = Append(jobs[p], add[t])
      /\ \A q \in Pool : q # p => jobs'[q] = jobs[q]
  BY <1>1, <1>2, <1>3
<1>5. \A i : /\ Has(jobs'[p], i) <=> Has(jobs[p], i) \/ i = add[t]
             /\ \A q \in Pool : q # p => (Has(jobs'[q], i) <=> Has(jobs[q], i))
  BY <1>1, <1>3, <1>4, HasAppend
<1>6. \A q \in Pool : \A i : Queued(q, i)' <=> Queued(q, i) \/ (q = p /\ i = add[t])
  <2>1. ASSUME NEW q \in Pool, NEW i
        PROVE  Queued(q, i)' <=> Queued(q, i) \/ (q = p /\ i = add[t])
    <3>1. Queued(q, i)' <=> Has(jobs'[q], i) \/ \E w \in Workers(q) : Has(local_jobs[w], i)
      BY <1>1 DEF Queued, Has
    <3> QED
      BY <1>5, <3>1 DEF Queued
  <2> QED
    BY <2>1
<1>7. \A w \in Worker : pc'[w] \in Dead <=> pc[w] \in Dead
  BY <1>1, <1>3, PoolOf DEF Dead
<1>8. /\ \A q \in Pool : WaitingIn(q)' = IF q = p THEN WaitingIn(q) \cup {add[t]}
                                            ELSE WaitingIn(q)
      /\ \A q \in Pool : RunningIn(q)' = RunningIn(q)
      /\ DoneJobs' = DoneJobs /\ LostJobs' = LostJobs
  BY <1>1, <1>6, <1>7, AddView
<1>9. phase[p] = "up"
  <2>1. phase[p] # "none" /\ phase[p] # "freed"
    BY <1>2 DEF StructInv, PhaseInv, NoneInv, FreedInv
  <2>2. phase[p] # "closing"
    BY <1>1, <1>2, WorkersOf DEF StructInv, PhaseInv, OpenInv, DestroyPc, LoopPc
  <2> QED
    BY <2>1, <2>2 DEF StructInv, PoolType, Phase
<1> QED
  BY <1>1, <1>8, <1>9, IsSubmit

\* Worker w takes job h from a queue of its pool.
Takes(w, h) ==
  /\ Queued(w[1], h) /\ pc[w] = "seek" /\ pc'[w] \notin Dead
  /\ \A q \in Pool : \A i : Queued(q, i) <=> Queued(q, i)' \/ (q = w[1] /\ i = h)
  /\ \A u \in Worker : u # w => pc'[u] = pc[u]
  /\ job' = [job EXCEPT ![w] = h] /\ UNCHANGED <<accepted, ran>>

\* The job goes on waiting.
LEMMA TakeView ==
  ASSUME StructInv, JobInv, HoldInv, NEW w \in Worker, NEW h \in Job, Takes(w, h)
  PROVE  SameView
<1>0. PICK p \in Pool : p = w[1]
  BY PoolOf
<1> USE <1>0 DEF Takes
<1>1. /\ h \in accepted /\ ran[h] = 0 /\ \A u \in Worker : job[u] # h
      /\ \A q \in Pool : Queued(q, h) => q = p
  BY QueuedJob
<1>2. job'[w] = h /\ \A u \in Worker : u # w => job'[u] = job[u]
  BY DEF StructInv, ThreadType
<1>3. job[w] \notin Job
  BY DEF HoldInv, Kind, HandPc, RunPc, AddPc, Dead
<1>4. \A q \in Pool : \A i \in Job : Held(q, i)' <=> Held(q, i) \/ (q = p /\ i = h)
  <2>1. ASSUME NEW q \in Pool, NEW i \in Job
        PROVE  Held(q, i)' <=> Held(q, i) \/ (q = p /\ i = h)
    <3>1. \A u \in Workers(q) : u \in Worker /\ u[1] = q
      BY WorkersOf
    <3>2. w \in Workers(p)
      BY PoolOf
    <3>3. ASSUME NEW u \in Workers(q), job'[u] = i, pc'[u] \notin Dead
          PROVE  Held(q, i) \/ (q = p /\ i = h)
      BY <1>2, <3>1, <3>3 DEF Held
    <3>4. ASSUME NEW u \in Workers(q), job[u] = i, pc[u] \notin Dead PROVE Held(q, i)'
      <4>1. u # w
        BY <1>3, <3>4
      <4> QED
        BY <1>2, <3>1, <3>4, <4>1 DEF Held
    <3>5. q = p /\ i = h => Held(q, i)'
      BY <1>2, <3>2 DEF Held
    <3> QED
      BY <3>3, <3>4, <3>5 DEF Held
  <2> QED
    BY <2>1
<1>5. accepted \subseteq Job /\ accepted' = accepted
  BY DEF StructInv, ThreadType
<1>6. ASSUME NEW q \in Pool PROVE WaitingIn(q)' = WaitingIn(q) /\ RunningIn(q)' = RunningIn(q)
  <2>1. \A i : i \in WaitingIn(q)' <=> i \in WaitingIn(q)
    BY <1>1, <1>4, <1>5, Members, MembersNext
  <2>2. \A i : i \in RunningIn(q)' <=> i \in RunningIn(q)
    BY <1>1, <1>4, <1>5, Members, MembersNext
  <2> QED
    BY <2>1, <2>2
<1>7. DoneJobs' = DoneJobs
  <2>1. \A i : i \in DoneJobs' <=> i \in DoneJobs
    BY <1>1, <1>2, <1>3, <1>5, DoneMembers
  <2> QED
    BY <2>1
<1> HIDE <1>0 DEF Takes
<1>8. LostJobs' = LostJobs
  BY <1>5, <1>6, <1>7, LostSame
<1> QED
  BY <1>6, <1>7, <1>8 DEF SameView

LEMMA SeekLocalView ==
  ASSUME StructInv, JobInv, HoldInv, NEW w \in Worker, SeekLocal(w)
  PROVE  SameView
<1>1. PICK p \in Pool : p = w[1] /\ w \in Workers(p)
  BY PoolOf
<1>2. PICK v \in LocalSource(w) : /\ job' = [job EXCEPT ![w] = Head(local_jobs[v])]
                                  /\ local_jobs' = [local_jobs EXCEPT ![v] = Tail(@)]
  BY DEF SeekLocal
<1>3. v \in Workers(p) /\ v \in Worker /\ local_jobs[v] # <<>>
  BY <1>1, <1>2, WorkersOf DEF LocalSource, Victim
<1>4. PICK h \in Job : h = Head(local_jobs[v])
  BY <1>3, LocalHead
<1>5. /\ local_jobs \in [Worker -> Seq(Job)]
      /\ local_jobs'[v] = Tail(local_jobs[v])
      /\ \A u \in Worker : u # v => local_jobs'[u] = local_jobs[u]
  BY <1>2, <1>3 DEF StructInv, QueueType
<1>6. \A i : /\ Has(local_jobs[v], i) <=> i = h \/ Has(local_jobs'[v], i)
             /\ \A u \in Worker : u # v =>
                  (Has(local_jobs'[u], i) <=> Has(local_jobs[u], i))
  BY <1>3, <1>4, <1>5, HasTail
<1>7. /\ UNCHANGED <<jobs, accepted, ran>> /\ pc[w] = "seek" /\ pc'[w] \notin Dead
      /\ \A u \in Worker : u # w => pc'[u] = pc[u]
  BY DEF SeekLocal, Goto, hvars, StructInv, ThreadType, Dead
<1>8. \A q \in Pool : \A i : Queued(q, i) <=> Queued(q, i)' \/ (q = p /\ i = h)
  <2>1. ASSUME NEW q \in Pool, NEW i
        PROVE  Queued(q, i) <=> Queued(q, i)' \/ (q = p /\ i = h)
    <3>1. Queued(q, i)' <=> Has(jobs[q], i) \/ \E u \in Workers(q) : Has(local_jobs'[u], i)
      BY <1>7 DEF Queued, Has
    <3>2. \A u \in Workers(q) : u \in Worker /\ u[1] = q
      BY WorkersOf
    <3>3. v[1] = p
      BY <1>3, WorkersOf
    <3> QED
      BY <1>3, <1>6, <3>1, <3>2, <3>3 DEF Queued
  <2> QED
    BY <2>1
<1>9. Queued(p, h)
  BY <1>8
<1>10. job' = [job EXCEPT ![w] = h]
  BY <1>2, <1>4
<1>11. Takes(w, h)
  BY <1>1, <1>7, <1>8, <1>9, <1>10 DEF Takes
<1> QED
  BY <1>11, TakeView

LEMMA SeekGlobalView ==
  ASSUME StructInv, JobInv, HoldInv, NEW w \in Worker, SeekGlobal(w)
  PROVE  SameView
<1>1. PICK p \in Pool : p = w[1] /\ w \in Workers(p)
  BY PoolOf
<1>2. /\ job' = [job EXCEPT ![w] = Head(jobs[p])] /\ jobs[p] # <<>>
      /\ jobs' = [jobs EXCEPT ![p] = Tail(@)]
  BY <1>1 DEF SeekGlobal
<1>4. PICK h \in Job : h = Head(jobs[p])
  BY <1>2, GlobalHead
<1>5. /\ jobs \in [Pool -> Seq(Job)]
      /\ jobs'[p] = Tail(jobs[p])
      /\ \A q \in Pool : q # p => jobs'[q] = jobs[q]
  BY <1>2 DEF StructInv, QueueType
<1>6. \A i : /\ Has(jobs[p], i) <=> i = h \/ Has(jobs'[p], i)
             /\ \A q \in Pool : q # p => (Has(jobs'[q], i) <=> Has(jobs[q], i))
  BY <1>2, <1>4, <1>5, HasTail
<1>7. /\ UNCHANGED <<local_jobs, accepted, ran>> /\ pc[w] = "seek" /\ pc'[w] \notin Dead
      /\ \A u \in Worker : u # w => pc'[u] = pc[u]
  BY DEF SeekGlobal, Goto, hvars, StructInv, ThreadType, Dead
<1>8. \A q \in Pool : \A i : Queued(q, i) <=> Queued(q, i)' \/ (q = p /\ i = h)
  <2>1. ASSUME NEW q \in Pool, NEW i
        PROVE  Queued(q, i) <=> Queued(q, i)' \/ (q = p /\ i = h)
    <3>1. Queued(q, i)' <=> Has(jobs'[q], i) \/ \E u \in Workers(q) : Has(local_jobs[u], i)
      BY <1>7 DEF Queued, Has
    <3> QED
      BY <1>6, <3>1 DEF Queued
  <2> QED
    BY <2>1
<1>9. Queued(p, h)
  BY <1>8
<1>10. job' = [job EXCEPT ![w] = h]
  BY <1>2, <1>4
<1>11. Takes(w, h)
  BY <1>1, <1>7, <1>8, <1>9, <1>10 DEF Takes
<1> QED
  BY <1>11, TakeView

LEMMA RunView ==
  ASSUME StructInv, JobInv, HoldInv, NEW w \in Worker, Run(w)
  PROVE  JP!Next
<1>1. PICK p \in Pool : p = w[1]
  BY PoolOf
<1>2. Kind(w) = "hand" /\ pc[w] = "got"
  BY DEF Run, Kind, HandPc
<1>3. PICK j \in Job : j = job[w]
  BY <1>2 DEF HoldInv
<1>4. /\ j \in accepted /\ ran[j] = 0 /\ Held(p, j)
      /\ \A v \in Worker : job[v] = j => v = w
      /\ \A q \in Pool : q # p => ~Held(q, j)
  BY <1>1, <1>2, <1>3, OneHolder DEF HoldInv
<1>5. \A q \in Pool : ~Queued(q, j)
  BY <1>3, QueuedJob
<1>6. /\ UNCHANGED <<phase, jobs, local_jobs, job, accepted>>
      /\ ran'[j] = 1 /\ \A i \in Job : i # j => ran'[i] = ran[i]
      /\ \A v \in Worker : pc'[v] \in Dead <=> pc[v] \in Dead
  BY <1>3, <1>4, PoolOf DEF Run, Goto, qvars, StructInv, ThreadType, Dead
<1>7. \A q \in Pool : \A i : (Queued(q, i)' <=> Queued(q, i)) /\ (Held(q, i)' <=> Held(q, i))
  BY <1>6, WorkersOf DEF Queued, Has, Held
<1>8. accepted \subseteq Job
  BY DEF StructInv, ThreadType
<1>9. ASSUME NEW q \in Pool
      PROVE  /\ WaitingIn(q)' = IF q = p THEN WaitingIn(q) \ {j} ELSE WaitingIn(q)
             /\ RunningIn(q)' = IF q = p THEN RunningIn(q) \cup {j} ELSE RunningIn(q)
  <2>1. \A i : i \in WaitingIn(q)' <=> i \in WaitingIn(q) /\ i # j
    BY <1>6, <1>7, <1>8, Members, MembersNext
  <2>2. \A i : i \in RunningIn(q)' <=> i \in RunningIn(q) \/ (q = p /\ i = j)
    BY <1>4, <1>6, <1>7, <1>8, Members, MembersNext
  <2>3. q # p => j \notin WaitingIn(q)
    BY <1>4, <1>5, Members
  <2> QED
    BY <2>1, <2>2, <2>3
<1>10. DoneJobs' = DoneJobs
  <2>1. \A i : i \in DoneJobs' <=> i \in DoneJobs
    BY <1>3, <1>6, <1>8, DoneMembers
  <2> QED
    BY <2>1
<1>11. LostJobs' = LostJobs
  <2>1. \A i : (\A q \in Pool : i \notin WaitingIn(q)' /\ i \notin RunningIn(q)')
                 <=> \A q \in Pool : i \notin WaitingIn(q) /\ i \notin RunningIn(q)
    <3>1. j \in WaitingIn(p) /\ j \in RunningIn(p)'
      BY <1>4, <1>9, Members
    <3> QED
      BY <1>9, <3>1
  <2>2. \A i : i \in LostJobs' <=> i \in LostJobs
    BY <1>6, <1>10, <2>1, LostMembers
  <2> QED
    BY <2>2
<1>12. j \in WaitingIn(p) /\ Cardinality(RunningIn(p)) < NumWorkers
  BY <1>1, <1>2, <1>4, FewerRunning, Members
<1> QED
  BY <1>6, <1>9, <1>10, <1>11, <1>12, IsStart

\* A running job ends, either way.
LEMMA EndView ==
  ASSUME StructInv, JobInv, HoldInv, NEW w \in Worker, pc[w] = "run",
         UNCHANGED <<phase, jobs, local_jobs, accepted, ran>>,
         \A v \in Worker : v # w => pc'[v] = pc[v] /\ job'[v] = job[v],
         \/ job'[w] = None
         \/ job'[w] = job[w] /\ pc'[w] \in Dead /\ phase[w[1]] = "closing"
  PROVE  JP!Next
<1>1. PICK p \in Pool : p = w[1]
  BY PoolOf
<1>2. Kind(w) = "run" /\ pc[w] \notin Dead
  BY DEF Kind, HandPc, RunPc, Dead
<1>3. PICK j \in Job : j = job[w]
  BY <1>2 DEF HoldInv
<1>4. /\ j \in accepted /\ ran[j] = 1 /\ Held(p, j)
      /\ \A v \in Worker : job[v] = j => v = w
      /\ \A q \in Pool : q # p => ~Held(q, j)
  BY <1>1, <1>2, <1>3, OneHolder DEF HoldInv
<1>5. accepted \subseteq Job /\ j # None /\ None \notin Job
  BY PoolAssumption DEF StructInv, ThreadType
<1>6. \A q \in Pool : \A i \in Job : /\ Queued(q, i)' <=> Queued(q, i)
                                     /\ Held(q, i)' <=> (Held(q, i) /\ i # j)
  <2>1. ASSUME NEW q \in Pool, NEW i \in Job PROVE Held(q, i)' <=> (Held(q, i) /\ i # j)
    <3>1. \A u \in Workers(q) : u \in Worker
      BY WorkersOf
    <3>2. ASSUME NEW u \in Workers(q), job'[u] = i, pc'[u] \notin Dead
          PROVE  Held(q, i) /\ i # j
      <4>1. u # w
        BY <1>5, <3>2
      <4> QED
        BY <1>4, <3>1, <3>2, <4>1 DEF Held
    <3>3. ASSUME NEW u \in Workers(q), job[u] = i, pc[u] \notin Dead, i # j
          PROVE  Held(q, i)'
      <4>1. u # w
        BY <1>3, <3>3
      <4> QED
        BY <3>1, <3>3, <4>1 DEF Held
    <3> QED
      BY <3>2, <3>3 DEF Held
  <2> QED
    BY <2>1 DEF Queued, Has
<1>7. ASSUME NEW q \in Pool
      PROVE  /\ WaitingIn(q)' = WaitingIn(q)
             /\ RunningIn(q)' = IF q = p THEN RunningIn(q) \ {j} ELSE RunningIn(q)
  <2>1. \A i : i \in WaitingIn(q)' <=> i \in WaitingIn(q)
    BY <1>4, <1>5, <1>6, Members, MembersNext
  <2>2. \A i : i \in RunningIn(q)' <=> i \in RunningIn(q) /\ i # j
    BY <1>5, <1>6, Members, MembersNext
  <2>3. q # p => j \notin RunningIn(q)
    BY <1>4, Members
  <2> QED
    BY <2>1, <2>2, <2>3
<1>8. j \in RunningIn(p) /\ j \notin DoneJobs /\ j \notin LostJobs
  <2>1. j \in RunningIn(p)
    BY <1>4, Members
  <2> QED
    BY <1>3, <2>1, DoneMembers, LostMembers
<1>9. \A q \in Pool : j \notin WaitingIn(q)' /\ j \notin RunningIn(q)'
  <2>1. \A q \in Pool : j \notin WaitingIn(q)
    BY <1>4, Members
  <2>2. \A q \in Pool : q # p => j \notin RunningIn(q)
    BY <1>4, Members
  <2> QED
    BY <1>7, <2>1, <2>2
<1>10. \A i : i # j =>
         ((\A q \in Pool : i \notin WaitingIn(q)' /\ i \notin RunningIn(q)')
            <=> \A q \in Pool : i \notin WaitingIn(q) /\ i \notin RunningIn(q))
  BY <1>7
<1>11. CASE job'[w] = None
  <2>1. \A i : i \in DoneJobs' <=> i \in DoneJobs \/ i = j
    BY <1>3, <1>4, <1>5, <1>11, DoneMembers
  <2>2. DoneJobs' = DoneJobs \cup {j}
    BY <2>1
  <2>3. \A i : i \in LostJobs' <=> i \in LostJobs
    BY <1>8, <1>10, <2>1, LostMembers
  <2>4. LostJobs' = LostJobs
    BY <2>3
  <2> QED
    BY <1>7, <1>8, <2>2, <2>4, IsEnd
<1>12. CASE job'[w] = job[w] /\ phase[p] = "closing"
  <2>1. \A i : i \in DoneJobs' <=> i \in DoneJobs
    BY <1>12, DoneMembers
  <2>2. DoneJobs' = DoneJobs
    BY <2>1
  <2>3. \A i : i \in LostJobs' <=> i \in LostJobs \/ i = j
    BY <1>4, <1>8, <1>9, <1>10, <2>1, LostMembers
  <2>4. LostJobs' = LostJobs \cup {j}
    BY <2>3
  <2> QED
    BY <1>7, <1>8, <1>12, <2>2, <2>4, IsEnd
<1> QED
  BY <1>1, <1>11, <1>12

\* A pool is freed when its workers are gone; the jobs in its queues are lost.
LEMMA FreeView ==
  ASSUME StructInv, JobInv, HoldInv, NEW c \in Client, DestroyFree(c)
  PROVE  JP!Next
<1>1. /\ pc[c] = "d_cancel" /\ tp[c] \in Pool /\ phase[tp[c]] = "closing" /\ idx[c] < 0
  BY DEF DestroyFree, LoopEnds, StructInv, DestroyInv, OwnerInv, DestroyPc, LoopPc
<1>2. PICK p \in Pool : p = tp[c]
  BY <1>1
<1>3. \A w \in Workers(p) : pc[w] \in Dead
  <2>1. \A w \in Workers(p) : w[2] > idx[c] => pc[w] = "joined"
    BY <1>1, <1>2 DEF StructInv, DestroyInv, JoinedInv, LoopPc
  <2>2. \A w \in Workers(p) : w[2] \in Nat
    BY WorkersOf DEF Index
  <2>3. idx[c] \in Int
    BY PoolAssumption DEF StructInv, ThreadType
  <2>4. \A w \in Workers(p) : w[2] > idx[c]
    BY <1>1, <2>2, <2>3
  <2> QED
    BY <2>1, <2>4 DEF Dead
<1>4. /\ jobs'[p] = <<>> /\ \A q \in Pool : q # p => jobs'[q] = jobs[q]
      /\ \A w \in Workers(p) : local_jobs'[w] = <<>>
      /\ \A q \in Pool : q # p => \A w \in Workers(q) : local_jobs'[w] = local_jobs[w]
      /\ phase' = [phase EXCEPT ![p] = "freed"]
  <2>1. /\ jobs' = [jobs EXCEPT ![p] = <<>>] /\ phase' = [phase EXCEPT ![p] = "freed"]
        /\ local_jobs' = [w \in Worker |-> IF w \in Workers(p) THEN <<>> ELSE local_jobs[w]]
    BY <1>2 DEF DestroyFree
  <2>2. /\ jobs'[p] = <<>> /\ \A q \in Pool : q # p => jobs'[q] = jobs[q]
    BY <2>1 DEF StructInv, QueueType
  <2>3. \A q \in Pool : \A w \in Workers(q) : w \in Worker /\ (w \in Workers(p) => q = p)
    BY WorkersOf
  <2>4. \A w \in Workers(p) : local_jobs'[w] = <<>>
    BY <2>1, <2>3
  <2>5. \A q \in Pool : q # p => \A w \in Workers(q) : local_jobs'[w] = local_jobs[w]
    BY <2>1, <2>3
  <2> QED
    BY <2>1, <2>2, <2>4, <2>5
<1>5. UNCHANGED <<job, accepted, ran>> /\ \A w \in Worker : pc'[w] = pc[w]
  BY PoolOf DEF DestroyFree, Goto, hvars, StructInv, ThreadType
<1>6. \A i : /\ ~Queued(p, i)'
             /\ \A q \in Pool : q # p => (Queued(q, i)' <=> Queued(q, i))
  <2>1. ASSUME NEW i PROVE ~Queued(p, i)'
    BY <1>4 DEF Queued, Has
  <2>2. ASSUME NEW i, NEW q \in Pool, q # p PROVE Queued(q, i)' <=> Queued(q, i)
    <3>1. jobs'[q] = jobs[q] /\ \A w \in Workers(q) : local_jobs'[w] = local_jobs[w]
      BY <1>4, <2>2
    <3> QED
      BY <3>1 DEF Queued, Has
  <2> QED
    BY <2>1, <2>2
<1>7. \A q \in Pool : \A i : Held(q, i)' <=> Held(q, i)
  BY <1>5, WorkersOf DEF Held
<1>8. \A i : ~Held(p, i)
  BY <1>3 DEF Held
<1>9. ASSUME NEW q \in Pool
      PROVE  /\ WaitingIn(q)' = IF q = p THEN {} ELSE WaitingIn(q)
             /\ RunningIn(q)' = RunningIn(q)
  <2>1. \A i : i \in WaitingIn(q)' <=> i \in WaitingIn(q) /\ q # p
    BY <1>5, <1>6, <1>7, <1>8, Members, MembersNext
  <2>2. \A i : i \in RunningIn(q)' <=> i \in RunningIn(q)
    BY <1>5, <1>7, Members, MembersNext
  <2> QED
    BY <2>1, <2>2
<1>10. RunningIn(p) = {}
  BY <1>8, Members
<1>11. DoneJobs' = DoneJobs
  BY <1>5 DEF DoneJobs
<1>12. ASSUME NEW i \in WaitingIn(p)
       PROVE  /\ i \notin DoneJobs
              /\ \A q \in Pool : q # p => i \notin WaitingIn(q) /\ i \notin RunningIn(q)
  <2>1. Queued(p, i) /\ ran[i] = 0
    BY <1>8, <1>12, Members
  <2>2. /\ \A w \in Worker : job[w] # i
        /\ \A q \in Pool : Queued(q, i) => q = p
    BY <2>1, QueuedJob
  <2>3. \A q \in Pool : ~Held(q, i)
    BY <2>2, WorkersOf DEF Held
  <2> QED
    BY <2>1, <2>2, <2>3, Members, DoneMembers
<1>13. LostJobs' = LostJobs \cup WaitingIn(p)
  <2>1. \A i : i \in LostJobs' => i \in LostJobs \/ i \in WaitingIn(p)
    <3>1. ASSUME NEW i \in LostJobs', i \notin WaitingIn(p) PROVE i \in LostJobs
      <4>1. \A q \in Pool : i \notin WaitingIn(q) /\ i \notin RunningIn(q)
        BY <1>9, <3>1, LostMembers
      <4> QED
        BY <1>5, <1>11, <3>1, <4>1, LostMembers
    <3> QED
      BY <3>1
  <2>2. ASSUME NEW i \in WaitingIn(p) PROVE i \in LostJobs'
    <3>1. \A q \in Pool : i \notin WaitingIn(q)' /\ i \notin RunningIn(q)'
      BY <1>9, <1>10, <1>12
    <3>2. i \in accepted' /\ i \notin DoneJobs'
      BY <1>5, <1>11, <1>12, Members
    <3> QED
      BY <3>1, <3>2, LostMembers
  <2>3. ASSUME NEW i \in LostJobs PROVE i \in LostJobs'
    <3>1. \A q \in Pool : i \notin WaitingIn(q)' /\ i \notin RunningIn(q)'
      BY <1>9, LostMembers
    <3>2. i \in accepted' /\ i \notin DoneJobs'
      BY <1>5, <1>11, LostMembers
    <3> QED
      BY <3>1, <3>2, LostMembers
  <2> QED
    BY <2>1, <2>2, <2>3
<1> QED
  BY <1>1, <1>2, <1>4, <1>9, <1>10, <1>11, <1>13, IsFree

-----------------------------------------------------------------------------
\* Every step of the pool is a step of JobPool or leaves its view alone.
LEMMA StepRefines ==
  StructInv /\ JobInv /\ HoldInv /\ CancelInv /\ [Next]_vars => [JP!Next]_(JP!vars)
<1> SUFFICES ASSUME StructInv, JobInv, HoldInv, CancelInv, [Next]_vars
             PROVE  JP!Next \/ UNCHANGED JP!vars
  OBVIOUS
<1>1. CASE Still
  <2>1. SameView
    BY <1>1, StillView
  <2>2. \/ phase' = phase
        \/ \E p \in Pool :
             \/ /\ phase[p] = "none"
                /\ \E s \in {"up", "closing", "freed"} : phase' = [phase EXCEPT ![p] = s]
             \/ phase[p] = "up" /\ phase' = [phase EXCEPT ![p] = "closing"]
    BY <1>1 DEF Still
  <2>3. CASE phase' = phase
    BY <2>1, <2>3, IsStutter
  <2>4. ASSUME NEW p \in Pool,
               \/ /\ phase[p] = "none"
                  /\ \E s \in {"up", "closing", "freed"} : phase' = [phase EXCEPT ![p] = s]
               \/ phase[p] = "up" /\ phase' = [phase EXCEPT ![p] = "closing"]
        PROVE  JP!Next
    BY <2>1, <2>4, IsPhase
  <2> QED
    BY <2>2, <2>3, <2>4
<1>2. ASSUME NEW w \in Worker, SeekLocal(w) \/ SeekGlobal(w) PROVE UNCHANGED JP!vars
  <2>1. SameView
    BY <1>2, SeekLocalView, SeekGlobalView
  <2>2. phase' = phase
    BY <1>2 DEF SeekLocal, SeekGlobal
  <2> QED
    BY <2>1, <2>2, IsStutter
<1>3. ASSUME NEW w \in Worker, JobReturns(w) PROVE JP!Next
  <2>1. /\ pc[w] = "run" /\ job'[w] = None
        /\ UNCHANGED <<phase, jobs, local_jobs, accepted, ran>>
        /\ \A v \in Worker : v # w => pc'[v] = pc[v] /\ job'[v] = job[v]
    BY <1>3, PoolOf DEF JobReturns, Goto, qvars, hvars, StructInv, ThreadType
  <2> QED
    BY <2>1, EndView
<1>4. ASSUME NEW w \in Worker, CancelInJob(w) PROVE JP!Next
  <2>1. /\ pc[w] = "run" /\ job'[w] = job[w] /\ pc'[w] \in Dead /\ w \in cancel
        /\ UNCHANGED <<phase, jobs, local_jobs, accepted, ran>>
        /\ \A v \in Worker : v # w => pc'[v] = pc[v] /\ job'[v] = job[v]
    BY <1>4, PoolOf DEF CancelInJob, Goto, qvars, hvars, StructInv, ThreadType, Dead
  <2>2. phase[w[1]] = "closing"
    BY <2>1, PoolOf DEF CancelInv, StructInv, PhaseInv, FreedInv
  <2> QED
    BY <2>1, <2>2, EndView
<1> QED
  BY <1>1, <1>2, <1>3, <1>4, AddLocalView, AddGlobalView, RunView, FreeView,
     StillOrMoving DEF Moving

LEMMA InitRefines == Init => JP!Init
<1> SUFFICES ASSUME Init PROVE JP!Init
  OBVIOUS
<1>1. accepted = {} /\ phase = [p \in Pool |-> "none"]
  BY DEF Init
<1>2. \A p \in Pool : WaitingIn(p) = {} /\ RunningIn(p) = {}
  BY <1>1 DEF WaitingIn, RunningIn
<1>3. DoneJobs = {} /\ LostJobs = {}
  BY <1>1 DEF DoneJobs, LostJobs
<1> QED
  BY <1>1, <1>2, <1>3 DEF JP!Init

LEMMA HoldInit == Init => HoldInv /\ CancelInv
<1> SUFFICES ASSUME Init PROVE HoldInv /\ CancelInv
  OBVIOUS
<1>1. \A w \in Worker : pc[w] = "unborn" /\ job[w] = None
  BY PoolOf DEF Init
<1>2. HoldInv
  BY <1>1, PoolAssumption DEF HoldInv, Kind, HandPc, RunPc, AddPc, Dead
<1> QED
  BY <1>2 DEF Init, CancelInv

\* The thread pool implements JobPool: a job that thrdpool_add accepted is
\* started once, by a worker of the pool that accepted it, with never more jobs
\* running than there are workers; only thrdpool_destroy kills running jobs and
\* drops waiting ones, and it does not free a pool while a job runs.
THEOREM JobPoolImplemented == Spec => ImplementsJobPool
<1>1. StructInv /\ JobInv /\ [Next]_vars => JobInv'
  BY AddStep, TakenStep, PlaceStep DEF JobInv
<1> QED
  BY <1>1, JobInit, HoldInit, HoldStep, CancelStep, InitRefines, StepRefines, Structure,
     PTL DEF Spec, ImplementsJobPool, JP!Spec

=============================================================================
