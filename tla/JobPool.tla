------------------------------ MODULE JobPool ------------------------------
(***************************************************************************)
(* What the thread pool of src/src/thread_pool.c promises about jobs,      *)
(* without queues, workers, locks or condition variables: a job waits in   *)
(* a pool, is started once by one of its NumWorkers workers, and finishes, *)
(* unless the destruction of the pool kills it or drops it.                *)
(***************************************************************************)
EXTENDS Naturals, FiniteSets

CONSTANTS Pool, Job, NumWorkers

VARIABLES
  phase,    \* "none", "up", "closing", "freed"
  waiting,  \* the accepted jobs of each pool that have not been started
  running,  \* the jobs being run
  done,     \* jobs that returned
  lost      \* jobs killed while running, or dropped with their pool

vars == <<phase, waiting, running, done, lost>>

Known == (UNION {waiting[p] \cup running[p] : p \in Pool}) \cup done \cup lost

Init ==
  /\ phase = [p \in Pool |-> "none"]
  /\ waiting = [p \in Pool |-> {}]
  /\ running = [p \in Pool |-> {}]
  /\ done = {}
  /\ lost = {}

\* A creation that fails leaves a pool that is gone, or about to go.
Open(p) ==
  /\ phase[p] = "none"
  /\ \E s \in {"up", "closing", "freed"} : phase' = [phase EXCEPT ![p] = s]
  /\ UNCHANGED <<waiting, running, done, lost>>

\* Jobs that still run may submit jobs while the pool is being destroyed.
Submit(p, j) ==
  /\ phase[p] = "up" \/ (phase[p] = "closing" /\ running[p] # {})
  /\ j \notin Known
  /\ waiting' = [waiting EXCEPT ![p] = @ \cup {j}]
  /\ UNCHANGED <<phase, running, done, lost>>

Start(p, j) ==
  /\ j \in waiting[p]
  /\ Cardinality(running[p]) < NumWorkers
  /\ waiting' = [waiting EXCEPT ![p] = @ \ {j}]
  /\ running' = [running EXCEPT ![p] = @ \cup {j}]
  /\ UNCHANGED <<phase, done, lost>>

Finish(p, j) ==
  /\ j \in running[p]
  /\ running' = [running EXCEPT ![p] = @ \ {j}]
  /\ done' = done \cup {j}
  /\ UNCHANGED <<phase, waiting, lost>>

Close(p) ==
  /\ phase[p] = "up"
  /\ phase' = [phase EXCEPT ![p] = "closing"]
  /\ UNCHANGED <<waiting, running, done, lost>>

Kill(p, j) ==
  /\ phase[p] = "closing" /\ j \in running[p]
  /\ running' = [running EXCEPT ![p] = @ \ {j}]
  /\ lost' = lost \cup {j}
  /\ UNCHANGED <<phase, waiting, done>>

Free(p) ==
  /\ phase[p] = "closing" /\ running[p] = {}
  /\ phase' = [phase EXCEPT ![p] = "freed"]
  /\ lost' = lost \cup waiting[p]
  /\ waiting' = [waiting EXCEPT ![p] = {}]
  /\ UNCHANGED <<running, done>>

Next ==
  \E p \in Pool :
    \/ Open(p) \/ Close(p) \/ Free(p)
    \/ \E j \in Job : Submit(p, j) \/ Start(p, j) \/ Finish(p, j) \/ Kill(p, j)

Spec == Init /\ [][Next]_vars
=============================================================================
