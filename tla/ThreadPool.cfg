\* One pool with two workers, a client, three jobs that may add jobs; every
\* creation may fail.
CONSTANTS
  Pool = {p}
  Client = {c}
  Job = {j1, j2, j3}
  NumWorkers = 2
  MaxJobs = 2
  Targets <- OwnTargets
  Faults = {"queue", "first", "thread", "nothread"}
  None = None
SPECIFICATION FairSpec
INVARIANTS
  TypeOK
  MutexSafe
  LocalCountExact
  NoLostWakeup
  JobConserved
  TeardownSafe
PROPERTIES
  LocalFirst
  ImplementsJobPool
  JobsRun
  DestroyReturns
