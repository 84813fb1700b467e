---------------------------- MODULE MCThreadPool ----------------------------
(* Small instances of ThreadPool for TLC. *)
EXTENDS ThreadPool

\* Clients and jobs add to every pool, or jobs only to their own.
AnyTargets == [t \in Thread |-> Pool]
OwnTargets == [t \in Thread |-> IF t \in Worker THEN {t[1]} ELSE Pool]
=============================================================================
