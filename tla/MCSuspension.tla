---------------------------- MODULE MCSuspension ----------------------------
(* Small instances of Suspension, and so of Readers, for TLC. *)
EXTENDS Suspension

CONSTANTS copier, updater, controller

OneCopy == [t \in Thread |-> IF t = copier THEN 1 ELSE 2]
=============================================================================
