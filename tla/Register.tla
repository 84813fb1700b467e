------------------------------ MODULE Register ------------------------------
(***************************************************************************)
(* What list_update, list_search and list_delete promise about the value   *)
(* of a node: an update and a copy are one step each, so that a copy is a  *)
(* value that was stored, whole, while the copying call was in progress.   *)
(***************************************************************************)
CONSTANTS Thread, Cell, Data

VARIABLES
  reg,  \* the value in each cell
  got   \* the last copy of each thread

vars == <<reg, got>>

Init == reg \in [Cell -> Data] /\ got \in [Thread -> Data]

Update(c, d) ==
  /\ reg' = [reg EXCEPT ![c] = d]
  /\ UNCHANGED got

Copy(t, c) ==
  /\ got' = [got EXCEPT ![t] = reg[c]]
  /\ UNCHANGED reg

Next == \E c \in Cell : \/ \E d \in Data : Update(c, d)
                        \/ \E t \in Thread : Copy(t, c)

Spec == Init /\ [][Next]_vars
=============================================================================
