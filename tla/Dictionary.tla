----------------------------- MODULE Dictionary -----------------------------
(***************************************************************************)
(* What the list of src/src/collections.c promises: a partial map from     *)
(* keys to values.  A call of list_insert or list_delete that succeeds     *)
(* changes it in one step, which may be a step of another thread, and one  *)
(* that is refused does not change it.                                     *)
(***************************************************************************)
CONSTANTS Thread, Key, Value, None

VARIABLES
  items,  \* the value of each key, or None
  call    \* each thread's call in progress, or the result of its last one

Idle(out) == [op |-> "none", out |-> out]

Calls == [op : {"insert", "update"}, key : Key, val : Value, done : {FALSE}] \cup
         [op : {"delete", "search"}, key : Key, val : {None}, done : {FALSE}]

Init == /\ items \in [Key -> Value \cup {None}]
        /\ call = [t \in Thread |-> Idle("none")]

\* Every step is one of a call, and none of the calls of other threads.
Alone(t) == call'[t] # call[t] /\ \A u \in Thread \ {t} : call'[u] = call[u]

Return(t, out) == call'[t] = Idle(out)

Begin(t) ==
  /\ call[t].op = "none"
  /\ call'[t] \in Calls
  /\ UNCHANGED items

Insert(t) ==
  /\ call[t].op = "insert"
  /\ Return(t, "ok")
  /\ items[call[t].key] = None
  /\ items' = [items EXCEPT ![call[t].key] = call[t].val]

\* The deletion takes effect, and returns in a later step.
Delete(t) ==
  /\ call[t].op = "delete" /\ ~ call[t].done
  /\ call'[t] = [call[t] EXCEPT !.done = TRUE]
  /\ items[call[t].key] # None
  /\ items' = [items EXCEPT ![call[t].key] = None]

Deleted(t) ==
  /\ call[t].op = "delete" /\ call[t].done
  /\ Return(t, "ok")
  /\ UNCHANGED items

\* An update that a deletion overtakes succeeds without effect.
Update(t) ==
  /\ call[t].op = "update"
  /\ Return(t, "ok")
  /\ \/ /\ items[call[t].key] # None
        /\ items' = [items EXCEPT ![call[t].key] = call[t].val]
     \/ UNCHANGED items

Search(t) == call[t].op = "search" /\ Return(t, "ok") /\ UNCHANGED items

Refuse(t) ==
  /\ call[t].op # "none"
  /\ ~ call[t].done
  /\ Return(t, "refused")
  /\ UNCHANGED items

Next == \E t \in Thread :
          /\ Alone(t)
          /\ \/ Begin(t) \/ Insert(t) \/ Delete(t) \/ Deleted(t)
             \/ Update(t) \/ Search(t) \/ Refuse(t)

Spec == Init /\ [][Next]_<<items, call>>
=============================================================================
