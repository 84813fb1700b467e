------------------------------- MODULE MCList -------------------------------
(* Small instances of List for TLC. *)
EXTENDS List, TLC

CONSTANTS t1, t2, t3, v1, v2

Both   == <<<<1, v1>>, <<2, v2>>>>
Second == <<<<2, v2>>>>

\* Either key may be inserted and deleted at once, by two threads or three.
Mixed == t1 :> {<<"insert", 1>>, <<"insert", 2>>, <<"search", 2>>}
         @@ t2 :> {<<"delete", 1>>, <<"delete", 2>>}
         @@ t3 :> {<<"delete", 1>>, <<"delete", 2>>, <<"insert", 2>>, <<"update", 2>>}

\* A key is deleted while one in front of it is inserted and deleted.
InFront == t1 :> {<<"delete", 2>>} @@ t2 :> {<<"insert", 1>>, <<"delete", 1>>}

\* A key is looked for while nodes of others are freed and used again.
Reused == t1 :> {<<"search", 2>>}
          @@ t2 :> {<<"delete", 1>>, <<"insert", 3>>, <<"delete", 3>>}

\* Until a hazard comes about, or only one kind of them does.
Unspoilt   == spoilt = {}
OnlyMisled == spoilt \subseteq {"misled"}
OnlyEarly  == spoilt \subseteq {"early"}
=============================================================================
