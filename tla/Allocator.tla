----------------------------- MODULE Allocator -----------------------------
(***************************************************************************)
(* What a pool of connections promises to the threads that use it: a       *)
(* connection is lent to at most one thread at a time, and one that is     *)
(* given back can be lent again. A thread may be told that there is none.  *)
(***************************************************************************)

CONSTANTS Threads, Conns

VARIABLES lent   \* [thread, connection] pairs: who has what

Init == lent = {}

Lend(t, c) ==
    /\ \A p \in lent : p[1] # t /\ p[2] # c
    /\ lent' = lent \cup {<<t, c>>}

GiveBack(t, c) ==
    /\ <<t, c>> \in lent
    /\ lent' = lent \ {<<t, c>>}

Next == \E t \in Threads, c \in Conns : Lend(t, c) \/ GiveBack(t, c)

Spec == Init /\ [][Next]_lent
=============================================================================
