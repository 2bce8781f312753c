------------------------------- MODULE Mutex -------------------------------
(***************************************************************************)
(* What a lock promises its users, without files, ages or ttls: at most    *)
(* one process is inside, it got in when nobody was, and only its own      *)
(* leaving lets another one in.  AdvisoryLock implements it as long as its *)
(* users are cooperative (AdvisoryLock!Cooperative).                       *)
(***************************************************************************)
CONSTANT Procs

VARIABLE inside     \* the processes between acquiring and releasing

Init == inside = {}

Enter(p) == inside = {} /\ inside' = {p}

Leave(p) == inside = {p} /\ inside' = {}

Next == \E p \in Procs : Enter(p) \/ Leave(p)

Spec == Init /\ [][Next]_inside
=============================================================================
