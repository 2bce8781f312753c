----------------------------- MODULE TaskStore -----------------------------
(***************************************************************************)
(* What a persistent task queue promises about each task it has accepted,  *)
(* whatever crashes in between: the task stays active until somebody has   *)
(* executed it or it is parked for an operator, a parked task only leaves  *)
(* to become active again, and nothing ever happens to a task that is      *)
(* done.  There is no action that forgets a task.                          *)
(***************************************************************************)
CONSTANT Tasks

VARIABLE fate       \* fate[t]: what has become of task t

Init == fate = [t \in Tasks |-> "new"]

Become(t, from, to) == fate[t] \in from /\ fate' = [fate EXCEPT ![t] = to]

Accept(t) == Become(t, {"new"}, "active")
Finish(t) == Become(t, {"active"}, "done")
Park(t)   == Become(t, {"active"}, "parked")

\* An operator revives parked tasks, several at a time.
Revive(T) ==
    /\ \A t \in T : fate[t] \in {"parked"}
    /\ fate' = [t \in Tasks |-> IF t \in T THEN "active" ELSE fate[t]]

Next ==
    \/ \E t \in Tasks : Accept(t) \/ Finish(t) \/ Park(t)
    \/ \E T \in SUBSET Tasks : Revive(T)

Spec == Init /\ [][Next]_fate
=============================================================================
