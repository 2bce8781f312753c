------------------------- MODULE MCMemoryTaskQueue -------------------------
(***************************************************************************)
(* Small instances of MemoryTaskQueue: one or two tasks, with one dedup    *)
(* key or two, and one or two threads.                                     *)
(***************************************************************************)
EXTENDS MemoryTaskQueue, TLC

CONSTANTS t1, t2, k1

SameKey      == [t \in Tasks |-> k1]
Distinct     == [t \in Tasks |-> t]

InOrder  == [t \in Tasks |-> IF t = t1 THEN 1 ELSE 2]
SameTime == [t \in Tasks |-> 1]

\* Threads are interchangeable; so are tasks with the same created_at and different keys.
Interchangeable == Permutations(Tasks) \cup Permutations(Workers)
ThreadsInterchangeable == Permutations(Workers)
=============================================================================
