------------------------------ MODULE EntryLog ------------------------------
(***************************************************************************)
(* What the store of a thread promises its writers, without files, locks   *)
(* and renames: a log that only grows, at its end, by one entry at a time  *)
(* and by each entry at most once, and that has an entry before its writer *)
(* is told so.  Nothing takes an entry out of it, and no acknowledgement   *)
(* is withdrawn.  ThreadGraph implements it (ThreadGraph!LogSpec), and     *)
(* WritePath's step Operate and SerialThread's appends rely on it.         *)
(***************************************************************************)
EXTENDS Sequences, Naturals

CONSTANT Entries

VARIABLES
    log,        \* the entries of the thread, in order
    confirmed   \* the entries whose writers have been told

In(e) == \E i \in 1..Len(log) : log[i] = e

Init == log = <<>> /\ confirmed = {}

Add(e) == ~In(e) /\ log' = Append(log, e) /\ UNCHANGED confirmed

Confirm(e) == In(e) /\ confirmed' = confirmed \cup {e} /\ UNCHANGED log

Next == \E e \in Entries : Add(e) \/ Confirm(e)

Spec == Init /\ [][Next]_<<log, confirmed>>
=============================================================================
