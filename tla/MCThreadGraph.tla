--------------------------- MODULE MCThreadGraph ---------------------------
(***************************************************************************)
(* Small instances of ThreadGraph: two writers, two entries, two agents.   *)
(***************************************************************************)
EXTENDS ThreadGraph, TLC

WritersInterchangeable == Permutations(Writers)
EntriesInterchangeable == Permutations(Writers) \cup Permutations(Entries)
=============================================================================
