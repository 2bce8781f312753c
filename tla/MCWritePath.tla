---------------------------- MODULE MCWritePath ----------------------------
(* Small instances of WritePath for TLC: two writes of one topic and one of *)
(* another, one of them confirmed, one without an entry id.                 *)
EXTENDS WritePath

CONSTANTS a, b, c, old, new

Topic == [w \in Writes |-> IF w = c THEN new ELSE old]
=============================================================================
