--------------------------- MODULE MCAdvisoryLock ---------------------------
(* Small instances of AdvisoryLock for TLC.  A tick is roughly a minute: the *)
(* worktree lock has ttl 120 s and timeout 60 s (sync_common.py:32-33), a    *)
(* topic lock ttl 120 s (sync/__init__.py:62), append_entry ttl 10 s and     *)
(* timeout 2 s (commands_graph.py:200), `unlock` the default ttl of 30 s.    *)
EXTENDS AdvisoryLock, TLC

CONSTANTS a, b, c, op

\* Everyone uses the worktree lock's ttl and timeout; unlock judges earlier.
WorktreeTTL     == [p \in Procs |-> IF p \in Operators THEN 1 ELSE 2]
WorktreeTimeout == [p \in Procs |-> IF p \in Operators THEN 0 ELSE 1]

\* One user waits not at all (the quick tries of acquire_topic_lock).
TopicTimeout == [p \in Procs |-> IF p = c THEN 0 ELSE 2]
TopicTTL     == [p \in Procs |-> 2]

\* Holds end within the ttl of the lock, if not within unlock's.
ShortHold == [p \in Procs |-> 2]
=============================================================================
