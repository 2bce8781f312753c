------------------------------ MODULE MCStores ------------------------------
(***************************************************************************)
(* What is kept in files that are rewritten while others read them: a task *)
(* queue (MemoryTaskQueue), a thread's graph (ThreadGraph), and the log of *)
(* findings with the checkpoints of the two daemons that share it          *)
(* (DecisionPipeline), side by side: a behaviour is about one of them, the *)
(* `focus`.                                                                *)
(***************************************************************************)
EXTENDS MCMemoryTaskQueue, ThreadGraph, DecisionPipeline

CONSTANTS s1, s2

VARIABLE focus

Alike == Permutations(Workers) \cup Permutations(Writers) \cup Permutations(Entries)

Firsts == [e \in Sources |-> IF e = s1 THEN 1 ELSE 2]

StoresInit ==
    /\ focus \in {"queue", "graph", "findings"}
    /\ Init /\ GraphInit /\ PipelineInit

StoresNext ==
    \/ focus = "queue" /\ Next /\ UNCHANGED <<graphVars, pipelineVars, focus>>
    \/ focus = "graph" /\ GraphNext /\ UNCHANGED <<vars, pipelineVars, focus>>
    \/ focus = "findings" /\ PipelineNext /\ UNCHANGED <<vars, graphVars, focus>>

StoresSpec == StoresInit /\ [][StoresNext]_<<vars, graphVars, pipelineVars, focus>>
=============================================================================
