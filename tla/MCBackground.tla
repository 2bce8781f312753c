---------------------------- MODULE MCBackground ----------------------------
(***************************************************************************)
(* What the background threads of a server get done in the end: the        *)
(* memory queue with a consumer that recovers on every tick                *)
(* (MemoryTaskQueue), the daemons that turn entries into Decisions         *)
(* (DecisionPipeline), or the loop such a daemon runs in and the calls     *)
(* that start, stop, pause and wake it (DaemonLoop): a behaviour is about  *)
(* one of them, the `focus`.                                               *)
(***************************************************************************)
EXTENDS MCMemoryTaskQueue, DecisionPipeline, DaemonLoop

CONSTANTS s1, s2

VARIABLE focus

backgroundVars == <<vars, pipelineVars, loopVars, focus>>

Firsts == [e \in Sources |-> IF e = s1 THEN 1 ELSE 2]

\* Two entries without a mishap, or one entry with mishaps.
Apart == mishaps' = 0 \/ text'[s2] = "absent"

InQueue(action) ==
    focus = "queue" /\ action /\ UNCHANGED <<pipelineVars, loopVars, focus>>
InPipeline(action) ==
    focus = "findings" /\ action /\ Apart /\ UNCHANGED <<vars, loopVars, focus>>
InLoop(action) ==
    focus = "loop" /\ action /\ UNCHANGED <<vars, pipelineVars, focus>>

BackgroundInit ==
    /\ focus \in {"queue", "findings", "loop"}
    /\ Init /\ PipelineInit /\ LoopInit
    /\ focus # "loop" => onInterval

BackgroundNext == InQueue(Next) \/ InPipeline(PipelineNext) \/ InLoop(LoopNext)

\* The focus never changes, so that one condition may be about a step of any of them.
\* The fairness is that of CommitterSpec, FairPipelineSpec and FairLoopSpec.
BackgroundFairness ==
    /\ WF_backgroundVars(InQueue(Write) \/ InPipeline(DetectorStep) \/ InLoop(CallStep))
    /\ WF_backgroundVars(InQueue(Load) \/ InPipeline(ExtractorStep)
                            \/ InLoop(\E t \in Threads : LoopStep(t)))
    /\ \A t \in Tasks :
        /\ WF_backgroundVars(InQueue(BackoffElapses(t)) \/ InPipeline(Midnight))
        /\ WF_backgroundVars(InQueue(GoesStale(t)))
        /\ WF_backgroundVars(InQueue(Ages(t)))
    /\ \A w \in Workers :
        /\ SF_backgroundVars(InQueue(Dequeue(w)))
        /\ SF_backgroundVars(InQueue(Settles(w)))
    /\ SF_backgroundVars(InQueue(Start)) /\ SF_backgroundVars(InQueue(RecoverStale))

BackgroundSpec ==
    BackgroundInit /\ [][BackgroundNext]_backgroundVars /\ BackgroundFairness
=============================================================================
