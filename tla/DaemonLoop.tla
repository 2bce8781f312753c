----------------------------- MODULE DaemonLoop -----------------------------
(***************************************************************************)
(* The life of a daemon with a thread of its own                           *)
(* (src/watercooler_mcp/daemons/base.py): the loop that waits and ticks,   *)
(* and the calls that start, stop, pause and resume it, which share three  *)
(* events and a status with the loop and are no critical section.  One     *)
(* thread makes these calls; wake() comes from any thread at any time.     *)
(*                                                                         *)
(* What a tick does is DecisionPipeline's and WritePath's; that it ends is *)
(* assumed.  A disabled daemon, on which every call returns at once, and   *)
(* the managed mode, which has no thread (HostedFleet), are left out.      *)
(***************************************************************************)
EXTENDS Integers, FiniteSets

CONSTANTS
    Threads,   \* the threads that can run the loop
    NoThread,
    Hasty      \* start() is also called on a daemon that is starting, or paused

ASSUME LoopAssumption == NoThread \notin Threads /\ Hasty \in BOOLEAN

VARIABLES
    lifeStatus,  \* _status
    stopSet, wakeSet, unpaused,  \* the events _stop, _wake, _paused
    ownThread,   \* _thread
    loopAt,      \* loopAt[t]: where thread t is
    caller,      \* where the thread is that starts, stops, pauses and resumes
    onInterval,  \* tick_on_interval
    owed         \* a wake() that no tick has followed, nor the loop's end

loopEvents == <<stopSet, wakeSet, unpaused>>
loopVars   == <<lifeStatus, loopEvents, ownThread, loopAt, caller, onInterval, owed>>
-----------------------------------------------------------------------------
Statuses == {"stopped", "starting", "running", "paused"}
LoopPlaces == {"none", "enter", "top", "paused", "unpaused", "asleep", "awake", "cleared",
               "tick", "backoff", "exit"}
CallPlaces == {"free", "clear", "spawn", "stop", "wake", "unpause", "join", "report",
               "pausing", "resuming"}

LiveLoops == {t \in Threads : loopAt[t] # "none"}
LoopIsAt(t, s) == loopAt[t] = s
LoopGoes(t, s) == loopAt' = [loopAt EXCEPT ![t] = s]
Calling(c)     == caller = c
CallGoes(c)    == caller' = c

LoopInit ==
    /\ lifeStatus = "stopped"
    /\ stopSet = FALSE /\ wakeSet = FALSE /\ unpaused = TRUE
    /\ ownThread = NoThread /\ loopAt = [t \in Threads |-> "none"]
    /\ caller = "free"
    /\ onInterval \in BOOLEAN
    /\ owed = FALSE

(***************************************************************************)
(* The calls                                                               *)
(***************************************************************************)

\* start() returns if the status is RUNNING; it does not look at the thread.
StartDaemon ==
    /\ Calling("free") /\ lifeStatus # "running"
    /\ Hasty \/ lifeStatus = "stopped"
    /\ lifeStatus' = "starting"
    /\ CallGoes("clear")
    /\ UNCHANGED <<loopEvents, ownThread, loopAt, onInterval, owed>>

ClearStop ==
    /\ Calling("clear")
    /\ stopSet' = FALSE
    /\ CallGoes("spawn")
    /\ UNCHANGED <<lifeStatus, wakeSet, unpaused, ownThread, loopAt, onInterval, owed>>

SpawnLoop ==
    /\ Calling("spawn")
    /\ \E t \in Threads \ LiveLoops : LoopGoes(t, "enter") /\ ownThread' = t
    /\ CallGoes("free")
    /\ UNCHANGED <<lifeStatus, loopEvents, onInterval, owed>>

\* stop() returns if the status is STOPPED.
StopDaemon ==
    /\ Calling("free") /\ lifeStatus # "stopped"
    /\ CallGoes("stop")
    /\ UNCHANGED <<lifeStatus, loopEvents, ownThread, loopAt, onInterval, owed>>

SetStop ==
    /\ Calling("stop")
    /\ stopSet' = TRUE
    /\ CallGoes("wake")
    /\ UNCHANGED <<lifeStatus, wakeSet, unpaused, ownThread, loopAt, onInterval, owed>>

\* A slip: stop() leaves the wake to the interval.
StopsAsleep ==
    /\ Calling("wake")
    /\ CallGoes("unpause")
    /\ UNCHANGED <<lifeStatus, loopEvents, ownThread, loopAt, onInterval, owed>>

SetWake ==
    /\ Calling("wake")
    /\ wakeSet' = TRUE
    /\ CallGoes("unpause")
    /\ UNCHANGED <<lifeStatus, stopSet, unpaused, ownThread, loopAt, onInterval, owed>>

SetUnpaused ==
    /\ Calling("unpause")
    /\ unpaused' = TRUE
    /\ CallGoes("join")
    /\ UNCHANGED <<lifeStatus, stopSet, wakeSet, ownThread, loopAt, onInterval, owed>>

\* The join ends with the thread, or by its timeout while the loop is in a tick or in its
\* sleep after a failed one; stop() returns False then and leaves the status.
JoinLoop ==
    /\ Calling("join")
    /\ \/ ownThread \notin LiveLoops /\ CallGoes("report")
       \/ ownThread \in LiveLoops /\ loopAt[ownThread] \in {"tick", "backoff"} /\ CallGoes("free")
    /\ UNCHANGED <<lifeStatus, loopEvents, ownThread, loopAt, onInterval, owed>>

ReportStopped ==
    /\ Calling("report")
    /\ lifeStatus' = "stopped" /\ ownThread' = NoThread
    /\ CallGoes("free")
    /\ UNCHANGED <<loopEvents, loopAt, onInterval, owed>>

PauseDaemon ==
    /\ Calling("free")
    /\ unpaused' = FALSE
    /\ CallGoes("pausing")
    /\ UNCHANGED <<lifeStatus, stopSet, wakeSet, ownThread, loopAt, onInterval, owed>>

MarkPaused ==
    /\ Calling("pausing")
    /\ lifeStatus' = "paused"
    /\ CallGoes("free")
    /\ UNCHANGED <<loopEvents, ownThread, loopAt, onInterval, owed>>

ResumeDaemon ==
    /\ Calling("free")
    /\ unpaused' = TRUE
    /\ CallGoes("resuming")
    /\ UNCHANGED <<lifeStatus, stopSet, wakeSet, ownThread, loopAt, onInterval, owed>>

MarkResumed ==
    /\ Calling("resuming")
    /\ lifeStatus' = IF lifeStatus = "paused" THEN "running" ELSE lifeStatus
    /\ CallGoes("free")
    /\ UNCHANGED <<loopEvents, ownThread, loopAt, onInterval, owed>>

WakeDaemon ==
    /\ wakeSet' = TRUE /\ owed' = TRUE
    /\ UNCHANGED <<lifeStatus, stopSet, unpaused, ownThread, loopAt, caller, onInterval>>

(***************************************************************************)
(* The loop                                                                *)
(***************************************************************************)

EnterLoop(t) ==
    /\ LoopIsAt(t, "enter")
    /\ lifeStatus' = "running"
    /\ LoopGoes(t, "top")
    /\ UNCHANGED <<loopEvents, ownThread, caller, onInterval, owed>>

\* The three looks at _stop: at the loop's head, after the pause, and after the sleep.
LooksAtStop(t) ==
    /\ loopAt[t] \in {"top", "unpaused", "cleared"}
    /\ LoopGoes(t, IF stopSet THEN "exit"
               ELSE CASE loopAt[t] = "top"      -> "paused"
                      [] loopAt[t] = "unpaused" -> "asleep"
                      [] loopAt[t] = "cleared"  -> "tick")
    /\ owed' = (owed /\ ~stopSet /\ loopAt[t] # "cleared")
    /\ UNCHANGED <<lifeStatus, loopEvents, ownThread, caller, onInterval>>

PassPause(t) ==
    /\ LoopIsAt(t, "paused") /\ unpaused
    /\ LoopGoes(t, "unpaused")
    /\ UNCHANGED <<lifeStatus, loopEvents, ownThread, caller, onInterval, owed>>

\* By a wake, or by the interval.
WakeUp(t) ==
    /\ LoopIsAt(t, "asleep") /\ (wakeSet \/ onInterval)
    /\ LoopGoes(t, "awake")
    /\ UNCHANGED <<lifeStatus, loopEvents, ownThread, caller, onInterval, owed>>

ClearWake(t) ==
    /\ LoopIsAt(t, "awake")
    /\ wakeSet' = FALSE
    /\ LoopGoes(t, "cleared")
    /\ UNCHANGED <<lifeStatus, stopSet, unpaused, ownThread, caller, onInterval, owed>>

\* A slip: a wake is taken back when a tick has served it.
TickTakesWake(t) ==
    /\ \/ LoopIsAt(t, "tick") /\ (LoopGoes(t, "top") \/ LoopGoes(t, "backoff"))
       \/ LoopIsAt(t, "backoff") /\ LoopGoes(t, "top")
    /\ wakeSet' = FALSE
    /\ UNCHANGED <<lifeStatus, stopSet, unpaused, ownThread, caller, onInterval, owed>>

\* A failed tick is followed by a short sleep.
EndLoopTick(t) ==
    /\ \/ LoopIsAt(t, "tick") /\ (LoopGoes(t, "top") \/ LoopGoes(t, "backoff"))
       \/ LoopIsAt(t, "backoff") /\ LoopGoes(t, "top")
    /\ UNCHANGED <<lifeStatus, loopEvents, ownThread, caller, onInterval, owed>>

ExitLoop(t) ==
    /\ LoopIsAt(t, "exit")
    /\ lifeStatus' = "stopped"
    /\ LoopGoes(t, "none")
    /\ UNCHANGED <<loopEvents, ownThread, caller, onInterval, owed>>
-----------------------------------------------------------------------------
LoopStep(t) ==
    \/ EnterLoop(t) \/ LooksAtStop(t) \/ PassPause(t) \/ WakeUp(t) \/ ClearWake(t)
    \/ EndLoopTick(t) \/ ExitLoop(t)

\* The rest of a call that has begun.
CallStep ==
    \/ ClearStop \/ SpawnLoop
    \/ SetStop \/ SetWake \/ SetUnpaused \/ JoinLoop \/ ReportStopped
    \/ MarkPaused \/ MarkResumed

LoopNext ==
    \/ \E t \in Threads : LoopStep(t)
    \/ CallStep
    \/ StartDaemon \/ StopDaemon \/ PauseDaemon \/ ResumeDaemon \/ WakeDaemon

LoopSpec == LoopInit /\ [][LoopNext]_loopVars

\* Threads are scheduled and ticks end; nobody has to call anything.
FairLoopSpec ==
    LoopSpec /\ WF_loopVars(\E t \in Threads : LoopStep(t)) /\ WF_loopVars(CallStep)
-----------------------------------------------------------------------------
LoopTypeOK ==
    /\ lifeStatus \in Statuses
    /\ stopSet \in BOOLEAN /\ wakeSet \in BOOLEAN /\ unpaused \in BOOLEAN
    /\ ownThread \in Threads \cup {NoThread} /\ loopAt \in [Threads -> LoopPlaces]
    /\ caller \in CallPlaces /\ onInterval \in BOOLEAN /\ owed \in BOOLEAN

\* However start() and stop(), whose join may time out, follow each other, two loops never
\* share the daemon's checkpoint.  "test_double_start_is_idempotent" (tests/unit/
\* test_daemon_base.py:66) starts a daemon twice in a row; a second start() before the first
\* loop has set the status makes a second loop, so this holds only if nobody is Hasty.
OneLoop == \A t, u \in LiveLoops : t = u

\* OneLoop is inductive with what start() and stop() know: a loop that runs is the one in
\* _thread and keeps the status from STOPPED, and while start() is under way, or stop() has
\* seen the thread end, there is none.
LoopInv ==
    /\ LoopTypeOK
    /\ \A t \in LiveLoops : t = ownThread /\ lifeStatus # "stopped"
    /\ caller \in {"clear", "spawn", "report"} => LiveLoops = {}
    /\ caller \in {"clear", "spawn"} => lifeStatus = "starting"

\* A loop that was told to stop ends, unless start() is called again: no order of the events
\* lets it sleep through the stop, even if nothing else ever wakes it (base.py:143-145).
StopIsHeeded == stopSet ~> (~stopSet \/ LiveLoops = {})

\* A wake() is followed by a tick that begins after it, also when it comes during a tick or
\* while the loop wakes up (base.py:249-257), unless the daemon is paused or stopped.
WakeIsHeeded == owed ~> (~owed \/ stopSet \/ ~unpaused \/ LiveLoops = {})

\* What WakeIsHeeded rests on: a wake() that no tick has followed is still to be seen, in its
\* event or by a loop that has woken and not ticked yet.  The loop takes the event back
\* before its tick and not after it, so that a wake() in the tick stays (base.py:253-256).
NoWakeIsLost == owed => wakeSet \/ \E t \in Threads : loopAt[t] \in {"awake", "cleared"}

\* What StopIsHeeded rests on: once stop() has set its three events, no loop waits for
\* anything, in its sleep or in its pause, however the loop and a pause() or resume() of the
\* time after a join that timed out come between them (base.py:143-145).
NoStopIsSlept ==
    stopSet /\ caller \notin {"wake", "unpause"} =>
        \A t \in LiveLoops : /\ LoopIsAt(t, "asleep") => wakeSet
                             /\ LoopIsAt(t, "paused") => unpaused

\* NoStopIsSlept is inductive with OneLoop's invariant and where the loop can be when stop()
\* is between its events, and after a join that timed out.
StopInv ==
    /\ LoopInv
    /\ caller = "spawn" => ~stopSet
    /\ \A t \in LiveLoops :
        /\ stopSet /\ caller \in {"free", "pausing", "resuming", "stop"} =>
             loopAt[t] \in {"top", "tick", "backoff", "exit"}
        /\ stopSet /\ caller \in {"unpause", "join"} /\ LoopIsAt(t, "asleep") => wakeSet
        /\ stopSet /\ caller = "join" /\ LoopIsAt(t, "paused") => unpaused
=============================================================================
