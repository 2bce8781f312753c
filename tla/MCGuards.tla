------------------------------ MODULE MCGuards ------------------------------
(***************************************************************************)
(* What guards a write against those of others, side by side: the lock     *)
(* file of a local worktree (AdvisoryLock), the blob shas of the hosted    *)
(* mode (HostedThread), and the checkpoint file of a migration between the *)
(* two modes (Migration).  They share nothing, so a behaviour is about one *)
(* of them, the `focus`, and the others do not move.                       *)
(***************************************************************************)
EXTENDS MCAdvisoryLock, HostedThread, Migration

CONSTANTS r1, r2, r3, m1, m2

VARIABLE focus

\* Two calls ask for anything; the third, r3, comes when they are among Crowd.
Crowd      == {"create", "decide", "remove"}
AnyKind    == [r \in Requests |-> IF r = r3 THEN {"remove", "decide"} ELSE AllKinds]
Annotating == [r \in Requests |-> IF r = r3 THEN {"remove"} ELSE {"annotate"}]

Crowded == \A r \in Requests : asked[r] \in Crowd
Apart   == asked[r3] = "remove" \/ Crowded

CallsInterchangeable == Permutations({r1, r2})

NoCalls == [r \in Requests |-> IF r = r3 THEN "remove" ELSE "create"]

GuardsInit ==
    /\ focus \in {"lock", "hosted", "migration"}
    /\ MigrationInit
    /\ focus # "migration" => branch = {}
    /\ nodes = {} /\ branch \subseteq {1, 2} /\ rows[2] \in {"none", "good"}
    /\ Init /\ HostedInit /\ Apart
    /\ focus # "hosted" => repo = EmptyRepo /\ asked = NoCalls

\* The third call and the other thread's Decision make do without failed requests.
Paced ==
    /\ at'[r3] # "meta" => Crowded /\ losses' = 0
    /\ Elsewhere \in Lines(repo'.index) => Crowded /\ losses' = 0 /\ asked[r3] = "decide"

\* The second run of the command comes beside the first one when nothing fails, every
\* embedding is sound, neither has a --limit, and there are two entries.
Beside ==
    mover'[m2] # NoRun =>
        /\ troubles' = 0 /\ rows'[1] \in {"none", "good"} /\ nodes' \subseteq {1}
        /\ branch' \subseteq {1, 2} /\ \A p \in Movers : mover'[p].limit = 0

\* Every call has replied; the third may not have come.
Served == \A r \in Requests : at[r] \in Replies \/ (r = r3 /\ at[r] = "meta")

GuardsNext ==
    \/ focus = "lock"   /\ Next /\ UNCHANGED <<hostedVars, migrationVars, focus>>
    \/ focus = "hosted" /\ HostedNext /\ Paced /\ UNCHANGED <<vars, migrationVars, focus>>
    \/ focus = "hosted" /\ Served /\ UNCHANGED <<vars, hostedVars, migrationVars, focus>>
    \/ focus = "migration" /\ MigrationNext /\ Beside /\ UNCHANGED <<vars, hostedVars, focus>>

GuardsSpec == GuardsInit /\ [][GuardsNext]_<<vars, hostedVars, migrationVars, focus>>
=============================================================================
