--------------------------- MODULE WriteContract ---------------------------
(***************************************************************************)
(* What one call of run_with_sync tells its caller about a write, without  *)
(* locks, git, queue or committer: a write is stored, later published, and *)
(* an answer only says what is already true of it; a refused write never   *)
(* shows up later.  An exception out of the operation leaves open whether  *)
(* the write is stored; if it is, it is published like any other.          *)
(***************************************************************************)
CONSTANTS Writes

VARIABLES
    stored,         \* writes in the thread graph
    published,      \* writes on origin
    answer          \* answer[w]: what the caller of w was told; "none" so far

Answers == {"none", "refused", "raised", "local", "accepted", "unpushed", "pushed"}

Init == stored = {} /\ published = {} /\ answer = [w \in Writes |-> "none"]

Store(w) ==
    /\ answer[w] = "none"
    /\ stored' = stored \cup {w}
    /\ UNCHANGED <<published, answer>>

\* A push carries any of the stored writes.
Publish ==
    /\ \E more \in SUBSET stored : published' = published \cup more
    /\ UNCHANGED <<stored, answer>>

\* "local", "accepted" and "unpushed" promise that the write is stored.
Honest(w, what) ==
    CASE what = "refused" -> w \notin stored
      [] what = "raised"  -> TRUE
      [] what = "pushed"  -> w \in published
      [] OTHER            -> w \in stored

Answer(w) ==
    /\ answer[w] = "none"
    /\ \E what \in Answers \ {"none"} :
        /\ Honest(w, what)
        /\ answer' = [answer EXCEPT ![w] = what]
    /\ UNCHANGED <<stored, published>>

\* The last push and the answer that reports it may be one step.
PublishAndAnswer(w) ==
    /\ answer[w] = "none"
    /\ \E more \in SUBSET stored :
        /\ published' = published \cup more
        /\ \E what \in {"pushed", "unpushed"} :
            /\ what = "pushed" => w \in published'
            /\ what = "unpushed" => w \in stored
            /\ answer' = [answer EXCEPT ![w] = what]
    /\ UNCHANGED stored

Next == Publish \/ \E w \in Writes : Store(w) \/ Answer(w) \/ PublishAndAnswer(w)

Spec == Init /\ [][Next]_<<stored, published, answer>>
=============================================================================
