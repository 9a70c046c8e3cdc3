---------------------------- MODULE MCCommandRuns ----------------------------
EXTENDS CommandRuns, TLC

CONSTANTS c, b, v, o

Runtime == c :> "omnigent" @@ b :> "builder" @@ v :> "codex-review" @@ o :> "owner-review"
RuntimeOfRuns == [r \in Runs |-> Runtime[r]]

\* Reviews are started once the coordinator's command is over.
ReviewsAfterwards ==
    \A r \in Runs \ {c} : RuntimeOf[r] # "builder" /\ pc[r] # "idle" => pc[c] = "done"

\* One review after another is left out: a behaviour has the owner's or the fallback's.
\* The fallback begins where nothing of the coordinator is left but its attempts; the
\* owner also while its process survives, then with no child sent to review.
\* Attempts and reviews beyond the coordinator's are kept for the fallback.
OneReview ==
    /\ ReviewsAfterwards
    /\ pc[v] = "idle" \/ pc[o] = "idle"
    /\ pc[v] # "idle" => sent = {} /\ process[c] \notin Living /\ tool[c] = "idle"
    /\ pc[v] = "pending" => clock = 0
    /\ pc[o] # "idle" => process[c] \notin Living \/ sent = {}
    /\ strays # {} => sent = {} /\ clock = 0 /\ pc[v] = "idle" /\ pc[o] = "idle"
    /\ Len(attempts) = 4 \/ clock = 2 => pc[v] # "idle"
=============================================================================
