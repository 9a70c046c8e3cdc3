------------------------------ MODULE ReviewGate ------------------------------
(***************************************************************************)
(* What the ledger promises about review: the standing of every work item  *)
(* of a task and the gate between those standings and the task's fate.     *)
(* There are no attempts, reviews, clients or transactions here; Complete  *)
(* looks at every work item and closes the task in one step.               *)
(***************************************************************************)
CONSTANTS Tasks, WorkItems

VARIABLES
    fate,      \* fate[t]: "none", "open", "completed" or "cancelled"
    standing   \* standing[t][i]: how the newest work on item i of t stands

gateVars == <<fate, standing>>

Standing == {"none", "working", "failed", "succeeded", "approved", "rejected"}
Done == {"succeeded", "approved", "rejected"}

GateTypeOK ==
    /\ fate \in [Tasks -> {"none", "open", "completed", "cancelled"}]
    /\ standing \in [Tasks -> [WorkItems -> Standing]]

Init ==
    /\ fate = [t \in Tasks |-> "none"]
    /\ standing = [t \in Tasks |-> [i \in WorkItems |-> "none"]]

Stand(t, i, s) ==
    /\ standing' = [standing EXCEPT ![t][i] = s]
    /\ UNCHANGED fate

Decide(t, from, to) ==
    /\ fate[t] = from
    /\ fate' = [fate EXCEPT ![t] = to]
    /\ UNCHANGED standing

Open(t) == Decide(t, "none", "open")

\* New work on an item supersedes what was said about earlier work on it.
Start(t, i) ==
    /\ fate[t] = "open"
    /\ standing[t][i] # "working"
    /\ Stand(t, i, "working")

Finish(t, i, result) ==
    /\ fate[t] = "open"
    /\ standing[t][i] = "working"
    /\ Stand(t, i, result)

\* A review may be revised, even after the task is closed.
Judge(t, i, verdict) ==
    /\ standing[t][i] \in Done
    /\ Stand(t, i, verdict)

\* Every item that was worked on is approved, and at least one was.
Complete(t) ==
    /\ \A i \in WorkItems : standing[t][i] \in {"none", "approved"}
    /\ \E i \in WorkItems : standing[t][i] = "approved"
    /\ Decide(t, "open", "completed")

Cancel(t) ==
    /\ \A i \in WorkItems : standing[t][i] # "working"
    /\ Decide(t, "open", "cancelled")

Next ==
    \E t \in Tasks :
        \/ Open(t)
        \/ Complete(t)
        \/ Cancel(t)
        \/ \E i \in WorkItems :
            \/ Start(t, i)
            \/ \E result \in {"failed", "succeeded"} : Finish(t, i, result)
            \/ \E verdict \in {"approved", "rejected"} : Judge(t, i, verdict)

Spec == Init /\ [][Next]_gateVars
=============================================================================
