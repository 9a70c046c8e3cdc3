---------------------------- MODULE SupervisedRun ----------------------------
(***************************************************************************)
(* What run_task promises about the process group it launches, without any *)
(* of the steps by which it keeps the promise: an attempt is concluded     *)
(* once, and what may be said of it depends on what is left of its group.  *)
(***************************************************************************)

VARIABLES
    supervised, \* does the runtime's group have to be gone, or only its leader?
    group,      \* the group the run knows: none, led, orphaned by its leader, gone
    outcome     \* what the attempt is recorded as; "none" so far

vars == <<supervised, group, outcome>>

Outcomes == {"succeeded", "failed", "cancelled", "blocked", "abandoned"}

Init ==
    /\ supervised \in BOOLEAN
    /\ group = "none"
    /\ outcome = "none"

Launch ==
    /\ group = "none"
    /\ outcome = "none"
    /\ group' = "led"
    /\ UNCHANGED <<supervised, outcome>>

\* The leader exits, with or without descendants, or the last of these does.
Dwindle ==
    /\ \/ group = "led" /\ group' \in {"orphaned", "gone"}
       \/ group = "orphaned" /\ group' = "gone"
    /\ UNCHANGED <<supervised, outcome>>

\* A blocked run asks the operator to look at the group, and an abandoned one
\* was interrupted in its handler. Everything else is only said of what is over.
MayConclude(o) ==
    CASE o = "succeeded" -> group = "gone" \/ (~supervised /\ group = "orphaned")
      [] o = "failed"    -> group \in {"none", "gone"} \/ (~supervised /\ group = "orphaned")
      [] o = "cancelled" -> group \in {"none", "gone"} /\ supervised
      [] OTHER           -> TRUE

Conclude ==
    /\ outcome = "none"
    /\ \E o \in Outcomes : MayConclude(o) /\ outcome' = o
    /\ UNCHANGED <<supervised, group>>

Next == Launch \/ Dwindle \/ Conclude

Spec == Init /\ [][Next]_vars
=============================================================================
