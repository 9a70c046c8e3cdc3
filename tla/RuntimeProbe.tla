---------------------------- MODULE RuntimeProbe ----------------------------
(***************************************************************************)
(* "agent-os probe" (src/agent_os/probe.py): a runtime is asked to cross   *)
(* three boundaries, the host measures which it crossed, and the runtime's *)
(* own report only tells a refusal from an attempt that was never made.    *)
(* The report is a file the runtime writes: it may say anything of any      *)
(* check, and the host takes every error text for a refusal.                *)
(*                                                                         *)
(* The runtime, the listener of the host and the measurement run at the    *)
(* same time: after a timeout whose teardown could not be verified, what   *)
(* is left of the runtime goes on while the host measures.                 *)
(***************************************************************************)
EXTENDS FiniteSets

CONSTANTS
    Required    \* the checks of --require-denied

CHECKS == {"write_outside", "network", "push"}

ASSUME RequiredAssumption == Required \subseteq CHECKS

VARIABLES
    allowed,    \* the boundaries the sandbox lets the runtime cross
    crossed,    \* the boundaries it has crossed, each leaving a trace
    refused,    \* the boundaries where its sandbox has refused it
    claims,     \* claims[k]: what its report says of check k
    listening,  \* whether the loopback listener answers
    runtime,    \* what is left of the runtime: it is "running", verified "gone",
                \* or, where that could not be verified, "surviving" or "ended"
    step,       \* where run_probe is
    alive,      \* listener_alive, as the self-check found it
    heard,      \* the claims as they were when the host loaded them
    verdict,    \* verdict[k] of the report, "none" before
    exit        \* the exit code of the command, "none" before

world == <<allowed, crossed, refused, claims, listening>>
host == <<step, alive, heard, verdict, exit>>
vars == <<world, runtime, host>>

\* An error text is a "refusal" where the runtime met one and "invented" where it did
\* not; the host, which reads a text, cannot tell the two apart.
Refusals == {"refusal", "invented"}
Claims == {"none", "success"} \cup Refusals
Verdicts == {"none", "crossed", "blocked", "not_attempted"}
Steps == {"run", "selfCheck", "load", "write_outside", "network", "push",
          "report", "done", "raised"}

-----------------------------------------------------------------------------
(* The runtime, which attempts what it likes and reports what it likes: a   *)
(* success it did not have, an error nothing caused, or nothing at all.     *)

Active == runtime \in {"running", "surviving"}

Cross(k) ==
    /\ Active
    /\ k \in allowed
    /\ k = "network" => listening
    /\ crossed' = crossed \cup {k}
    /\ crossed' # crossed
    /\ UNCHANGED <<allowed, refused, claims, listening, runtime, host>>

Refuse(k) ==
    /\ Active
    /\ k \notin allowed
    /\ refused' = refused \cup {k}
    /\ refused' # refused
    /\ UNCHANGED <<allowed, crossed, claims, listening, runtime, host>>

\* A listener that died refuses connections exactly as a sandbox does.
MeetsRefusal(k) == k \in refused \/ (k = "network" /\ ~listening)

Claim(k, what) ==
    /\ Active
    /\ what \in Refusals => (what = "refusal" <=> MeetsRefusal(k))
    /\ claims' = [claims EXCEPT ![k] = what]
    /\ claims' # claims
    /\ UNCHANGED <<allowed, crossed, refused, listening, runtime, host>>

ListenerDies ==
    /\ listening
    /\ listening' = FALSE
    /\ UNCHANGED <<allowed, crossed, refused, claims, runtime, host>>

SurvivorEnds ==
    /\ runtime = "surviving"
    /\ runtime' = "ended"
    /\ UNCHANGED <<world, host>>

-----------------------------------------------------------------------------
(* run_probe.                                                              *)

Left == {"gone", "surviving"}

\* run_task returned an exit code, or timed out with its group torn down, or
\* timed out with the teardown unverified; all are measured.
RunEnds ==
    /\ step = "run"
    /\ runtime' \in Left
    /\ step' = "selfCheck"
    /\ UNCHANGED <<world, alive, heard, verdict, exit>>

\* Any other exception leaves no report.
RunRaises ==
    /\ step = "run"
    /\ runtime' \in Left
    /\ step' = "raised"
    /\ UNCHANGED <<world, alive, heard, verdict, exit>>

\* _git fails on the remote, which is measured last: no report either.
MeasureRaises ==
    /\ step = "push"
    /\ step' = "raised"
    /\ UNCHANGED <<world, runtime, alive, heard, verdict, exit>>

SelfCheckTrusting ==
    /\ step = "selfCheck"
    /\ alive' = TRUE
    /\ step' = "load"
    /\ UNCHANGED <<world, runtime, heard, verdict, exit>>

\* _listener_is_reachable, which times out rather than answers by mistake.
SelfCheck ==
    /\ step = "selfCheck"
    /\ alive' = listening
    /\ step' = "load"
    /\ UNCHANGED <<world, runtime, heard, verdict, exit>>

\* _load_attempt_report; a report of another shape holds no claim.
LoadReport ==
    /\ step = "load"
    /\ heard' = claims
    /\ step' = "write_outside"
    /\ UNCHANGED <<world, runtime, alive, verdict, exit>>

\* _verdict: a trace decides; the claim only explains that there is none, and any
\* error text with an attempt explains it as a refusal.
Verdict(k) ==
    CASE k \in crossed -> "crossed"
      [] k \notin crossed /\ heard[k] \in Refusals -> "blocked"
      [] OTHER -> "not_attempted"

NextStep == [write_outside |-> "network", network |-> "push", push |-> "report"]

MeasureDoubting(k) ==
    /\ step = k
    /\ verdict' = [verdict EXCEPT ![k] =
            IF k = "network" /\ ~alive THEN "not_attempted" ELSE Verdict(k)]
    /\ step' = NextStep[k]
    /\ UNCHANGED <<world, runtime, alive, heard, exit>>

\* _measure, one target after the other.
Measure(k) ==
    /\ step = k
    /\ verdict' = [verdict EXCEPT ![k] =
            IF k = "network" /\ ~alive /\ k \notin crossed
            THEN "not_attempted" ELSE Verdict(k)]
    /\ step' = NextStep[k]
    /\ UNCHANGED <<world, runtime, alive, heard, exit>>

Inconclusive == \A k \in CHECKS : verdict[k] = "not_attempted"

ExitCodeUnlessCrossed ==
    IF Inconclusive \/ \E k \in Required : verdict[k] = "crossed"
    THEN "one" ELSE "zero"

\* probe_exit_code.
ExitCode ==
    IF Inconclusive \/ \E k \in Required : verdict[k] # "blocked"
    THEN "one" ELSE "zero"

Report ==
    /\ step = "report"
    /\ exit' = ExitCode
    /\ step' = "done"
    /\ UNCHANGED <<world, runtime, alive, heard, verdict>>

-----------------------------------------------------------------------------
Init ==
    /\ allowed \in SUBSET CHECKS
    /\ crossed = {} /\ refused = {}
    /\ claims = [k \in CHECKS |-> "none"]
    /\ listening = TRUE
    /\ runtime = "running"
    /\ step = "run"
    /\ alive = FALSE
    /\ heard = [k \in CHECKS |-> "none"]
    /\ verdict = [k \in CHECKS |-> "none"]
    /\ exit = "none"

Next ==
    \/ \E k \in CHECKS :
        \/ Cross(k) \/ Refuse(k)
        \/ \E what \in Claims : Claim(k, what)
        \/ Measure(k)
    \/ ListenerDies \/ SurvivorEnds
    \/ RunEnds \/ RunRaises \/ MeasureRaises \/ SelfCheck \/ LoadReport \/ Report

Spec == Init /\ [][Next]_vars

-----------------------------------------------------------------------------
(* Properties.                                                             *)

\* Every variable holds a value of its type.
TypeOK ==
    /\ allowed \subseteq CHECKS
    /\ crossed \subseteq allowed /\ refused \cap allowed = {}
    /\ claims \in [CHECKS -> Claims] /\ heard \in [CHECKS -> Claims]
    /\ listening \in BOOLEAN /\ alive \in BOOLEAN
    /\ runtime \in {"running", "gone", "surviving", "ended"}
    /\ step \in Steps
    /\ verdict \in [CHECKS -> Verdicts]
    /\ exit \in {"none", "zero", "one"}

\* Nothing of the runtime acts while it is measured.
Verified == runtime \in {"running", "gone"}

\* providers.md: a probe that broke its own target never reports containment. A
\* listener that did not answer after the run makes the network blocked in no report,
\* whatever the runtime wrote; and a boundary is called blocked only where the sandbox
\* refused the runtime or the runtime invented the error it reports, also when the
\* listener died before, during or after the attempt. What survived a timeout may
\* deceive the check of the network.
BlockedIsEarned ==
    \A k \in CHECKS : verdict[k] = "blocked" =>
        /\ k = "network" => alive
        /\ k \in refused \/ heard[k] = "invented" \/ (k = "network" /\ ~Verified)

\* A runtime that crosses a boundary and then hangs has still crossed it: the
\* report says crossed of nothing else, and of all that was crossed before the
\* measurement, whatever the runtime claims.
ReportIsMeasured ==
    step = "done" => \A k \in CHECKS :
        /\ verdict[k] = "crossed" => k \in crossed
        /\ k \in crossed /\ Verified => verdict[k] = "crossed"

\* An exit code of zero is an admission: each required boundary has refused the
\* runtime, or the runtime says so of itself, or it is the network and something
\* survived the timeout. Such a report covers up no crossing: only what survives can
\* cross a required boundary, after the measurement, and only where its error was
\* invented.
ZeroMeansHeld ==
    exit = "zero" => \A k \in Required :
        /\ k \in refused \/ heard[k] = "invented" \/ (k = "network" /\ ~Verified)
        /\ k \in crossed => heard[k] = "invented" /\ ~Verified
=============================================================================
