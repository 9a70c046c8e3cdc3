------------------------- MODULE RuntimeProbeProofs -------------------------
(***************************************************************************)
(* What the probe's verdicts and its exit code mean, for every set of       *)
(* required boundaries.                                                     *)
(***************************************************************************)
EXTENDS RuntimeProbe, TLAPS

\* A refusal that is not invented was met, and what was met does not go away.
RefusalsWereMet ==
    \A k \in CHECKS :
        /\ claims[k] = "refusal" => MeetsRefusal(k)
        /\ heard[k] = "refusal" => MeetsRefusal(k)

\* A listener that answered after the run was there when a runtime that is gone
\* reported its refusal.
AliveExplains ==
    Verified /\ alive =>
        /\ claims["network"] = "refusal" => "network" \in refused
        /\ heard["network"] = "refusal" => "network" \in refused

\* Where the host is, what it has and what the runtime can still do.
Progress ==
    /\ step # "run" => runtime # "running"
    /\ step \in {"run", "selfCheck"} => ~alive
    /\ step \in {"run", "selfCheck", "load"} =>
        \A k \in CHECKS : verdict[k] = "none" /\ heard[k] = "none"
    /\ step = "network" => verdict["write_outside"] # "none"
    /\ step = "push" => verdict["write_outside"] # "none" /\ verdict["network"] # "none"
    /\ step \in {"report", "done"} => \A k \in CHECKS : verdict[k] # "none"
    /\ exit # "none" => step = "done"

\* A verdict is what was seen, also when something survives.
VerdictsStand ==
    \A k \in CHECKS :
        /\ verdict[k] = "crossed" => k \in crossed
        /\ verdict[k] = "blocked" => heard[k] \in Refusals
        /\ verdict[k] = "blocked" /\ heard[k] = "refusal" => k \notin crossed /\ MeetsRefusal(k)
        /\ verdict[k] \notin {"none", "crossed"} /\ k \in crossed => ~Verified

\* An exit code of zero is said of required boundaries that are blocked.
ZeroIsBlocked == exit = "zero" => \A k \in Required : verdict[k] = "blocked"

IInv ==
    /\ TypeOK
    /\ RefusalsWereMet /\ AliveExplains /\ Progress
    /\ VerdictsStand /\ BlockedIsEarned /\ ZeroIsBlocked

-----------------------------------------------------------------------------
(* The invariant. *)

USE DEF CHECKS, Claims, Refusals, Verdicts, Steps, Active, Verified, MeetsRefusal
USE DEF TypeOK, RefusalsWereMet, AliveExplains, Progress, VerdictsStand, BlockedIsEarned,
    ZeroIsBlocked

LEMMA InitInv == Init => IInv
BY DEF Init, IInv

\* Each step preserves the invariant.
LEMMA StepInv == IInv /\ [Next]_vars => IInv'
<1> SUFFICES ASSUME IInv, [Next]_vars PROVE IInv'
    OBVIOUS
<1> USE RequiredAssumption DEF IInv
<1>1. ASSUME NEW k \in CHECKS, Cross(k) PROVE IInv'
    BY <1>1 DEF Cross, host
<1>2. ASSUME NEW k \in CHECKS, Refuse(k) PROVE IInv'
    BY <1>2 DEF Refuse, host
<1>3. ASSUME NEW k \in CHECKS, NEW what \in Claims, Claim(k, what) PROVE IInv'
    BY <1>3 DEF Claim, host
<1>4. ASSUME NEW k \in CHECKS, Measure(k) PROVE IInv'
  <2> DEFINE v == IF k = "network" /\ ~alive /\ k \notin crossed
                  THEN "not_attempted" ELSE Verdict(k)
  <2>1. /\ UNCHANGED <<world, runtime, alive, heard, exit>>
        /\ verdict' = [verdict EXCEPT ![k] = v]
        /\ step = k
    BY <1>4 DEF Measure
  <2>2. \/ k = "write_outside" /\ step' = "network"
        \/ k = "network" /\ step' = "push"
        \/ k = "push" /\ step' = "report"
    BY <1>4 DEF Measure, NextStep
  <2>3. /\ v \in {"crossed", "blocked", "not_attempted"}
        /\ v = "crossed" => k \in crossed
        /\ v = "blocked" => k \notin crossed /\ heard[k] \in Refusals /\ (k = "network" => alive)
        /\ k \in crossed => v = "crossed"
    <3>1. CASE k = "network" /\ ~alive /\ k \notin crossed
      BY <3>1
    <3>2. CASE ~(k = "network" /\ ~alive /\ k \notin crossed)
    <4>1. v = Verdict(k)
        BY <3>2
    <4> HIDE DEF v
    <4>2. CASE k \in crossed
      <5>1. Verdict(k) = "crossed"
        BY <4>2 DEF Verdict
      <5> QED
        BY <4>1, <4>2, <5>1
    <4>3. CASE k \notin crossed /\ heard[k] \in Refusals
      <5>1. Verdict(k) = "blocked"
        BY <4>3 DEF Verdict
      <5> QED
        BY <3>2, <4>1, <4>3, <5>1
    <4>4. CASE k \notin crossed /\ heard[k] \notin Refusals
      <5>1. Verdict(k) = "not_attempted"
        BY <4>4 DEF Verdict
      <5> QED
        BY <4>1, <4>4, <5>1
    <4> QED
        BY <4>2, <4>3, <4>4
    <3> QED
      BY <3>1, <3>2
  <2>4. \A j \in CHECKS : verdict'[j] = IF j = k THEN v ELSE verdict[j]
    BY <2>1
  <2> HIDE DEF v
  <2>5. TypeOK'
    BY <2>1, <2>2, <2>3 DEF world
  <2>6. RefusalsWereMet' /\ AliveExplains'
    BY <2>1 DEF world
  <2>7. Progress'
    BY <2>1, <2>2, <2>3, <2>4 DEF world
  <2>8. VerdictsStand'
    BY <2>1, <2>3, <2>4 DEF world
  <2>9. BlockedIsEarned'
    BY <2>1, <2>3, <2>4 DEF world
  <2>10. ZeroIsBlocked'
    BY <2>1, <2>2 DEF world
  <2> QED
    BY <2>5, <2>6, <2>7, <2>8, <2>9, <2>10
<1>5. CASE ListenerDies
    BY <1>5 DEF ListenerDies, host
<1>6. CASE SurvivorEnds
    BY <1>6 DEF SurvivorEnds, world, host
<1>7. CASE RunEnds
    BY <1>7 DEF RunEnds, Left, world
<1>8. CASE RunRaises
    BY <1>8 DEF RunRaises, Left, world
<1>9. CASE SelfCheck
    BY <1>9 DEF SelfCheck, world
<1>10. CASE LoadReport
    BY <1>10 DEF LoadReport, world
<1>11. CASE Report
    BY <1>11 DEF Report, ExitCode, Inconclusive, world
<1>12. CASE MeasureRaises
    BY <1>12 DEF MeasureRaises, world
<1>13. CASE UNCHANGED vars
    BY <1>13 DEF vars, world, host
<1> QED
    BY <1>1, <1>2, <1>3, <1>4, <1>5, <1>6, <1>7, <1>8, <1>9, <1>10, <1>11, <1>12, <1>13 DEF Next

-----------------------------------------------------------------------------
(* Theorems. *)

\* The invariant holds of every probe.
THEOREM ProbeInvariance == Spec => []IInv
<1> QED
    BY InitInv, StepInv, PTL DEF Spec

\* Every variable holds a value of its type; what the sandbox allows it has not refused.
THEOREM ProbeTypes == Spec => []TypeOK
<1>1. IInv => TypeOK
    BY DEF IInv
<1> QED
    BY <1>1, ProbeInvariance, PTL

\* Whatever the runtime writes, a dead listener never makes the network blocked, and a
\* boundary is called blocked only where the sandbox refused the runtime or the runtime
\* invented the error, but for the network after a timeout that something survived.
THEOREM BlockedEarned == Spec => []BlockedIsEarned
<1>1. IInv => BlockedIsEarned
    BY DEF IInv
<1> QED
    BY <1>1, ProbeInvariance, PTL

\* The report says what the host saw, whatever the runtime claims.
THEOREM Measured == Spec => []ReportIsMeasured
<1>1. IInv => ReportIsMeasured
  <2> SUFFICES ASSUME IInv, step = "done", NEW k \in CHECKS
               PROVE  /\ verdict[k] = "crossed" => k \in crossed
                      /\ k \in crossed /\ Verified => verdict[k] = "crossed"
      BY DEF ReportIsMeasured
  <2> QED
      BY DEF IInv
<1> QED
    BY <1>1, ProbeInvariance, PTL

\* What an exit code of zero admits, whichever boundaries the caller requires and
\* whatever the runtime reports.
THEOREM Admission == Spec => []ZeroMeansHeld
<1>1. IInv => ZeroMeansHeld
    BY RequiredAssumption DEF IInv, ZeroMeansHeld
<1> QED
    BY <1>1, ProbeInvariance, PTL
=============================================================================
