--------------------------- MODULE CostProjection ---------------------------
(***************************************************************************)
(* What the status of a work item says it cost (_cost_projection in        *)
(* src/agent_os/http_service.py) from the usage its attempts reported      *)
(* (AttemptUsage in src/agent_os/models.py).  Dollars are counted in tenths *)
(* of a cent.  The variables are what one response has read; WorkView       *)
(* instantiates them.                                                       *)
(***************************************************************************)
EXTENDS Integers, Sequences, FiniteSetsExt

CONSTANTS
    Amounts,      \* costs an attempt may have, in tenths of a cent
    References    \* references callers give as evidence of a cost

VARIABLES
    status,    \* of the task
    attempts   \* attempts[i]: the usage attempt i reported, Unpriced if none

None == -1   \* a Python None where a number may stand

-----------------------------------------------------------------------------
(* AttemptUsage.                                                           *)

Sources == {"unknown", "runtime_reported", "provider_rate_derived",
            "billing_receipt"}

Unpriced == [reported |-> None, derived |-> None, source |-> "unknown", ref |-> "none"]

\* cost_has_explicit_provenance.
Provenance(u) ==
    CASE u.source = "unknown" -> u.reported = None /\ u.derived = None
      [] u.source = "runtime_reported" -> u.reported # None /\ u.derived = None
      [] u.source = "provider_rate_derived" ->
            u.derived # None /\ u.reported = None /\ u.ref # "none"
      [] OTHER -> u.reported # None /\ u.derived = None /\ u.ref # "none"

Usages ==
    {u \in [reported : Amounts \cup {None}, derived : Amounts \cup {None},
            source : Sources, ref : References \cup {"none"}] : Provenance(u)}

-----------------------------------------------------------------------------
(* _cost_projection.                                                       *)

ExplicitUnknown == {"needs_review", "blocked", "completed", "failed", "cancelled"}

Amount(u) == IF u.reported # None THEN u.reported ELSE u.derived

\* The attempts with a cost.
Observed == {i \in DOMAIN attempts : Amount(attempts[i]) # None}

\* Each attempt has one.
Complete == Observed = DOMAIN attempts

SourcesSeen == {attempts[i].source : i \in Observed}

\* An attempt that names no evidence is evidence itself.
EvidenceOf(i) ==
    IF attempts[i].ref = "none" THEN <<"attempts", {i}>>
                                ELSE <<"reference", attempts[i].ref>>
Evidence == {EvidenceOf(i) : i \in Observed}

\* The sum of what attempts cost, if any does.
Total(cost) ==
    IF DOMAIN cost = {} THEN None
    ELSE MapThenSumSet(LAMBDA i : cost[i], DOMAIN cost)

ReportedBy == {i \in Observed : attempts[i].reported # None}
DerivedBy == {i \in Observed : attempts[i].derived # None}

Reported == Total([i \in ReportedBy |-> attempts[i].reported])
Derived == Total([i \in DerivedBy |-> attempts[i].derived])

BilledWithoutCoverage == SourcesSeen = {"billing_receipt"}
Billed == Complete /\ SourcesSeen = {"billing_receipt"}

\* ValueError: one exact aggregate receipt is required.
Refused == Billed /\ \E e, f \in Evidence : e # f

\* ROUND_HALF_UP of the sum.
Cents(tenths) == (tenths + 5) \div 10

\* The first case of cost_evidence_ref that applies.
EvidenceShown ==
    CASE Billed -> CHOOSE e \in Evidence : TRUE
      [] ~Billed /\ ~Complete -> <<"attempts", DOMAIN attempts>>
      [] ~Billed /\ Complete /\ Len(attempts) = 1 -> EvidenceOf(1)
      [] OTHER -> <<"attempts", Observed>>

Projection ==
    IF Observed = {}
    THEN [cents |-> None, reported |-> None, derived |-> None,
          source |-> IF status \in ExplicitUnknown THEN "unknown" ELSE "none",
          evidence |-> IF status \in ExplicitUnknown THEN <<"unknown", {}>>
                                                     ELSE <<"none", {}>>]
    ELSE [cents |-> IF Billed THEN Cents(Total([i \in Observed |-> Amount(attempts[i])]))
                              ELSE None,
          reported |-> Reported, derived |-> Derived,
          source |-> IF Complete /\ \A s, r \in SourcesSeen : s = r
                     THEN CHOOSE s \in SourcesSeen : TRUE ELSE "mixed_observed",
          evidence |-> EvidenceShown]

-----------------------------------------------------------------------------
(* Properties.                                                             *)

\* http-service.md: actual cents only when every retained attempt has a billed
\* amount covered by one exact receipt, and then half a cent at most off their
\* sum, rounded once; unknown cost is never returned as zero.
CentsAreBilled ==
    ~Refused => LET cents == Projection.cents IN
        /\ cents # None <=>
            /\ attempts # <<>>
            /\ \A i, j \in DOMAIN attempts :
                /\ attempts[i].source = "billing_receipt"
                /\ attempts[i].ref = attempts[j].ref
        /\ cents # None =>
            LET sum == MapThenSumSet(LAMBDA i : attempts[i].reported, DOMAIN attempts)
            IN  10 * cents - 5 <= sum /\ sum < 10 * cents + 5

\* A reference that the response shows as its evidence is the evidence of every
\* attempt, and otherwise it names each attempt whose cost it counts.
EvidenceCoversCost ==
    ~Refused => LET shown == Projection.evidence IN
        /\ shown[1] = "reference" =>
            \A i \in DOMAIN attempts : attempts[i].ref = shown[2]
        /\ shown[1] = "attempts" => Observed \subseteq shown[2]
=============================================================================
