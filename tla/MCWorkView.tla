----------------------------- MODULE MCWorkView -----------------------------
(* The read routes side by side: of the ledger and of the artifacts.       *)
EXTENDS WorkView

CONSTANTS Directory, Loose, Nested

\* One name in artifacts/ is of the subdirectory or of a file.
ASSUME TreeAssumption == Directory \notin Loose \cup Nested

VARIABLES kind, stage, handle, names, returned, steady

treeVars == <<kind, stage, handle, names, returned, steady>>

Tree == INSTANCE ArtifactView

OneUsage == CHOOSE u \in View!Usages : u.source = "runtime_reported" /\ u.ref = "none"

OneReference == CHOOSE r \in References : TRUE

\* What a route does not read is left alone while it is asked, and a task is reopened
\* for the status only, which shows an outcome.  Costs are varied in turn with retries
\* and with a coordinator.  References are alike, so the first attempt has one of them
\* only; of the attempts one at most is a coordinator's, and that leaves no transcript.
RouteBound ==
    /\ route = "status" => filed = {} /\ reviews = 0 /\ \A i \in DOMAIN log : log[i] = 0
    /\ \/ Len(moves) <= 2 /\ \A i \in DOMAIN kinds : kinds[i] # "coordinator"
       \/ \A i \in DOMAIN attempts : attempts[i] \in {View!Unpriced, OneUsage}
    /\ attempts # <<>> => attempts[1].ref \in {"none", OneReference}
    /\ route = "evidence" => /\ \A i \in DOMAIN attempts : attempts[i] = View!Unpriced
                             /\ Len(moves) <= 2
    /\ \A i, j \in DOMAIN kinds : kinds[i] = "coordinator" =>
        /\ log[i] = 0 /\ i \notin filed
        /\ kinds[j] = "coordinator" => i = j

\* Ledger and artifacts have no state in common: one moves, the other waits.
TreeUntouched == stage = "scan" /\ \A e \in DOMAIN kind : kind[e] = "absent"
ReadsNext ==
    \/ TreeUntouched /\ Next /\ UNCHANGED treeVars
    \/ moves = <<>> /\ pc = "task" /\ Tree!Next /\ UNCHANGED vars
ReadsInit == Init /\ Tree!Init
ReadsSpec == ReadsInit /\ [][ReadsNext]_<<vars, treeVars>>

ReadsTypeOK == TypeOK /\ Tree!TypeOK

\* Of ArtifactView: a listing is of the tree of the work item and of nothing else,
\* whatever its run replaces meanwhile: links are never followed, and no file that was
\* there all the time is left out.
ListingIsOfTheTree == Tree!LinksAreNeverFollowed /\ Tree!SteadyFilesAreListed
=============================================================================
