-------------------------------- MODULE Setup --------------------------------
(***************************************************************************)
(* agent-os init and agent-os spec check (src/agent_os/cli.py) by several  *)
(* processes: init opens the ledger, compiles the agent bundle             *)
(* (sync_specs, src/agent_os/specs.py) and has Omnigent load it.           *)
(*                                                                         *)
(* Nothing excludes two of them, and a file is written in place: it is     *)
(* empty from its opening to its closing, for a reader and after a kill.   *)
(* A process that has done with init checks, or does it all over again.    *)
(***************************************************************************)
EXTENDS SchemaMigration

CONSTANTS
    Files,    \* the sequence of the files that expected_specs generates
    InitOf,   \* the versions of a ledger that init opens; others open the rest
    Found,    \* how the files may be at first
    MaxKills  \* bound: processes killed while they work on the bundle

ASSUME SetupAssumption ==
    /\ Files \in Seq({Files[i] : i \in DOMAIN Files}) /\ Files # <<>>
    /\ Found \subseteq {"none", "stale", "torn", "generated"}
    /\ MaxKills \in Nat

VARIABLES
    file,    \* file[f]: "none", "stale" (another content), "torn" or "generated"
    legacy,  \* whether task_ledger.py, of an earlier version, is there
    work,    \* work[p]: where p is in the bundle
    left,    \* left[p]: the files p has still to visit
    exit,    \* exit[p]: how the last command of p ended
    cut,     \* the files that a kill left torn
    kills    \* processes killed at their work on the bundle

bundle == <<file, legacy, cut>>
setup == <<bundle, work, left, exit, kills>>

Generated == {Files[i] : i \in DOMAIN Files}
Working(p, step) == work[p] = step
Leave(p, how) ==
    /\ work' = [work EXCEPT ![p] = "none"]
    /\ exit' = [exit EXCEPT ![p] = how]
Proceed(p, step) == work' = [work EXCEPT ![p] = step] /\ UNCHANGED exit
Visit(p, files) == left' = [left EXCEPT ![p] = files]

-----------------------------------------------------------------------------
(* sync_specs.  No other process removes a file it reads, so exists and     *)
(* read_text are one look.                                                  *)

BeginSync(p) ==
    /\ pc[p] = "ready" /\ Working(p, "none") /\ exit[p] = "none"
    /\ origin \in InitOf
    /\ Proceed(p, "compare")
    /\ Visit(p, Files)
    /\ UNCHANGED <<bundle, kills>>

Differs(f) == file[f] # "generated"

CompareExistence(p) ==
    /\ Working(p, "compare") /\ left[p] # <<>>
    /\ IF file[Head(left[p])] = "none"
       THEN Proceed(p, "open") /\ UNCHANGED left
       ELSE Visit(p, Tail(left[p])) /\ UNCHANGED <<work, exit>>
    /\ UNCHANGED <<bundle, kills>>
CompareFirst(p) ==
    /\ Working(p, "compare") /\ left[p] # <<>>
    /\ IF Differs(Head(left[p]))
       THEN Proceed(p, "open") /\ UNCHANGED left
       ELSE Visit(p, <<>>) /\ UNCHANGED <<work, exit>>
    /\ UNCHANGED <<bundle, kills>>
Compare(p) ==
    /\ Working(p, "compare") /\ left[p] # <<>>
    /\ IF Differs(Head(left[p]))
       THEN Proceed(p, "open") /\ UNCHANGED left
       ELSE Visit(p, Tail(left[p])) /\ UNCHANGED <<work, exit>>
    /\ UNCHANGED <<bundle, kills>>

\* write_text: opening truncates the file.
Open(p) ==
    /\ Working(p, "open")
    /\ file' = [file EXCEPT ![Head(left[p])] = "torn"]
    /\ Proceed(p, "write")
    /\ UNCHANGED <<legacy, left, cut, kills>>

Write(p) ==
    /\ Working(p, "write")
    /\ file' = [file EXCEPT ![Head(left[p])] = "generated"]
    /\ cut' = cut \ {Head(left[p])}
    /\ Visit(p, Tail(left[p]))
    /\ Proceed(p, "compare")
    /\ UNCHANGED <<legacy, kills>>

FindLegacy(p) ==
    /\ Working(p, "compare") /\ left[p] = <<>>
    /\ Proceed(p, IF legacy THEN "unlink" ELSE "validate")
    /\ Visit(p, Files)
    /\ UNCHANGED <<bundle, kills>>

\* unlink raises where another process was faster.
Unlink(p) ==
    /\ Working(p, "unlink")
    /\ legacy' = FALSE
    /\ IF legacy THEN Proceed(p, "validate") ELSE Leave(p, "error")
    /\ UNCHANGED <<file, left, cut, kills>>

-----------------------------------------------------------------------------
(* check_specs, and what follows both.                                      *)

BeginCheck(p) ==
    /\ Working(p, "none") /\ exit[p] # "none" /\ pc[p] = "ready"
    /\ Proceed(p, "check")
    /\ Visit(p, Files)
    /\ UNCHANGED <<bundle, kills>>

\* A file that drifted decides the exit code; what follows only reads.
CheckFile(p) ==
    /\ Working(p, "check") /\ left[p] # <<>>
    /\ IF Differs(Head(left[p]))
       THEN Leave(p, "drift") /\ UNCHANGED left
       ELSE Visit(p, Tail(left[p])) /\ UNCHANGED <<work, exit>>
    /\ UNCHANGED <<bundle, kills>>

CheckLegacy(p) ==
    /\ Working(p, "check") /\ left[p] = <<>>
    /\ IF legacy THEN Leave(p, "drift") ELSE Proceed(p, "validate")
    /\ Visit(p, Files)
    /\ UNCHANGED <<bundle, kills>>

\* validate_bundle: Omnigent reads the files one by one.  What it makes of another
\* content than the generated one is its own affair.
Validate(p) ==
    /\ Working(p, "validate")
    /\ \/ /\ Visit(p, Tail(left[p]))
          /\ IF Tail(left[p]) = <<>> THEN Leave(p, "zero") ELSE UNCHANGED <<work, exit>>
       \/ /\ Differs(Head(left[p]))
          /\ Leave(p, "error")
          /\ UNCHANGED left
    /\ UNCHANGED <<bundle, kills>>

Kill(p) ==
    /\ work[p] # "none"
    /\ kills < MaxKills
    /\ kills' = kills + 1
    /\ Leave(p, "killed")
    /\ cut' = IF Working(p, "write") /\ file[Head(left[p])] = "torn"
              THEN cut \cup {Head(left[p])} ELSE cut
    /\ UNCHANGED <<file, legacy, left>>

-----------------------------------------------------------------------------
SetupInit ==
    /\ Init
    /\ \E found \in Found :
        /\ file = [f \in Generated |-> found]
        /\ cut = IF found = "torn" THEN Generated ELSE {}
        /\ legacy = (found = "stale")
    /\ work = [p \in Processes |-> "none"]
    /\ left = [p \in Processes |-> <<>>]
    /\ exit = [p \in Processes |-> "none"]
    /\ kills = 0

Compile(p) ==
    \/ BeginSync(p) \/ Compare(p) \/ Open(p) \/ Write(p)
    \/ FindLegacy(p) \/ Unlink(p)
    \/ BeginCheck(p) \/ CheckFile(p) \/ CheckLegacy(p) \/ Validate(p)

\* The ledger is opened again by the next command.
Reopen(p) ==
    /\ Working(p, "none")
    /\ pc[p] = "ready" /\ origin \in InitOf => exit[p] # "none"
    /\ Again(p)
    /\ exit' = [exit EXCEPT ![p] = "none"]
    /\ UNCHANGED <<bundle, work, left, kills>>

OpenLedger(p) == Initialize(p) /\ UNCHANGED setup

Command(p) == OpenLedger(p) \/ Reopen(p) \/ (Compile(p) /\ UNCHANGED vars)

SetupNext ==
    \E p \in Processes :
        \/ Command(p)
        \/ (Refuse(p) \/ Crash(p)) /\ UNCHANGED setup
        \/ Kill(p) /\ UNCHANGED vars

SetupSpec == SetupInit /\ [][SetupNext]_<<vars, setup>>

\* A command that began goes on, and whoever checks now and then runs init again.
FairSetup ==
    /\ SetupSpec
    /\ \A p \in Processes :
        /\ WF_<<vars, setup>>(OpenLedger(p))
        /\ SF_<<vars, setup>>(Reopen(p))
        /\ WF_<<vars, setup>>(Compile(p) /\ UNCHANGED vars)

-----------------------------------------------------------------------------
(* Properties.                                                             *)

SetupTypeOK ==
    /\ TypeOK
    /\ file \in [Generated -> {"none", "stale", "torn", "generated"}]
    /\ cut \subseteq {f \in Generated : file[f] = "torn"}

\* An exit code of zero, of init or of check, means that the bundle is the compiled
\* one, and stays so: a file is not only while another process is writing it, or
\* after such a process was killed.
ZeroMeansGenerated ==
    \A p \in Processes : exit[p] = "zero" =>
        /\ ~legacy
        /\ \A f \in Generated : Differs(f) =>
            f \in cut \/ \E q \in Processes : Working(q, "write") /\ Head(left[q]) = f

\* A bundle that is absent, old or torn is the compiled one again and again, where the
\* ledger lets a process get to it.  It need not stay so: two processes that run init
\* over and over may each find the file torn that the other is writing.
BundleIsRepaired ==
    origin \in InitOf \ {4} => <>killed \/ []<>(~legacy /\ \A f \in Generated : ~Differs(f))
=============================================================================
