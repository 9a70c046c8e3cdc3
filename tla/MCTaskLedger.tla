---------------------------- MODULE MCTaskLedger ----------------------------
(* Instances of TaskLedger for TLC.                                        *)
EXTENDS TaskLedger, TLC

\* Tasks, clients, work items and providers are interchangeable: no definition
\* of TaskLedger chooses among them.
Symmetry ==
    Permutations(Tasks) \cup Permutations(Clients)
        \cup Permutations(WorkItems) \cup Permutations(Providers)
=============================================================================
