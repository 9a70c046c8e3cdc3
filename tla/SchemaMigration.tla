--------------------------- MODULE SchemaMigration ---------------------------
(***************************************************************************)
(* TaskStore.initialize (src/agent_os/store.py): every process that opens  *)
(* the ledger backs up a database of version 1 or 2, migrates it to        *)
(* version 3, and refuses any other.                                       *)
(*                                                                         *)
(* executescript commits each statement on its own, and nothing excludes   *)
(* two processes from initialising at once, so a statement is a step.  A   *)
(* process may be killed between two of them.                              *)
(***************************************************************************)
EXTENDS Naturals, Sequences

CONSTANTS
    Processes,  \* processes that open the ledger
    Origins     \* versions the database may have at first; 0 for no database

ASSUME OriginsAssumption == Origins \subseteq 0..4

VARIABLES
    origin,      \* the version the database had at first
    metas,       \* which tables hold a version: the "old" one, that one
                 \* "renamed", the "keyed" one that replaces it
    version,     \* the row of the keyed table, 0 if there is none
    tables,      \* whether the tables of the ledger exist
    applied,     \* the changes of later versions that they have
    duplicates,  \* whether two attempts of one work item are running
    backup,      \* backup[v]: what the backup file of version v holds
    pc,          \* pc[p]: where process p is in initialize
    seen,        \* seen[p]: current_version, 0 for None
    todo,        \* todo[p]: the statements p has still to execute
    killed       \* whether any process was killed

database == <<origin, metas, version, tables, applied, duplicates>>
vars == <<database, backup, pc, seen, todo, killed>>

-----------------------------------------------------------------------------
(* The scripts, a name for each statement.                                  *)

Columns == {"provider", "model", "kind", "work_item", "pid",
            "review_provider", "usage"}
Fills == {"fill_provider", "fill_kind", "fill_review_provider"}
Changes == Columns \cup Fills \cup {"unique"}
ChangesOfTwo == Changes \ {"usage"}

MigrateOneToTwoRenamingFirst ==
    <<"rename", "provider", "model", "kind", "work_item", "pid", "fill_provider",
      "fill_kind", "fail_duplicates", "review_provider", "fill_review_provider",
      "unique", "create", "insert_2", "drop">>
MigrateOneToTwo ==
    <<"provider", "model", "kind", "work_item", "pid", "fill_provider",
      "fill_kind", "fail_duplicates", "review_provider", "fill_review_provider",
      "unique", "rename", "create", "insert_2", "drop">>

MigrateTwoToThreeWithoutVersion == <<"usage">>
MigrateTwoToThree == <<"usage", "set_3">>

Schema == <<"meta", "insert_3", "tables", "unique">>

\* What initialize executes on a database it took for version v.
Statements(v) ==
    (IF v = 1 THEN MigrateOneToTwo ELSE <<>>)
        \o (IF v \in {1, 2} THEN MigrateTwoToThree ELSE <<>>) \o Schema

AcceptsReplacing(s) ==
    /\ s \in Columns => s \notin applied
    /\ s = "unique" => ~duplicates
    /\ s = "rename" => "old" \in metas
    /\ s = "create" => metas \cap {"old", "keyed"} = {}
    /\ s \in {"insert_2", "set_3", "insert_3"} => "keyed" \in metas
    /\ s = "drop" => "renamed" \in metas

\* Whether SQLite executes statement s: a column, a table or a key that exists
\* is refused, and so is an index that its rows contradict.
Accepts(s) ==
    /\ s \in Columns => s \notin applied
    /\ s = "unique" => ~duplicates
    /\ s = "rename" => "old" \in metas
    /\ s = "create" => metas \cap {"old", "keyed"} = {}
    /\ s \in {"insert_2", "set_3", "insert_3"} => "keyed" \in metas
    /\ s = "insert_2" => version = 0
    /\ s = "drop" => "renamed" \in metas

\* The tables that hold a version, after statement s.
MetasAfter(s) ==
    (metas \ ((IF s = "rename" THEN {"old"} ELSE {})
                \cup (IF s = "drop" THEN {"renamed"} ELSE {})))
        \cup (IF s = "rename" THEN {"renamed"} ELSE {})
        \cup (IF s = "create" \/ (s = "meta" /\ "old" \notin metas)
              THEN {"keyed"} ELSE {})

VersionAfter(s) ==
    CASE s = "insert_2" -> 2
      [] s = "set_3" /\ version # 0 -> 3
      [] s = "insert_3" /\ version = 0 -> 3
      [] OTHER -> version

\* A table created by the schema has every column; one that exists is kept.
AppliedAfter(s) ==
    applied \cup (CASE s \in Changes -> {s}
                    [] s = "tables" /\ ~tables -> Columns \cup Fills
                    [] OTHER -> {})

Execute(s) ==
    /\ metas' = MetasAfter(s)
    /\ version' = VersionAfter(s)
    /\ applied' = AppliedAfter(s)
    /\ tables' = (tables \/ s = "tables")
    /\ duplicates' = (duplicates /\ s # "fail_duplicates")
    /\ UNCHANGED origin

-----------------------------------------------------------------------------
At(p, step) == pc[p] = step
Goto(p, step) == pc' = [pc EXCEPT ![p] = step]

\* _schema_version.  Its queries are not one, but what they return together is
\* what one of them would have, or, where another process replaces the table
\* between them, an error, which Refuse stands for.
SchemaVersion ==
    IF "keyed" \in metas THEN version ELSE IF "old" \in metas THEN 1 ELSE 0

\* A database is as it was when it had version v.
Pristine(v) ==
    IF v = 1 THEN "old" \in metas /\ applied = {}
             ELSE version = 2 /\ "usage" \notin applied

Look(p) ==
    /\ At(p, "off")
    /\ seen' = [seen EXCEPT ![p] = SchemaVersion]
    /\ todo' = [todo EXCEPT ![p] = Statements(SchemaVersion)]
    /\ Goto(p, IF SchemaVersion \in {1, 2} THEN "backup" ELSE "run")
    /\ UNCHANGED <<database, backup, killed>>

Refuse(p) ==
    /\ At(p, "off")
    /\ \E q \in Processes \ {p} : At(q, "run") /\ seen[q] = 1
    /\ Goto(p, "refused")
    /\ UNCHANGED <<database, backup, seen, todo, killed>>

\* _backup_before_migration: a backup that exists is left alone; connecting to a
\* new one creates the file, and source.backup then copies the database at once.
SkipBackup(p) ==
    /\ At(p, "backup")
    /\ backup[seen[p]] # "none"
    /\ Goto(p, "run")
    /\ UNCHANGED <<database, backup, seen, todo, killed>>

CreateBackup(p) ==
    /\ At(p, "backup")
    /\ backup[seen[p]] = "none"
    /\ backup' = [backup EXCEPT ![seen[p]] = "empty"]
    /\ Goto(p, "copy")
    /\ UNCHANGED <<database, seen, todo, killed>>

CopyBackup(p) ==
    /\ At(p, "copy")
    /\ backup' = [backup EXCEPT ![seen[p]] =
                    IF Pristine(seen[p]) THEN "original" ELSE "changed"]
    /\ Goto(p, "run")
    /\ UNCHANGED <<database, seen, todo, killed>>

RunStatement(p) ==
    /\ At(p, "run")
    /\ todo[p] # <<>>
    /\ IF Accepts(Head(todo[p]))
       THEN /\ Execute(Head(todo[p]))
            /\ todo' = [todo EXCEPT ![p] = Tail(@)]
            /\ UNCHANGED pc
       ELSE /\ Goto(p, "refused")
            /\ UNCHANGED <<database, todo>>
    /\ UNCHANGED <<backup, seen, killed>>

CheckVersion(p) ==
    /\ At(p, "run")
    /\ todo[p] = <<>>
    /\ Goto(p, IF version = 3 THEN "ready" ELSE "refused")
    /\ UNCHANGED <<database, backup, seen, todo, killed>>

\* Every operation of the store initialises again.
Again(p) ==
    /\ pc[p] \in {"ready", "refused"}
    /\ Goto(p, "off")
    /\ UNCHANGED <<database, backup, seen, todo, killed>>

Crash(p) ==
    /\ pc[p] \in {"backup", "copy", "run"}
    /\ Goto(p, "off")
    /\ killed' = TRUE
    /\ UNCHANGED <<database, backup, seen, todo>>

-----------------------------------------------------------------------------
Init ==
    /\ origin \in Origins
    /\ metas = IF origin = 0 THEN {} ELSE IF origin = 1 THEN {"old"} ELSE {"keyed"}
    /\ version = IF origin = 1 THEN 0 ELSE origin
    /\ tables = (origin # 0)
    /\ applied = IF origin < 2 THEN {} ELSE IF origin = 2 THEN ChangesOfTwo ELSE Changes
    /\ duplicates \in (IF origin = 1 THEN BOOLEAN ELSE {FALSE})
    /\ backup = [v \in {1, 2} |-> "none"]
    /\ pc = [p \in Processes |-> "off"]
    /\ seen = [p \in Processes |-> 0]
    /\ todo = [p \in Processes |-> <<>>]
    /\ killed = FALSE

Initialize(p) ==
    \/ Look(p)
    \/ SkipBackup(p) \/ CreateBackup(p) \/ CopyBackup(p)
    \/ RunStatement(p) \/ CheckVersion(p)

Next == \E p \in Processes : Initialize(p) \/ Again(p) \/ Refuse(p) \/ Crash(p)

Spec == Init /\ [][Next]_vars

\* A process that opens the ledger goes on, and opens it again.
FairSpec == Spec /\ \A p \in Processes : WF_vars(Initialize(p) \/ Again(p))

-----------------------------------------------------------------------------
(* Properties.                                                             *)

\* Every variable holds a value of its type.
TypeOK ==
    /\ metas \subseteq {"old", "renamed", "keyed"}
    /\ version \in 0..4
    /\ applied \subseteq Changes
    /\ backup \in [{1, 2} -> {"none", "empty", "original", "changed"}]
    /\ pc \in [Processes -> {"off", "backup", "copy", "run", "ready", "refused"}]
    /\ seen \in [Processes -> 0..4]
    /\ killed \in BOOLEAN

\* The ledger is used only with the columns, the rows and the index of version 2,
\* whatever else initialises or is killed; and, unless it was version 1 at first,
\* with those of version 3.
ReadyMeansMigrated ==
    \A p \in Processes : pc[p] = "ready" =>
        /\ ChangesOfTwo \subseteq applied
        /\ origin # 1 => "usage" \in applied

\* No process takes a newer database back to an older version.
NoDowngrade == version' >= version

\* A database of version 1 or 2 is changed only once its backup was begun, whichever
\* process begins it and whichever changes the database.  That it was finished is
\* not kept: the file of a backup exists before the backup does.
BackupBegins ==
    origin \in {1, 2} /\ Pristine(origin) /\ ~(Pristine(origin)') =>
        backup[origin] # "none"

\* A migration only goes forward, and does not begin without a backup.
ForwardWithBackup == [][NoDowngrade /\ BackupBegins]_vars

\* While no process is killed, each is able to open a ledger of any version but a
\* newer one again and again, whoever migrates it.
StaysOpenable ==
    origin # 4 => \A p \in Processes : []<>(pc[p] = "ready" \/ killed)
=============================================================================
