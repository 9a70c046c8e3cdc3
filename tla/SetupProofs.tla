----------------------------- MODULE SetupProofs -----------------------------
(***************************************************************************)
(* What agent-os init keeps for every set of processes, files and kills:   *)
(* a ledger only goes forward and not without a backup, it is used only    *)
(* once it is migrated, and an exit code of zero means a compiled bundle.  *)
(***************************************************************************)
EXTENDS Setup, SequenceTheorems, TLAPS

-----------------------------------------------------------------------------
(* The ledger. *)

\* A ledger of version 4 is never taken for one to migrate.
NewerIsRefused ==
    /\ origin \in 0..4
    /\ todo = [p \in Processes |-> todo[p]]
    /\ version = 4 => metas = {"keyed"}
    /\ \A p \in Processes : version = 4 /\ pc[p] = "run" =>
        todo[p] \in Seq({"meta", "insert_3", "tables", "unique"})
    /\ \A p \in Processes : version = 4 => pc[p] \notin {"backup", "copy"}
    /\ origin = 2 => version >= 2

\* While a ledger is as it was, each process that opens it takes it for what it is,
\* and runs a migration only where the backup was begun.
Untouched ==
    origin \in {1, 2} /\ Pristine(origin) =>
        /\ metas = IF origin = 1 THEN {"old"} ELSE {"keyed"}
        /\ \A p \in Processes :
            /\ pc[p] \in {"backup", "copy", "run"} => seen[p] = origin
            /\ pc[p] \in {"copy", "run"} => backup[origin] # "none"

LedgerInv == TypeOK /\ NewerIsRefused /\ Untouched

-----------------------------------------------------------------------------
(* The bundle. *)

\* A file is compiled, or it is not for a reason that the property names.
Accounted(f) ==
    \/ ~Differs(f)
    \/ f \in cut
    \/ \E q \in Processes : Working(q, "write") /\ Head(left[q]) = f

Members(q) == {q[i] : i \in DOMAIN q}
Unvisited(p) == Members(left[p])

BundleTypes ==
    /\ file \in [Generated -> {"none", "stale", "torn", "generated"}]
    /\ cut \subseteq {f \in Generated : file[f] = "torn"}
    /\ legacy \in BOOLEAN
    /\ work \in [Processes -> {"none", "compare", "open", "write", "unlink", "check",
                               "validate"}]
    /\ left \in [Processes -> Seq(Generated)]
    /\ exit \in [Processes -> {"none", "zero", "drift", "error", "killed"}]

\* What a process has visited, and what it has seen of the tool.
Visited(p) ==
    /\ work[p] \in {"open", "write", "unlink", "validate"} => left[p] # <<>>
    /\ work[p] = "write" => file[Head(left[p])] \in {"torn", "generated"}
    /\ work[p] \in {"compare", "open", "write", "check"} =>
        \A f \in Generated \ Unvisited(p) : Accounted(f)
    /\ work[p] \in {"unlink", "validate"} \/ exit[p] = "zero" =>
        \A f \in Generated : Accounted(f)
    /\ work[p] = "validate" \/ exit[p] = "zero" => ~legacy

BundleInv == BundleTypes /\ \A p \in Processes : Visited(p)

-----------------------------------------------------------------------------
(* Proofs about the ledger. *)

LEMMA LedgerInit == Init => LedgerInv
<1> SUFFICES ASSUME Init PROVE LedgerInv
    OBVIOUS
<1>1. TypeOK
  <2>1. origin \in 0..4
      BY OriginsAssumption DEF Init
  <2>2. metas \subseteq {"old", "renamed", "keyed"} /\ version \in 0..4
      BY <2>1 DEF Init
  <2>3. applied \subseteq Changes
      BY <2>1 DEF Init, Changes, ChangesOfTwo
  <2>4. /\ backup \in [{1, 2} -> {"none", "empty", "original", "changed"}]
        /\ pc \in [Processes -> {"off", "backup", "copy", "run", "ready", "refused"}]
        /\ seen \in [Processes -> 0..4]
        /\ killed \in BOOLEAN
    <3>1. backup \in [{1, 2} -> {"none", "empty", "original", "changed"}]
        BY DEF Init
    <3>2. pc \in [Processes -> {"off", "backup", "copy", "run", "ready", "refused"}]
        BY DEF Init
    <3>3. seen = [p \in Processes |-> 0]
        BY DEF Init
    <3>4. killed \in BOOLEAN
        BY DEF Init
    <3> QED
        BY <3>1, <3>2, <3>3, <3>4
  <2> QED
      BY <2>2, <2>3, <2>4 DEF TypeOK
<1>2. NewerIsRefused
    BY OriginsAssumption DEF Init, NewerIsRefused
<1>3. Untouched
    BY OriginsAssumption DEF Init, Untouched
<1> QED
    BY <1>1, <1>2, <1>3 DEF LedgerInv

\* What one statement may change.
LEMMA Statement ==
    ASSUME LedgerInv, NEW s, Accepts(s), Execute(s),
           version = 4 => s \in {"meta", "insert_3", "tables", "unique"}
    PROVE  /\ version' \in 0..4 /\ version' >= version /\ (version' = 4 => version = 4)
           /\ metas' \subseteq {"old", "renamed", "keyed"}
           /\ version = 4 => metas' = {"keyed"}
           /\ applied' \subseteq Changes
           /\ Pristine(origin)' /\ origin \in {1, 2} => Pristine(origin) /\ metas' = metas
<1> USE DEF LedgerInv, Execute
<1>1. version' \in 0..4 /\ version' >= version /\ (version' = 4 => version = 4)
    BY DEF TypeOK, VersionAfter, Accepts, NewerIsRefused
<1>2. metas' \subseteq {"old", "renamed", "keyed"}
    BY DEF TypeOK, MetasAfter
<1>3. version = 4 => metas' = {"keyed"}
    BY DEF MetasAfter, NewerIsRefused
<1>4. applied' \subseteq Changes
    BY DEF TypeOK, AppliedAfter, Changes
<1>5. CASE origin = 1
  <2> SUFFICES ASSUME Pristine(1)' PROVE Pristine(1) /\ metas' = metas
      BY <1>1, <1>2, <1>3, <1>4, <1>5
  <2>1. "old" \in metas' /\ applied' = {}
      BY DEF Pristine
  <2>2. applied = {} /\ "old" \in metas
      BY <2>1 DEF AppliedAfter, MetasAfter
  <2>3. metas = {"old"}
      BY <1>5, <2>2 DEF Pristine, Untouched
  <2>4. s \notin {"rename", "create"}
      BY <2>1, <2>2 DEF MetasAfter, Accepts
  <2>5. metas' = metas
      BY <2>3, <2>4 DEF MetasAfter
  <2> QED
      BY <2>2, <2>5 DEF Pristine
<1>6. CASE origin = 2
  <2> SUFFICES ASSUME Pristine(2)' PROVE Pristine(2) /\ metas' = metas
      BY <1>1, <1>2, <1>3, <1>4, <1>6
  <2>1. version' = 2 /\ "usage" \notin applied'
      BY DEF Pristine
  <2>2. version = 2 /\ "usage" \notin applied
      BY <1>1, <1>6, <2>1 DEF AppliedAfter, NewerIsRefused, TypeOK
  <2>3. metas = {"keyed"}
      BY <1>6, <2>2 DEF Pristine, Untouched
  <2>4. metas' = metas
      BY <2>3 DEF MetasAfter, Accepts
  <2> QED
      BY <2>2, <2>4 DEF Pristine
<1> QED
    BY <1>1, <1>2, <1>3, <1>4, <1>5, <1>6

\* Each step of a process that opens the ledger.
LEMMA LedgerStep ==
    ASSUME LedgerInv, NEW p \in Processes,
           Initialize(p) \/ Again(p) \/ Refuse(p) \/ Crash(p)
    PROVE  LedgerInv' /\ NoDowngrade /\ BackupBegins
<1> USE DEF LedgerInv, At, Goto
<1>1. ASSUME UNCHANGED <<database, backup, seen, todo>>,
             pc' = [pc EXCEPT ![p] = pc'[p]],
             pc'[p] \in {"off", "ready", "refused"}, killed' \in BOOLEAN
      PROVE  LedgerInv' /\ NoDowngrade /\ BackupBegins
  <2>1. TypeOK'
      BY <1>1 DEF TypeOK, database
  <2>2. NewerIsRefused'
      BY <1>1 DEF NewerIsRefused, database, TypeOK
  <2>3. Untouched'
      BY <1>1 DEF Untouched, Pristine, database, TypeOK
  <2>4. NoDowngrade /\ BackupBegins
      BY <1>1 DEF NoDowngrade, BackupBegins, Pristine, database, TypeOK
  <2> QED
      BY <2>1, <2>2, <2>3, <2>4
<1>2. CASE Again(p) \/ Refuse(p) \/ Crash(p) \/ CheckVersion(p)
    BY <1>1, <1>2 DEF Again, Refuse, Crash, CheckVersion, TypeOK
<1>3. CASE Look(p)
  <2>1. UNCHANGED <<database, backup>> /\ pc' = [pc EXCEPT ![p] = pc'[p]]
      BY <1>3 DEF Look, TypeOK
  <2>2. /\ seen' = [seen EXCEPT ![p] = SchemaVersion]
        /\ todo' = [todo EXCEPT ![p] = Statements(SchemaVersion)]
        /\ pc'[p] = IF SchemaVersion \in {1, 2} THEN "backup" ELSE "run"
        /\ killed' = killed
      BY <1>3 DEF Look, TypeOK
  <2>3. SchemaVersion \in 0..4
      BY DEF SchemaVersion, TypeOK
  <2>4. TypeOK'
      BY <2>1, <2>2, <2>3 DEF TypeOK, database
  <2>5. NewerIsRefused'
    <3>1. version = 4 => SchemaVersion = 4
        BY DEF SchemaVersion, NewerIsRefused
    <3>2. Statements(4) \in Seq({"meta", "insert_3", "tables", "unique"})
      <4>1. Statements(4) = <<>> \o <<>> \o Schema
          BY DEF Statements
      <4>2. Schema \in Seq({"meta", "insert_3", "tables", "unique"})
          BY DEF Schema
      <4>3. ASSUME NEW e \in Seq({"meta", "insert_3", "tables", "unique"})
            PROVE  e \o e \o Schema \in Seq({"meta", "insert_3", "tables", "unique"})
          BY <4>2, ConcatProperties
      <4>4. <<>> \in Seq({"meta", "insert_3", "tables", "unique"})
          BY EmptySeq
      <4> QED
          BY <4>1, <4>3, <4>4
    <3> HIDE DEF LedgerInv
    <3>3. todo' = [q \in Processes |-> todo'[q]]
        BY <2>2 DEF LedgerInv, NewerIsRefused
    <3>4. /\ version = 4 => todo'[p] \in Seq({"meta", "insert_3", "tables", "unique"})
          /\ \A q \in Processes \ {p} : todo'[q] = todo[q] /\ pc'[q] = pc[q]
          /\ version = 4 => pc'[p] = "run"
        BY <2>1, <2>2, <3>1, <3>2 DEF LedgerInv, NewerIsRefused, TypeOK
    <3> QED
        BY <2>1, <3>3, <3>4 DEF LedgerInv, NewerIsRefused, database
  <2>6. Untouched'
    <3>1. origin \in {1, 2} /\ Pristine(origin) => SchemaVersion = origin
        BY DEF Untouched, Pristine, SchemaVersion
    <3> QED
        BY <2>1, <2>2, <3>1 DEF Untouched, Pristine, TypeOK, database
  <2>7. NoDowngrade /\ BackupBegins
      BY <2>1 DEF NoDowngrade, BackupBegins, Pristine, database, TypeOK
  <2> QED
      BY <2>4, <2>5, <2>6, <2>7
<1>4. CASE SkipBackup(p) \/ CreateBackup(p) \/ CopyBackup(p)
  <2>1. /\ UNCHANGED <<database, seen, todo, killed>>
        /\ pc[p] \in {"backup", "copy"} /\ pc'[p] \in {"copy", "run"}
        /\ pc' = [pc EXCEPT ![p] = pc'[p]]
      BY <1>4 DEF SkipBackup, CreateBackup, CopyBackup, TypeOK
  <2>2. /\ backup' \in [{1, 2} -> {"none", "empty", "original", "changed"}]
        /\ \A v \in {1, 2} : backup[v] # "none" => backup'[v] # "none"
        /\ seen[p] \in {1, 2} => backup'[seen[p]] # "none" \/ pc[p] = "copy"
      BY <1>4 DEF SkipBackup, CreateBackup, CopyBackup, TypeOK
  <2>3. TypeOK'
      BY <2>1, <2>2 DEF TypeOK, database
  <2>4. NewerIsRefused'
      BY <2>1 DEF NewerIsRefused, database, TypeOK
  <2>5. Untouched'
      BY <2>1, <2>2 DEF Untouched, Pristine, TypeOK, database
  <2>6. NoDowngrade /\ BackupBegins
      BY <2>1 DEF NoDowngrade, BackupBegins, Pristine, database, TypeOK
  <2> QED
      BY <2>3, <2>4, <2>5, <2>6
<1>5. CASE RunStatement(p)
  <2> DEFINE s == Head(todo[p])
  <2>1. CASE ~Accepts(s)
      BY <1>1, <1>5, <2>1 DEF RunStatement, TypeOK
  <2>2. CASE Accepts(s)
    <3>1. /\ pc[p] = "run" /\ todo[p] # <<>> /\ Execute(s)
          /\ todo' = [todo EXCEPT ![p] = Tail(todo[p])]
          /\ UNCHANGED <<pc, backup, seen, killed, origin>>
        BY <1>5, <2>2 DEF RunStatement, Execute
    <3>2. /\ version = 4 => s \in {"meta", "insert_3", "tables", "unique"}
          /\ version = 4 => Tail(todo[p]) \in Seq({"meta", "insert_3", "tables", "unique"})
        BY <3>1 DEF NewerIsRefused
    <3> HIDE DEF s
    <3>3. /\ version' \in 0..4 /\ version' >= version /\ (version' = 4 => version = 4)
          /\ metas' \subseteq {"old", "renamed", "keyed"}
          /\ version = 4 => metas' = {"keyed"}
          /\ applied' \subseteq Changes
          /\ Pristine(origin)' /\ origin \in {1, 2} => Pristine(origin) /\ metas' = metas
        BY <2>2, <3>1, <3>2, Statement
    <3>4. TypeOK'
        BY <3>1, <3>3 DEF TypeOK
    <3>5. NewerIsRefused'
      <4>1. todo' = [q \in Processes |-> todo'[q]]
          BY <3>1 DEF NewerIsRefused
      <4>2. /\ todo'[p] = Tail(todo[p])
            /\ \A q \in Processes \ {p} : todo'[q] = todo[q]
          BY <3>1 DEF NewerIsRefused
      <4> QED
          BY <3>1, <3>2, <3>3, <4>1, <4>2 DEF NewerIsRefused, TypeOK
    <3>6. Untouched'
        BY <3>1, <3>3 DEF Untouched
    <3>7. NoDowngrade /\ BackupBegins
        BY <3>1, <3>3 DEF NoDowngrade, BackupBegins, Untouched
    <3> QED
        BY <3>4, <3>5, <3>6, <3>7
  <2> QED
      BY <2>1, <2>2
<1> QED
    BY <1>2, <1>3, <1>4, <1>5 DEF Initialize

-----------------------------------------------------------------------------
(* Proofs about what a migration has done. *)

\* The names of statements.
Names ==
    Changes \cup {"fail_duplicates", "rename", "create", "insert_2", "drop", "set_3", "meta",
                  "insert_3", "tables"}

\* p executed the statements of its script up to a position, and has those after it
\* still to execute.
Position(p) == Len(Statements(seen[p])) - Len(todo[p])
OnScript(p) ==
    /\ todo[p] \in Seq(Names)
    /\ Position(p) \in Nat
    /\ \A i \in DOMAIN todo[p] : todo[p][i] = Statements(seen[p])[Position(p) + i]
Done(p) == {Statements(seen[p])[i] : i \in 1 .. Position(p)}

\* What p has executed shows in the database, whoever executes with it; and p takes no
\* ledger that was version 1 for another before a migration replaced its table.
Underway(p) ==
    /\ OnScript(p)
    /\ Done(p) \cap Changes \subseteq applied
    /\ "rename" \in Done(p) => "old" \notin metas
    /\ "tables" \in Done(p) => tables
    /\ origin = 1 /\ seen[p] # 1 => "old" \notin metas

\* The database has the changes of the version that it shows.
Shown ==
    /\ origin = 1 /\ "old" \notin metas => ChangesOfTwo \subseteq applied
    /\ origin # 1 /\ tables => ChangesOfTwo \ {"unique"} \subseteq applied
    /\ origin \notin {1, 2} /\ tables => "usage" \in applied
    /\ origin = 2 => tables /\ (version = 3 => "usage" \in applied)
    /\ "old" \in metas => "keyed" \notin metas

MigrationInv ==
    /\ Shown
    /\ \A p \in Processes : pc[p] \in {"backup", "copy", "run"} => Underway(p)
    /\ ReadyMeansMigrated

LEMMA NamesOfScripts ==
    /\ \A s \in Columns \cup Fills \cup {"unique", "fail_duplicates", "rename", "create",
            "insert_2", "drop", "set_3", "meta", "insert_3", "tables"} : s \in Names
    /\ MigrateOneToTwo \in Seq(Names)
    /\ MigrateTwoToThree \in Seq(Names)
    /\ Schema \in Seq(Names)
<1>1. \A s \in Columns \cup Fills \cup {"unique", "fail_duplicates", "rename", "create",
            "insert_2", "drop", "set_3", "meta", "insert_3", "tables"} : s \in Names
    BY DEF Names, Changes
<1>2. /\ "provider" \in Names /\ "model" \in Names /\ "kind" \in Names
      /\ "work_item" \in Names /\ "pid" \in Names /\ "review_provider" \in Names
      /\ "usage" \in Names /\ "fill_provider" \in Names /\ "fill_kind" \in Names
      /\ "fill_review_provider" \in Names
    BY DEF Names, Changes, Columns, Fills
<1>3. /\ "unique" \in Names /\ "fail_duplicates" \in Names /\ "rename" \in Names
      /\ "create" \in Names /\ "insert_2" \in Names /\ "drop" \in Names
      /\ "set_3" \in Names /\ "meta" \in Names /\ "insert_3" \in Names
      /\ "tables" \in Names
    BY <1>1
<1>4. MigrateOneToTwo \in Seq(Names)
    BY <1>2, <1>3 DEF MigrateOneToTwo
<1> QED
    BY <1>1, <1>2, <1>3, <1>4 DEF MigrateTwoToThree, Schema

\* Every script is a sequence of them.
LEMMA ScriptTypes ==
    ASSUME NEW v
    PROVE  Statements(v) \in Seq(Names)
<1>1. <<>> \in Seq(Names)
    BY EmptySeq
<1>2. (IF v = 1 THEN MigrateOneToTwo ELSE <<>>) \in Seq(Names)
    BY <1>1, NamesOfScripts
<1>3. (IF v \in {1, 2} THEN MigrateTwoToThree ELSE <<>>) \in Seq(Names)
    BY <1>1, NamesOfScripts
<1> QED
    BY <1>2, <1>3, NamesOfScripts, ConcatProperties DEF Statements

LEMMA ScriptOne ==
    /\ DOMAIN Statements(1) = 1 .. 21
    /\ \A i \in 1 .. 15 : Statements(1)[i] = MigrateOneToTwo[i]
    /\ Statements(1)[16] = "usage" /\ Statements(1)[17] = "set_3"
    /\ Statements(1)[18] = "meta" /\ Statements(1)[19] = "insert_3"
    /\ Statements(1)[20] = "tables" /\ Statements(1)[21] = "unique"
<1> DEFINE both == MigrateOneToTwo \o MigrateTwoToThree
<1>1. Statements(1) = both \o Schema
    BY DEF Statements
<1>2. Len(MigrateOneToTwo) = 15 /\ Len(MigrateTwoToThree) = 2 /\ Len(Schema) = 4
    BY DEF MigrateOneToTwo, MigrateTwoToThree, Schema
<1>3. /\ both \in Seq(Names) /\ Len(both) = 17
      /\ \A i \in 1 .. 17 : both[i] = IF i <= 15 THEN MigrateOneToTwo[i]
                                     ELSE MigrateTwoToThree[i - 15]
  <2>1. /\ both \in Seq(Names) /\ Len(both) = Len(MigrateOneToTwo) + Len(MigrateTwoToThree)
        /\ \A i \in 1 .. Len(MigrateOneToTwo) + Len(MigrateTwoToThree) :
                both[i] = IF i <= Len(MigrateOneToTwo) THEN MigrateOneToTwo[i]
                          ELSE MigrateTwoToThree[i - Len(MigrateOneToTwo)]
      BY NamesOfScripts, ConcatProperties
  <2>2. 15 + 2 = 17
      OBVIOUS
  <2> QED
      BY <1>2, <2>1, <2>2
<1> HIDE DEF both
<1>4. /\ both \o Schema \in Seq(Names) /\ Len(both \o Schema) = 21
      /\ \A i \in 1 .. 21 : (both \o Schema)[i] = IF i <= 17 THEN both[i] ELSE Schema[i - 17]
  <2>1. /\ both \o Schema \in Seq(Names) /\ Len(both \o Schema) = Len(both) + Len(Schema)
        /\ \A i \in 1 .. Len(both) + Len(Schema) :
                (both \o Schema)[i] = IF i <= Len(both) THEN both[i] ELSE Schema[i - Len(both)]
      BY <1>3, NamesOfScripts, ConcatProperties
  <2>2. 17 + 4 = 21
      OBVIOUS
  <2> QED
      BY <1>2, <1>3, <2>1, <2>2
<1>5. DOMAIN Statements(1) = 1 .. 21
  <2>1. DOMAIN (both \o Schema) = 1 .. Len(both \o Schema)
      BY <1>4, LenProperties
  <2> QED
      BY <1>1, <1>4, <2>1
<1> DEFINE script == Statements(1)
<1>10. \A i \in 1 .. 21 : script[i] = IF i <= 17 THEN both[i] ELSE Schema[i - 17]
  <2>1. PICK w : w = both \o Schema
      OBVIOUS
  <2>2. script = w
      BY <1>1, <2>1
  <2>3. \A i \in 1 .. 21 : w[i] = IF i <= 17 THEN both[i] ELSE Schema[i - 17]
      BY <1>4, <2>1
  <2> HIDE DEF script
  <2> QED
      BY <2>2, <2>3
<1> HIDE DEF script
<1>6. \A i \in 1 .. 15 : script[i] = MigrateOneToTwo[i]
  <2>1. \A i \in 1 .. 15 : i \in 1 .. 21 /\ i \in 1 .. 17 /\ i <= 17 /\ i <= 15
      OBVIOUS
  <2>2. ASSUME NEW i \in 1 .. 15
        PROVE  both[i] = MigrateOneToTwo[i] /\ script[i] = both[i]
    <3>1. i \in 1 .. 17 /\ i <= 15 /\ i \in 1 .. 21 /\ i <= 17
        BY <2>1
    <3>2. both[i] = IF i <= 15 THEN MigrateOneToTwo[i] ELSE MigrateTwoToThree[i - 15]
        BY <1>3, <3>1
    <3>3. script[i] = IF i <= 17 THEN both[i] ELSE Schema[i - 17]
        BY <1>10, <3>1
    <3> QED
        BY <3>1, <3>2, <3>3
  <2> QED
      BY <2>2
<1>7. both[16] = MigrateTwoToThree[1] /\ both[17] = MigrateTwoToThree[2]
  <2>1. 16 - 15 = 1 /\ 17 - 15 = 2 /\ ~(16 <= 15) /\ ~(17 <= 15)
      OBVIOUS
  <2> QED
      BY <1>3, <2>1
<1>8. /\ Statements(1)[16] = both[16] /\ Statements(1)[17] = both[17]
      /\ Statements(1)[18] = Schema[1] /\ Statements(1)[19] = Schema[2]
      /\ Statements(1)[20] = Schema[3] /\ Statements(1)[21] = Schema[4]
  <2>1. /\ 18 - 17 = 1 /\ 19 - 17 = 2 /\ 20 - 17 = 3 /\ 21 - 17 = 4
        /\ \A i \in {18, 19, 20, 21} : ~(i <= 17) /\ i \in 1 .. 21
        /\ \A i \in {16, 17} : i <= 17 /\ i \in 1 .. 21
      OBVIOUS
  <2>2. /\ script[16] = both[16] /\ script[17] = both[17]
        /\ script[18] = Schema[1] /\ script[19] = Schema[2]
        /\ script[20] = Schema[3] /\ script[21] = Schema[4]
      BY <1>10, <2>1
  <2> QED
      BY <2>2 DEF script
<1>9. /\ MigrateTwoToThree[1] = "usage" /\ MigrateTwoToThree[2] = "set_3"
      /\ Schema[1] = "meta" /\ Schema[2] = "insert_3" /\ Schema[3] = "tables"
      /\ Schema[4] = "unique"
    BY DEF MigrateTwoToThree, Schema
<1> QED
    BY <1>5, <1>6, <1>7, <1>8, <1>9 DEF script

LEMMA ScriptTwo ==
    Statements(2) = <<"usage", "set_3", "meta", "insert_3", "tables", "unique">>
<1>1. Statements(2) = (<<>> \o MigrateTwoToThree) \o Schema
    BY DEF Statements
<1>2. MigrateTwoToThree \in Seq({"usage", "set_3"})
    BY DEF MigrateTwoToThree
<1>3. <<>> \o MigrateTwoToThree = MigrateTwoToThree
    BY <1>2, ConcatEmptySeq
<1> QED
    BY <1>1, <1>3 DEF MigrateTwoToThree, Schema

LEMMA ScriptOfOthers ==
    ASSUME NEW v \in {0, 3, 4}
    PROVE  Statements(v) = <<"meta", "insert_3", "tables", "unique">>
<1>0. v # 1 /\ v \notin {1, 2}
    OBVIOUS
<1>1. Statements(v) = (<<>> \o <<>>) \o Schema
    BY <1>0 DEF Statements
<1>2. Schema \in Seq({"meta", "insert_3", "tables", "unique"})
    BY DEF Schema
<1>3. <<>> \o <<>> = <<>> /\ <<>> \in Seq({"meta", "insert_3", "tables", "unique"})
    BY EmptySeq, ConcatEmptySeq
<1>4. <<>> \o Schema = Schema
    BY <1>2, ConcatEmptySeq
<1> QED
    BY <1>1, <1>3, <1>4 DEF Schema

\* What the order of the statements promises.
LEMMA Scripts ==
    ASSUME NEW v \in 0 .. 4
    PROVE  /\ \E i \in DOMAIN Statements(v) : Statements(v)[i] = "unique"
           /\ \E i \in DOMAIN Statements(v) : Statements(v)[i] = "tables"
           /\ v = 1 => \E i \in DOMAIN Statements(v) : Statements(v)[i] = "rename"
           /\ \A i \in DOMAIN Statements(v) :
                /\ Statements(v)[i] = "rename" => ChangesOfTwo \subseteq
                        {Statements(v)[j] : j \in 1 .. i - 1}
                /\ Statements(v)[i] = "set_3" => \E j \in 1 .. i - 1 : Statements(v)[j] = "usage"
<1>1. CASE v = 1
  <2>0. /\ MigrateOneToTwo[1] = "provider" /\ MigrateOneToTwo[2] = "model"
        /\ MigrateOneToTwo[3] = "kind" /\ MigrateOneToTwo[4] = "work_item"
        /\ MigrateOneToTwo[5] = "pid" /\ MigrateOneToTwo[6] = "fill_provider"
        /\ MigrateOneToTwo[7] = "fill_kind" /\ MigrateOneToTwo[8] = "fail_duplicates"
        /\ MigrateOneToTwo[9] = "review_provider"
        /\ MigrateOneToTwo[10] = "fill_review_provider"
        /\ MigrateOneToTwo[11] = "unique" /\ MigrateOneToTwo[12] = "rename"
        /\ MigrateOneToTwo[13] = "create" /\ MigrateOneToTwo[14] = "insert_2"
        /\ MigrateOneToTwo[15] = "drop"
      BY DEF MigrateOneToTwo
  <2>1. /\ DOMAIN Statements(1) = 1 .. 21
        /\ Statements(1)[11] = "unique" /\ Statements(1)[20] = "tables"
        /\ Statements(1)[12] = "rename" /\ Statements(1)[16] = "usage"
      BY <2>0, ScriptOne
  <2>2. ASSUME NEW i \in 1 .. 21
        PROVE  /\ Statements(1)[i] = "rename" => i = 12
               /\ Statements(1)[i] = "set_3" => i = 17
    <3>1. i \in 1 .. 15 \/ i \in {16, 17, 18, 19, 20, 21}
        OBVIOUS
    <3>2. ASSUME i \in 1 .. 15
          PROVE  /\ MigrateOneToTwo[i] = "rename" => i = 12
                 /\ MigrateOneToTwo[i] # "set_3"
      <4>1. \/ i = 1 \/ i = 2 \/ i = 3 \/ i = 4 \/ i = 5 \/ i = 6 \/ i = 7 \/ i = 8
            \/ i = 9 \/ i = 10 \/ i = 11 \/ i = 12 \/ i = 13 \/ i = 14 \/ i = 15
          BY <3>2
      <4> QED
          BY <2>0, <4>1
    <3> QED
        BY <3>1, <3>2, ScriptOne
  <2>3. ChangesOfTwo \subseteq {Statements(1)[j] : j \in 1 .. 11}
    <3>1. /\ Statements(1)[1] = "provider" /\ Statements(1)[2] = "model"
          /\ Statements(1)[3] = "kind" /\ Statements(1)[4] = "work_item"
          /\ Statements(1)[5] = "pid" /\ Statements(1)[6] = "fill_provider"
          /\ Statements(1)[7] = "fill_kind" /\ Statements(1)[9] = "review_provider"
          /\ Statements(1)[10] = "fill_review_provider" /\ Statements(1)[11] = "unique"
        BY <2>0, ScriptOne
    <3> QED
        BY <3>1 DEF ChangesOfTwo, Changes, Columns, Fills
  <2>4. 12 - 1 = 11 /\ 16 \in 1 .. 17 - 1
      OBVIOUS
  <2>5. ASSUME NEW i \in 1 .. 21
        PROVE  /\ Statements(1)[i] = "rename" => ChangesOfTwo \subseteq
                        {Statements(1)[j] : j \in 1 .. i - 1}
               /\ Statements(1)[i] = "set_3" => \E j \in 1 .. i - 1 : Statements(1)[j] = "usage"
      BY <2>1, <2>2, <2>3, <2>4
  <2>6. 11 \in 1 .. 21 /\ 12 \in 1 .. 21 /\ 20 \in 1 .. 21
      OBVIOUS
  <2> QED
      BY <1>1, <2>1, <2>5, <2>6
<1>2. CASE v = 2
  <2>1. /\ DOMAIN Statements(2) = 1 .. 6
        /\ Statements(2)[1] = "usage" /\ Statements(2)[5] = "tables"
        /\ Statements(2)[6] = "unique"
      BY ScriptTwo
  <2>2. ASSUME NEW i \in 1 .. 6
        PROVE  /\ Statements(2)[i] # "rename"
               /\ Statements(2)[i] = "set_3" => i = 2
      BY ScriptTwo
  <2> QED
      BY <1>2, <2>1, <2>2
<1>3. CASE v \in {0, 3, 4}
  <2>1. /\ DOMAIN Statements(v) = 1 .. 4
        /\ Statements(v)[3] = "tables" /\ Statements(v)[4] = "unique"
      BY <1>3, ScriptOfOthers
  <2>2. \A i \in 1 .. 4 : Statements(v)[i] \notin {"rename", "set_3"}
      BY <1>3, ScriptOfOthers
  <2> QED
      BY <1>3, <2>1, <2>2
<1> QED
    BY <1>1, <1>2, <1>3

\* What p remembers of its script stays true while others only add to the database.
LEMMA UnderwayKept ==
    ASSUME NEW p, Underway(p), seen'[p] = seen[p], todo'[p] = todo[p], UNCHANGED origin,
           applied \subseteq applied', "old" \in metas' => "old" \in metas,
           tables => tables'
    PROVE  Underway(p)'
BY DEF Underway, OnScript, Done, Position

\* Counting the statements that are executed.
LEMMA Counting ==
    ASSUME NEW n \in Nat, NEW m \in Nat \ {0}, NEW k \in Nat, k = n - m
    PROVE  /\ k + 1 \in 1 .. n /\ 1 \in 1 .. m
           /\ n - (m - 1) = k + 1 /\ k + 1 \in Nat
           /\ 1 .. k + 1 = (1 .. k) \cup {k + 1}
OBVIOUS

\* The next statement of a script, and what is done once it is executed.
LEMMA NextStatement ==
    ASSUME NEW p \in Processes, OnScript(p), todo[p] # <<>>, seen[p] \in 0 .. 4
    PROVE  /\ Position(p) + 1 \in DOMAIN Statements(seen[p])
           /\ Head(todo[p]) = Statements(seen[p])[Position(p) + 1]
           /\ seen'[p] = seen[p] /\ todo'[p] = Tail(todo[p]) =>
                /\ OnScript(p)'
                /\ Done(p)' = Done(p) \cup {Head(todo[p])}
<1> DEFINE s == Statements(seen[p])
           t == todo[p]
<1>1. /\ s \in Seq(Names) /\ Len(s) \in Nat /\ DOMAIN s = 1 .. Len(s)
  <2>1. s \in Seq(Names)
      BY ScriptTypes
  <2> QED
      BY <2>1, LenProperties
<1>2. /\ t \in Seq(Names) /\ Len(t) \in Nat \ {0} /\ DOMAIN t = 1 .. Len(t)
      /\ Head(t) = t[1] /\ Tail(t) \in Seq(Names) /\ Len(Tail(t)) = Len(t) - 1
      /\ DOMAIN Tail(t) = 1 .. Len(t) - 1
      /\ \A i \in 1 .. Len(t) - 1 : Tail(t)[i] = t[i + 1]
  <2>1. t \in Seq(Names)
      BY DEF OnScript
  <2> QED
      BY <2>1, HeadTailProperties, EmptySeq, LenProperties
<1>3. Position(p) = Len(s) - Len(t) /\ Position(p) \in Nat
    BY DEF Position, OnScript
<1>4. \A i \in DOMAIN t : t[i] = s[Position(p) + i]
    BY DEF OnScript
<1>8. /\ Position(p) + 1 \in 1 .. Len(s) /\ 1 \in 1 .. Len(t)
      /\ Len(s) - (Len(t) - 1) = Position(p) + 1 /\ Position(p) + 1 \in Nat
      /\ 1 .. Position(p) + 1 = (1 .. Position(p)) \cup {Position(p) + 1}
  <2> HIDE DEF s, t
  <2>1. PICK a \in Nat : a = Len(s)
      BY <1>1
  <2>2. PICK b \in Nat \ {0} : b = Len(t)
      BY <1>2
  <2>3. PICK k \in Nat : k = Position(p)
      BY <1>3
  <2>4. k = a - b
      BY <1>3, <2>1, <2>2, <2>3
  <2>5. /\ k + 1 \in 1 .. a /\ 1 \in 1 .. b
        /\ a - (b - 1) = k + 1 /\ k + 1 \in Nat
        /\ 1 .. k + 1 = (1 .. k) \cup {k + 1}
      BY <2>4, Counting
  <2> QED
      BY <2>1, <2>2, <2>3, <2>5, Zenon
<1>5. Position(p) + 1 \in DOMAIN s /\ Head(t) = s[Position(p) + 1]
  <2> HIDE DEF s, t
  <2> QED
      BY <1>1, <1>2, <1>4, <1>8
<1>6. ASSUME seen'[p] = seen[p], todo'[p] = Tail(todo[p])
      PROVE  /\ OnScript(p)'
             /\ Done(p)' = Done(p) \cup {Head(todo[p])}
  <2>1. Position(p)' = Len(s) - Len(Tail(t))
      BY <1>6 DEF Position
  <2>2. Position(p)' = Position(p) + 1
    <3> HIDE DEF s, t
    <3> QED
        BY <1>2, <1>8, <2>1
  <2>3. OnScript(p)'
    <3>1. ASSUME NEW i \in 1 .. Len(t) - 1
          PROVE  Tail(t)[i] = s[Position(p) + 1 + i]
      <4>1. i + 1 \in 1 .. Len(t) /\ Position(p) + (i + 1) = Position(p) + 1 + i
          BY <1>2, <1>3
      <4> QED
          BY <1>2, <1>4, <4>1
    <3> HIDE DEF s, t
    <3>2. \A i \in DOMAIN Tail(t) : Tail(t)[i] = s[Position(p)' + i]
        BY <1>2, <2>2, <3>1
    <3>3. Tail(t) \in Seq(Names) /\ Position(p)' \in Nat
        BY <1>2, <1>3, <2>2
    <3> QED
        BY <1>6, <3>2, <3>3 DEF OnScript, s, t
  <2>4. Done(p)' = {s[i] : i \in 1 .. Position(p) + 1}
      BY <1>6, <2>2 DEF Done
  <2>5. Done(p) = {s[i] : i \in 1 .. Position(p)}
      BY DEF Done
  <2>6. 1 .. Position(p) + 1 = (1 .. Position(p)) \cup {Position(p) + 1}
      BY <1>8
  <2> HIDE DEF s, t
  <2>7. {s[i] : i \in 1 .. Position(p) + 1} = {s[i] : i \in 1 .. Position(p)} \cup {Head(t)}
      BY <1>5, <2>6
  <2> QED
      BY <2>3, <2>4, <2>5, <2>7 DEF t
<1> QED
    BY <1>5, <1>6

LEMMA MigrationInit == Init => MigrationInv
<1> SUFFICES ASSUME Init PROVE MigrationInv
    OBVIOUS
<1>1. origin \in 0 .. 4 /\ ChangesOfTwo \subseteq Changes /\ "usage" \in Changes
    BY OriginsAssumption DEF Init, ChangesOfTwo, Changes, Columns
<1>4. /\ metas = IF origin = 0 THEN {} ELSE IF origin = 1 THEN {"old"} ELSE {"keyed"}
      /\ version = IF origin = 1 THEN 0 ELSE origin
      /\ applied = IF origin < 2 THEN {} ELSE IF origin = 2 THEN ChangesOfTwo ELSE Changes
    BY DEF Init
<1>5. (tables => origin # 0) /\ (origin # 0 => tables)
    BY Zenon DEF Init
<1>2. Shown
  <2>1. CASE origin = 0
      BY <1>4, <1>5, <2>1 DEF Shown
  <2>2. CASE origin = 1
      BY <1>4, <2>2 DEF Shown
  <2>3. CASE origin = 2
    <3>1. metas = {"keyed"} /\ tables /\ applied = ChangesOfTwo /\ version = 2
        BY <1>4, <1>5, <2>3
    <3> QED
        BY <2>3, <3>1 DEF Shown
  <2>4. CASE origin \in {3, 4}
    <3>1. metas = {"keyed"} /\ applied = Changes
        BY <1>4, <2>4
    <3> QED
        BY <1>1, <2>4, <3>1 DEF Shown
  <2> QED
      BY <1>1, <2>1, <2>2, <2>3, <2>4
<1>3. \A p \in Processes : pc[p] = "off"
    BY DEF Init
<1> QED
    BY <1>2, <1>3 DEF MigrationInv, ReadyMeansMigrated

\* A statement of a script leaves the database with the changes of what it shows.
LEMMA StatementShows ==
    ASSUME LedgerInv, MigrationInv, NEW p \in Processes, pc[p] = "run", todo[p] # <<>>,
           NEW s, s = Head(todo[p]), Accepts(s), Execute(s)
    PROVE  /\ Shown'
           /\ applied \subseteq applied' /\ (tables => tables')
           /\ "old" \in metas' => "old" \in metas
           /\ s \in Changes => s \in applied'
           /\ s = "rename" => "old" \notin metas'
           /\ s = "tables" => tables'
<1>0. /\ Underway(p) /\ OnScript(p) /\ seen[p] \in 0 .. 4
      /\ Done(p) \cap Changes \subseteq applied
    BY DEF MigrationInv, Underway, LedgerInv, TypeOK
<1>1. /\ applied \subseteq applied' /\ (tables => tables')
      /\ "old" \in metas' => "old" \in metas
      /\ s \in Changes => s \in applied'
      /\ s = "rename" => "old" \notin metas'
      /\ s = "tables" => tables'
      /\ origin' = origin
  <2>1. origin' = origin /\ metas' = MetasAfter(s) /\ applied' = AppliedAfter(s)
      BY DEF Execute
  <2>2. (tables => tables') /\ (s = "tables" => tables')
      BY Zenon DEF Execute
  <2>3. applied \subseteq applied' /\ (s \in Changes => s \in applied')
    <3>1. "tables" \notin Changes
        BY DEF Changes, Columns, Fills
    <3>2. CASE s \in Changes
      <4>1. s # "tables"
          BY <3>1, <3>2
      <4> QED
          BY <2>1, <3>2, <4>1 DEF AppliedAfter
    <3>3. CASE s \notin Changes
        BY <2>1, <3>3 DEF AppliedAfter
    <3> QED
        BY <3>2, <3>3
  <2>4. ("old" \in metas' => "old" \in metas) /\ (s = "rename" => "old" \notin metas')
      BY <2>1 DEF MetasAfter
  <2> QED
      BY <2>1, <2>2, <2>3, <2>4
<1>2. PICK i : i = Position(p) + 1
    OBVIOUS
<1>3. PICK v \in 0 .. 4 : v = seen[p]
    BY <1>0
<1>4. i \in DOMAIN Statements(v) /\ s = Statements(v)[i]
    BY <1>0, <1>2, <1>3, NextStatement
<1>5. Done(p) = {Statements(v)[j] : j \in 1 .. i - 1}
  <2>1. Position(p) = i - 1
      BY <1>0, <1>2 DEF OnScript
  <2> QED
      BY <1>3, <2>1 DEF Done
<1>6. ASSUME origin = 1, "old" \notin metas'
      PROVE  ChangesOfTwo \subseteq applied'
  <2>1. CASE "old" \notin metas
      BY <1>1, <1>6, <2>1 DEF MigrationInv, Shown
  <2>2. CASE "old" \in metas
    <3>1. s = "rename"
        BY <1>6, <2>2 DEF Execute, MetasAfter
    <3>2. ChangesOfTwo \subseteq Done(p)
        BY <1>4, <1>5, <3>1, Scripts
    <3> QED
        BY <1>0, <1>1, <3>2 DEF ChangesOfTwo
  <2> QED
      BY <2>1, <2>2
<1>7. ASSUME origin # 1, tables', ~tables
      PROVE  Columns \cup Fills \subseteq applied'
    BY <1>7 DEF Execute, AppliedAfter, Changes, Columns, Fills
<1>8. ASSUME origin = 2, version' = 3
      PROVE  "usage" \in applied'
  <2>1. CASE version = 3
      BY <1>1, <1>8, <2>1 DEF MigrationInv, Shown
  <2>2. CASE version # 3
    <3>1. s = "set_3"
        BY <1>8, <2>2 DEF Execute, VersionAfter, LedgerInv, NewerIsRefused, TypeOK
    <3>2. "usage" \in Done(p)
        BY <1>4, <1>5, <3>1, Scripts
    <3> QED
        BY <1>0, <1>1, <3>2 DEF Changes, Columns
  <2> QED
      BY <2>1, <2>2
<1>9. /\ ChangesOfTwo \ {"unique"} \subseteq Columns \cup Fills
      /\ "usage" \in Columns
    BY DEF ChangesOfTwo, Changes, Columns
<1>10. Shown
    BY DEF MigrationInv
<1>13. "old" \in metas' => "keyed" \notin metas'
    BY <1>1, <1>10 DEF Execute, Accepts, MetasAfter, Shown
<1>11. /\ origin' = 1 /\ "old" \notin metas' => ChangesOfTwo \subseteq applied'
       /\ origin' = 2 => tables' /\ (version' = 3 => "usage" \in applied')
    BY <1>1, <1>6, <1>8, <1>10 DEF Shown
<1>12. /\ origin' # 1 /\ tables' => ChangesOfTwo \ {"unique"} \subseteq applied'
       /\ origin' \notin {1, 2} /\ tables' => "usage" \in applied'
    BY <1>1, <1>7, <1>9, <1>10 DEF Shown
<1> QED
    BY <1>1, <1>11, <1>12, <1>13 DEF Shown

\* Each step of a process that opens the ledger.
LEMMA MigrationStep ==
    ASSUME LedgerInv, MigrationInv, NEW p \in Processes,
           Initialize(p) \/ Again(p) \/ Refuse(p) \/ Crash(p)
    PROVE  MigrationInv'
<1> USE DEF At, Goto
<1>0. /\ pc \in [Processes -> {"off", "backup", "copy", "run", "ready", "refused"}]
      /\ seen \in [Processes -> 0 .. 4] /\ todo = [q \in Processes |-> todo[q]]
      /\ Shown /\ ReadyMeansMigrated
      /\ \A q \in Processes : pc[q] \in {"backup", "copy", "run"} => Underway(q)
    BY DEF LedgerInv, TypeOK, NewerIsRefused, MigrationInv
\* The database stays, and so does what p has of its script, or it has none.
<1>1. ASSUME UNCHANGED database,
             \A q \in Processes \ {p} : UNCHANGED <<pc[q], seen[q], todo[q]>>,
             pc'[p] \in {"backup", "copy", "run"} => Underway(p)',
             pc'[p] # "ready"
      PROVE  MigrationInv'
  <2>1. Shown'
      BY <1>0, <1>1 DEF Shown, database
  <2>2. ASSUME NEW q \in Processes \ {p}, pc'[q] \in {"backup", "copy", "run"}
        PROVE  Underway(q)'
      BY <1>0, <1>1, <2>2, UnderwayKept DEF database
  <2>3. ReadyMeansMigrated'
      BY <1>0, <1>1 DEF ReadyMeansMigrated, database
  <2> QED
      BY <1>1, <2>1, <2>2, <2>3 DEF MigrationInv
<1>2. CASE Again(p) \/ Refuse(p) \/ Crash(p)
  <2>1. /\ UNCHANGED <<database, seen, todo>> /\ pc'[p] \in {"off", "refused"}
        /\ \A q \in Processes \ {p} : pc'[q] = pc[q]
      BY <1>0, <1>2 DEF Again, Refuse, Crash
  <2> QED
      BY <1>1, <2>1
<1>3. CASE Look(p)
  <2>1. PICK v \in 0 .. 4 : v = SchemaVersion
      BY DEF SchemaVersion, LedgerInv, TypeOK
  <2>2. /\ UNCHANGED database
        /\ \A q \in Processes \ {p} : UNCHANGED <<pc[q], seen[q], todo[q]>>
        /\ seen'[p] = v /\ todo'[p] = Statements(v) /\ pc'[p] \in {"backup", "run"}
      BY <1>0, <1>3, <2>1 DEF Look
  <2>3. Underway(p)'
    <3>1. Statements(v) \in Seq(Names)
        BY ScriptTypes
    <3>2. Len(Statements(v)) \in Nat /\ DOMAIN Statements(v) = 1 .. Len(Statements(v))
        BY <3>1, LenProperties
    <3>3. Position(p)' = 0
        BY <2>2, <3>2 DEF Position
    <3>4. OnScript(p)'
      <4>1. \A i \in DOMAIN Statements(v) : 0 + i = i
          BY <3>2
      <4> QED
          BY <2>2, <3>1, <3>3, <4>1 DEF OnScript
    <3>5. Done(p)' = {}
        BY <3>3 DEF Done
    <3>6. origin = 1 /\ v # 1 => "old" \notin metas
        BY <1>0, <2>1 DEF SchemaVersion, Shown
    <3> QED
        BY <2>2, <3>4, <3>5, <3>6 DEF Underway, database
  <2> QED
      BY <1>1, <2>2, <2>3
<1>4. CASE SkipBackup(p) \/ CreateBackup(p) \/ CopyBackup(p)
  <2>1. /\ UNCHANGED <<database, seen, todo>>
        /\ pc[p] \in {"backup", "copy"} /\ pc'[p] \in {"copy", "run"}
        /\ \A q \in Processes \ {p} : pc'[q] = pc[q]
      BY <1>0, <1>4 DEF SkipBackup, CreateBackup, CopyBackup
  <2>2. Underway(p)'
      BY <1>0, <2>1, UnderwayKept DEF database
  <2> QED
      BY <1>1, <2>1, <2>2
<1>5. CASE RunStatement(p)
  <2>1. CASE ~Accepts(Head(todo[p]))
    <3>1. /\ UNCHANGED <<database, seen, todo>> /\ pc'[p] = "refused"
          /\ \A q \in Processes \ {p} : pc'[q] = pc[q]
        BY <1>0, <1>5, <2>1 DEF RunStatement
    <3> QED
        BY <1>1, <3>1
  <2>2. CASE Accepts(Head(todo[p]))
    <3>1. PICK s : s = Head(todo[p])
        OBVIOUS
    <3>2. /\ pc[p] = "run" /\ todo[p] # <<>> /\ Accepts(s) /\ Execute(s)
          /\ todo' = [todo EXCEPT ![p] = Tail(todo[p])]
          /\ UNCHANGED <<pc, seen, origin>>
        BY <1>5, <2>2, <3>1 DEF RunStatement, Execute
    <3>3. /\ Shown'
          /\ applied \subseteq applied' /\ (tables => tables')
          /\ "old" \in metas' => "old" \in metas
          /\ s \in Changes => s \in applied'
          /\ s = "rename" => "old" \notin metas'
          /\ s = "tables" => tables'
        BY <3>1, <3>2, StatementShows
    <3>4. todo'[p] = Tail(todo[p]) /\ \A q \in Processes \ {p} : todo'[q] = todo[q]
        BY <1>0, <3>2
    <3>5. Underway(p) /\ OnScript(p) /\ seen[p] \in 0 .. 4
        BY <1>0, <3>2 DEF Underway
    <3>6. OnScript(p)' /\ Done(p)' = Done(p) \cup {s}
        BY <3>1, <3>2, <3>4, <3>5, NextStatement
    <3>7. Underway(p)'
        BY <3>2, <3>3, <3>5, <3>6 DEF Underway
    <3>8. ASSUME NEW q \in Processes \ {p}, pc'[q] \in {"backup", "copy", "run"}
          PROVE  Underway(q)'
        BY <1>0, <3>2, <3>3, <3>4, <3>8, UnderwayKept
    <3>9. ReadyMeansMigrated'
        BY <1>0, <3>2, <3>3 DEF ReadyMeansMigrated
    <3> QED
        BY <3>3, <3>7, <3>8, <3>9 DEF MigrationInv
  <2> QED
      BY <2>1, <2>2
<1>6. CASE CheckVersion(p)
  <2>1. /\ UNCHANGED <<database, seen, todo>> /\ pc[p] = "run" /\ todo[p] = <<>>
        /\ pc'[p] = IF version = 3 THEN "ready" ELSE "refused"
        /\ \A q \in Processes \ {p} : pc'[q] = pc[q]
      BY <1>0, <1>6 DEF CheckVersion
  <2>2. PICK v \in 0 .. 4 : v = seen[p]
      BY <1>0
  <2>3. Underway(p) /\ OnScript(p)
      BY <1>0, <2>1 DEF Underway
  <2>4. \A i \in DOMAIN Statements(v) : Statements(v)[i] \in Done(p)
    <3>1. Statements(v) \in Seq(Names)
        BY ScriptTypes
    <3>2. Len(Statements(v)) \in Nat /\ DOMAIN Statements(v) = 1 .. Len(Statements(v))
        BY <3>1, LenProperties
    <3>3. Position(p) = Len(Statements(v))
        BY <2>1, <2>2, <3>2 DEF Position
    <3> QED
        BY <2>2, <3>2, <3>3 DEF Done
  <2>5. "unique" \in Done(p) /\ "tables" \in Done(p) /\ (v = 1 => "rename" \in Done(p))
      BY <2>4, Scripts
  <2>6. "unique" \in applied /\ tables /\ (origin = 1 => "old" \notin metas)
      BY <2>2, <2>3, <2>5 DEF Underway, Changes
  <2>7. version = 3 => ChangesOfTwo \subseteq applied /\ (origin # 1 => "usage" \in applied)
      BY <1>0, <2>6 DEF Shown
  <2>8. ReadyMeansMigrated'
      BY <1>0, <2>1, <2>7 DEF ReadyMeansMigrated, database
  <2>9. Shown'
      BY <1>0, <2>1 DEF Shown, database
  <2>10. ASSUME NEW q \in Processes, pc'[q] \in {"backup", "copy", "run"}
         PROVE  Underway(q)'
    <3>1. q # p
        BY <2>1, <2>10
    <3> QED
        BY <1>0, <2>1, <2>10, <3>1, UnderwayKept DEF database
  <2> QED
      BY <2>8, <2>9, <2>10 DEF MigrationInv
<1> QED
    BY <1>2, <1>3, <1>4, <1>5, <1>6 DEF Initialize

-----------------------------------------------------------------------------
(* Proofs about the bundle. *)

\* A sequence that is not empty: its head, and the members of its tail.
LEMMA HeadAndTail ==
    ASSUME NEW S, NEW q \in Seq(S), q # <<>>
    PROVE  /\ Head(q) \in S /\ Tail(q) \in Seq(S)
           /\ Members(q) \subseteq Members(Tail(q)) \cup {Head(q)}
<1>1. Head(q) \in S /\ Tail(q) \in Seq(S) /\ Head(q) = q[1]
    OBVIOUS
<1>2. Len(q) \in Nat \ {0} /\ DOMAIN q = 1 .. Len(q)
    OBVIOUS
<1>3. Len(Tail(q)) = Len(q) - 1 /\ DOMAIN Tail(q) = 1 .. Len(q) - 1
    OBVIOUS
<1>4. ASSUME NEW i \in 1 .. Len(q), i # 1
      PROVE  i - 1 \in DOMAIN Tail(q) /\ Tail(q)[i - 1] = q[i]
  <2>1. \A j \in 1 .. Len(Tail(q)) : Tail(q)[j] = q[j + 1]
      BY HeadTailProperties
  <2>2. i - 1 \in 1 .. Len(Tail(q)) /\ (i - 1) + 1 = i
      BY <1>2, <1>3, <1>4
  <2> QED
      BY <1>3, <2>1, <2>2
<1>5. ASSUME NEW i \in DOMAIN q
      PROVE  q[i] \in Members(Tail(q)) \cup {Head(q)}
  <2>1. CASE i = 1
      BY <1>1, <2>1
  <2>2. CASE i # 1
      BY <1>2, <1>4, <1>5, <2>2 DEF Members
  <2> QED
      BY <2>1, <2>2
<1> QED
    BY <1>1, <1>5 DEF Members

\* The files to visit are the files that are compiled.
LEMMA AllFiles == Files \in Seq(Generated) /\ Files # <<>> /\ Members(Files) = Generated
BY SetupAssumption DEF Generated, Members

\* A step of one process: what it says of that process is all there is to show, where
\* it leaves each file accounted for.
LEMMA OneProcess ==
    ASSUME BundleInv, BundleTypes', NEW p \in Processes,
           \A q \in Processes \ {p} :
                work'[q] = work[q] /\ left'[q] = left[q] /\ exit'[q] = exit[q],
           \A f \in Generated : Accounted(f) => Accounted(f)',
           \A f \in Generated :
                file[f] \in {"torn", "generated"} => file'[f] \in {"torn", "generated"},
           legacy' => legacy,
           Visited(p)'
    PROVE  BundleInv'
<1> SUFFICES ASSUME NEW q \in Processes \ {p}
             PROVE  Visited(q)'
    BY DEF BundleInv
<1>1. Visited(q) /\ Unvisited(q)' = Unvisited(q)
    BY DEF BundleInv, Unvisited
<1>2. work[q] \in {"write"} => Head(left[q]) \in Generated
    BY <1>1, HeadAndTail DEF Visited, BundleInv, BundleTypes
<1> QED
    BY <1>1, <1>2 DEF Visited

\* Who neither writes nor begins to write changes no file.
LEMMA NotWriting ==
    ASSUME BundleInv, NEW p \in Processes,
           \A q \in Processes \ {p} : work'[q] = work[q] /\ left'[q] = left[q],
           work[p] # "write", UNCHANGED <<file, cut>>
    PROVE  \A f \in Generated : Accounted(f) => Accounted(f)'
BY DEF Accounted, Differs, Working

LEMMA BundleInit == SetupInit => BundleInv
<1> SUFFICES ASSUME SetupInit PROVE BundleInv
    OBVIOUS
<1>1. PICK found \in Found :
        /\ file = [f \in Generated |-> found]
        /\ cut = IF found = "torn" THEN Generated ELSE {}
        /\ legacy = (found = "stale")
    BY DEF SetupInit
<1>2. /\ file \in [Generated -> {"none", "stale", "torn", "generated"}]
      /\ cut \subseteq {f \in Generated : file[f] = "torn"}
    BY <1>1, SetupAssumption
<1>3. legacy \in BOOLEAN
    BY <1>1
<1>4. /\ work = [p \in Processes |-> "none"]
      /\ left = [p \in Processes |-> <<>>]
      /\ exit = [p \in Processes |-> "none"]
    BY DEF SetupInit
<1>5. /\ work \in [Processes -> {"none", "compare", "open", "write", "unlink", "check",
                                "validate"}]
      /\ exit \in [Processes -> {"none", "zero", "drift", "error", "killed"}]
    BY <1>4
<1>6. left \in [Processes -> Seq(Generated)]
    BY <1>4, EmptySeq
<1>7. \A p \in Processes : Visited(p)
    BY <1>4 DEF Visited
<1> QED
    BY <1>2, <1>3, <1>5, <1>6, <1>7 DEF BundleInv, BundleTypes

\* A process visits the next file, having found this one compiled.
LEMMA GoesOn ==
    ASSUME BundleInv, NEW p \in Processes, left[p] # <<>>, ~Differs(Head(left[p])),
           work[p] \in {"compare", "check"},
           left' = [left EXCEPT ![p] = Tail(left[p])],
           UNCHANGED <<bundle, work, exit>>
    PROVE  BundleInv'
<1>1. /\ Head(left[p]) \in Generated /\ Tail(left[p]) \in Seq(Generated)
      /\ Unvisited(p) \subseteq Members(Tail(left[p])) \cup {Head(left[p])}
    BY HeadAndTail DEF BundleInv, BundleTypes, Unvisited
<1>2. BundleTypes'
    BY <1>1 DEF BundleInv, BundleTypes, bundle
<1>3. \A q \in Processes \ {p} : work'[q] = work[q] /\ left'[q] = left[q] /\ exit'[q] = exit[q]
    BY DEF BundleInv, BundleTypes
<1>4. \A f \in Generated : Accounted(f) => Accounted(f)'
    BY <1>3, NotWriting DEF bundle
<1>5. Unvisited(p)' = Members(Tail(left[p]))
    BY DEF Unvisited, BundleInv, BundleTypes
<1>6. Visited(p)'
  <2>1. Visited(p) /\ work'[p] = work[p] /\ exit'[p] = exit[p] /\ legacy' = legacy
      BY DEF BundleInv, bundle
  <2>2. \A f \in Generated \ Unvisited(p) : Accounted(f)
      BY <2>1 DEF Visited
  <2>3. Accounted(Head(left[p]))
      BY DEF Accounted
  <2>4. \A f \in Generated \ Unvisited(p)' : Accounted(f)'
      BY <1>1, <1>4, <1>5, <2>2, <2>3
  <2> QED
      BY <1>4, <2>1, <2>4 DEF Visited
<1> QED
    BY <1>2, <1>3, <1>4, <1>6, OneProcess DEF bundle

\* A process that wrote no file goes to another step, or leaves with an exit code.
LEMMA Goes ==
    ASSUME BundleInv, NEW p \in Processes,
           work[p] # "write", UNCHANGED <<file, cut>>,
           legacy' \in BOOLEAN, legacy' => legacy,
           work' = [work EXCEPT ![p] = work'[p]],
           work'[p] \in {"none", "compare", "open", "unlink", "check", "validate"},
           left' = [left EXCEPT ![p] = left'[p]], left'[p] \in Seq(Generated),
           exit' = [exit EXCEPT ![p] = exit'[p]],
           exit'[p] \in {"none", "zero", "drift", "error", "killed"},
           work'[p] \in {"open", "unlink", "validate"} => left'[p] # <<>>,
           work'[p] \in {"compare", "open", "check"} =>
                \/ Unvisited(p)' = Generated
                \/ Unvisited(p)' = Unvisited(p) /\ work[p] = "compare",
           work'[p] \in {"unlink", "validate"} \/ exit'[p] = "zero" =>
                \A f \in Generated : Accounted(f),
           work'[p] = "validate" \/ exit'[p] = "zero" => ~legacy'
    PROVE  BundleInv'
<1>1. BundleTypes'
    BY DEF BundleInv, BundleTypes
<1>2. \A q \in Processes \ {p} : work'[q] = work[q] /\ left'[q] = left[q] /\ exit'[q] = exit[q]
    BY DEF BundleInv, BundleTypes
<1>3. \A f \in Generated : Accounted(f) => Accounted(f)'
    BY <1>2, NotWriting
<1>4. work[p] = "compare" => \A f \in Generated \ Unvisited(p) : Accounted(f)
    BY DEF BundleInv, Visited
<1>5. Visited(p)'
    BY <1>3, <1>4 DEF Visited
<1> QED
    BY <1>1, <1>2, <1>3, <1>5, OneProcess

LEMMA WritingStep ==
    ASSUME BundleInv, NEW p \in Processes, Open(p) \/ Write(p)
    PROVE  BundleInv'
<1>0. PICK f : f = Head(left[p])
    OBVIOUS
<1>1. Visited(p) /\ left[p] # <<>> /\ work[p] \in {"open", "write"}
    BY DEF Open, Write, Working, BundleInv, Visited
<1>2. /\ f \in Generated /\ Tail(left[p]) \in Seq(Generated)
      /\ Unvisited(p) \subseteq Members(Tail(left[p])) \cup {f}
    BY <1>0, <1>1, HeadAndTail DEF BundleInv, BundleTypes, Unvisited
<1>3. \A g \in Generated \ Unvisited(p) : Accounted(g)
    BY <1>1 DEF Visited
<1>4. CASE Open(p)
  <2>1. /\ file' = [file EXCEPT ![f] = "torn"] /\ work' = [work EXCEPT ![p] = "write"]
        /\ work[p] = "open" /\ UNCHANGED <<legacy, left, cut, exit>>
      BY <1>0, <1>4 DEF Open, Proceed, Working
  <2>2. BundleTypes'
      BY <1>2, <2>1 DEF BundleInv, BundleTypes
  <2>3. /\ \A q \in Processes \ {p} : work'[q] = work[q]
        /\ work'[p] = "write" /\ f = Head(left'[p])
      BY <1>0, <2>1 DEF BundleInv, BundleTypes
  <2>4. \A g \in Generated \ {f} : file'[g] = file[g]
      BY <2>1 DEF BundleInv, BundleTypes
  <2>5. file'[f] = "torn"
      BY <1>2, <2>1 DEF BundleInv, BundleTypes
  <2>6. Accounted(f)'
      BY <2>3 DEF Accounted, Working
  <2>7. ASSUME NEW g \in Generated, Accounted(g), g # f
        PROVE  Accounted(g)'
    <3>1. CASE ~Differs(g) \/ g \in cut
        BY <2>1, <2>4, <2>7, <3>1 DEF Accounted, Differs
    <3>2. ASSUME NEW q \in Processes, Working(q, "write"), Head(left[q]) = g
          PROVE  Accounted(g)'
        BY <2>1, <2>3, <3>2 DEF Accounted, Working
    <3> QED
        BY <2>7, <3>1, <3>2 DEF Accounted
  <2>8. Visited(p)'
    <3>1. Unvisited(p)' = Unvisited(p)
        BY <2>1 DEF Unvisited
    <3>2. \A g \in Generated \ Unvisited(p)' : Accounted(g)'
        BY <1>3, <2>6, <2>7, <3>1
    <3>3. left'[p] # <<>> /\ file'[Head(left'[p])] = "torn"
        BY <1>1, <2>1, <2>3, <2>5
    <3>4. exit'[p] = "zero" => /\ \A g \in Generated : Accounted(g)'
                               /\ ~legacy'
        BY <1>1, <2>1, <2>6, <2>7 DEF Visited
    <3> QED
        BY <2>3, <3>2, <3>3, <3>4 DEF Visited
  <2> QED
      BY <2>1, <2>2, <2>3, <2>4, <2>5, <2>6, <2>7, <2>8, OneProcess
<1>5. CASE Write(p)
  <2>1. /\ file' = [file EXCEPT ![f] = "generated"] /\ cut' = cut \ {f}
        /\ work' = [work EXCEPT ![p] = "compare"] /\ work[p] = "write"
        /\ left' = [left EXCEPT ![p] = Tail(left[p])]
        /\ UNCHANGED <<legacy, exit>>
      BY <1>0, <1>5 DEF Write, Visit, Proceed, Working
  <2>2. file' \in [Generated -> {"none", "stale", "torn", "generated"}]
      BY <2>1 DEF BundleInv, BundleTypes
  <2>3. /\ \A q \in Processes \ {p} : work'[q] = work[q] /\ left'[q] = left[q]
        /\ work'[p] = "compare" /\ left'[p] = Tail(left[p])
      BY <2>1 DEF BundleInv, BundleTypes
  <2>4. \A g \in Generated \ {f} : file'[g] = file[g]
      BY <2>1 DEF BundleInv, BundleTypes
  <2>5. file'[f] = "generated"
      BY <1>2, <2>1 DEF BundleInv, BundleTypes
  <2>6. Accounted(f)'
      BY <2>5 DEF Accounted, Differs
  <2>7. ASSUME NEW g \in Generated, Accounted(g), g # f
        PROVE  Accounted(g)'
    <3>1. CASE ~Differs(g) \/ g \in cut
        BY <2>1, <2>4, <2>7, <3>1 DEF Accounted, Differs
    <3>2. ASSUME NEW q \in Processes, Working(q, "write"), Head(left[q]) = g
          PROVE  Accounted(g)'
        BY <1>0, <2>3, <2>7, <3>2 DEF Accounted, Working
    <3> QED
        BY <2>7, <3>1, <3>2 DEF Accounted
  <2>8. BundleTypes'
    <3>1. cut' \subseteq {g \in Generated : file'[g] = "torn"}
        BY <2>1, <2>4 DEF BundleInv, BundleTypes
    <3>2. left' \in [Processes -> Seq(Generated)]
        BY <1>2, <2>1 DEF BundleInv, BundleTypes
    <3> QED
        BY <2>1, <2>2, <3>1, <3>2 DEF BundleInv, BundleTypes
  <2>9. Visited(p)'
    <3>1. Unvisited(p)' = Members(Tail(left[p]))
        BY <2>3 DEF Unvisited
    <3>2. \A g \in Generated \ Unvisited(p)' : Accounted(g)'
        BY <1>2, <1>3, <2>6, <2>7, <3>1
    <3>3. exit'[p] = "zero" => /\ \A g \in Generated : Accounted(g)'
                               /\ ~legacy'
        BY <1>1, <2>1, <2>6, <2>7 DEF Visited
    <3> QED
        BY <2>3, <3>2, <3>3 DEF Visited
  <2> QED
      BY <2>1, <2>3, <2>4, <2>5, <2>6, <2>7, <2>8, <2>9, OneProcess
<1> QED
    BY <1>4, <1>5

LEMMA KillStep ==
    ASSUME BundleInv, NEW p \in Processes, Kill(p)
    PROVE  BundleInv'
<1>1. /\ work' = [work EXCEPT ![p] = "none"] /\ exit' = [exit EXCEPT ![p] = "killed"]
      /\ UNCHANGED <<file, legacy, left>>
    BY DEF Kill, Leave
<1>2. /\ \A q \in Processes \ {p} : work'[q] = work[q] /\ exit'[q] = exit[q]
      /\ work'[p] = "none" /\ exit'[p] = "killed"
    BY <1>1 DEF BundleInv, BundleTypes
<1>3. Visited(p)'
    BY <1>2 DEF Visited
<1>4. CASE work[p] # "write"
  <2>1. cut' = cut
      BY <1>4 DEF Kill, Working
  <2>2. BundleTypes'
      BY <1>1, <2>1 DEF BundleInv, BundleTypes
  <2> QED
      BY <1>1, <1>2, <1>3, <1>4, <2>1, <2>2, NotWriting, OneProcess
<1>5. CASE work[p] = "write"
  <2>0. PICK f : f = Head(left[p])
      OBVIOUS
  <2>1. left[p] # <<>> /\ file[f] \in {"torn", "generated"}
      BY <1>5, <2>0 DEF BundleInv, Visited
  <2>2. f \in Generated
      BY <2>0, <2>1, HeadAndTail DEF BundleInv, BundleTypes
  <2>3. cut' = IF file[f] = "torn" THEN cut \cup {f} ELSE cut
      BY <1>5, <2>0 DEF Kill, Working
  <2>4. BundleTypes'
      BY <1>1, <2>2, <2>3 DEF BundleInv, BundleTypes
  <2>5. Accounted(f)'
      BY <1>1, <2>1, <2>3 DEF Accounted, Differs
  <2>6. ASSUME NEW g \in Generated, Accounted(g), g # f
        PROVE  Accounted(g)'
    <3>1. CASE ~Differs(g) \/ g \in cut
        BY <1>1, <2>3, <3>1 DEF Accounted, Differs
    <3>2. ASSUME NEW q \in Processes, Working(q, "write"), Head(left[q]) = g
          PROVE  Accounted(g)'
        BY <1>1, <1>2, <2>0, <2>6, <3>2 DEF Accounted, Working
    <3> QED
        BY <2>6, <3>1, <3>2 DEF Accounted
  <2> QED
      BY <1>1, <1>2, <1>3, <2>4, <2>5, <2>6, OneProcess
<1> QED
    BY <1>4, <1>5

LEMMA SetupStutters == BundleInv /\ UNCHANGED setup => BundleInv'
<1> SUFFICES ASSUME BundleInv, UNCHANGED setup PROVE BundleInv'
    OBVIOUS
<1>1. BundleTypes'
    BY DEF BundleInv, BundleTypes, setup, bundle
<1>2. ASSUME NEW p \in Processes PROVE Visited(p)'
    BY DEF BundleInv, Visited, Unvisited, Accounted, Differs, Working, setup, bundle
<1> QED
    BY <1>1, <1>2 DEF BundleInv

\* Each step of sync_specs and of check_specs.
LEMMA CompileStep ==
    ASSUME BundleInv, NEW p \in Processes, Compile(p)
    PROVE  BundleInv'
<1> USE DEF Working, Leave, Proceed, Visit, bundle
<1>1. CASE BeginSync(p)
  <2>1. /\ work[p] = "none" /\ work' = [work EXCEPT ![p] = "compare"]
        /\ left' = [left EXCEPT ![p] = Files] /\ exit[p] = "none"
        /\ UNCHANGED <<file, legacy, cut, exit>>
      BY <1>1 DEF BeginSync
  <2>2. work'[p] = "compare" /\ left'[p] = Files /\ exit'[p] = "none"
        /\ exit' = [exit EXCEPT ![p] = exit'[p]] /\ legacy \in BOOLEAN
      BY <2>1 DEF BundleInv, BundleTypes
  <2>3. Unvisited(p)' = Generated
      BY <2>2, AllFiles DEF Unvisited
  <2> QED
      BY <2>1, <2>2, <2>3, AllFiles, Goes
<1>2. CASE Compare(p)
  <2>1. CASE Differs(Head(left[p]))
    <3>1. /\ work[p] = "compare" /\ work' = [work EXCEPT ![p] = "open"]
          /\ left[p] # <<>> /\ UNCHANGED <<file, legacy, cut, exit, left>>
        BY <1>2, <2>1 DEF Compare
    <3>2. /\ work'[p] = "open" /\ left'[p] = left[p] /\ exit'[p] = exit[p]
          /\ exit' = [exit EXCEPT ![p] = exit'[p]]
          /\ left' = [left EXCEPT ![p] = left'[p]]
          /\ left[p] \in Seq(Generated) /\ legacy \in BOOLEAN
          /\ exit[p] \in {"none", "zero", "drift", "error", "killed"}
        BY <3>1 DEF BundleInv, BundleTypes
    <3>3. Unvisited(p)' = Unvisited(p)
        BY <3>2 DEF Unvisited
    <3>4. exit[p] = "zero" => /\ \A f \in Generated : Accounted(f)
                              /\ ~legacy
        BY DEF BundleInv, Visited
    <3> QED
        BY <3>1, <3>2, <3>3, <3>4, Goes
  <2>2. CASE ~Differs(Head(left[p]))
      BY <1>2, <2>2, GoesOn DEF Compare
  <2> QED
      BY <2>1, <2>2
<1>3. CASE Open(p) \/ Write(p)
    BY <1>3, WritingStep
<1>4. CASE FindLegacy(p)
  <2>1. /\ work[p] = "compare" /\ left[p] = <<>>
        /\ work' = [work EXCEPT ![p] = IF legacy THEN "unlink" ELSE "validate"]
        /\ left' = [left EXCEPT ![p] = Files]
        /\ UNCHANGED <<file, legacy, cut, exit>>
      BY <1>4 DEF FindLegacy
  <2>2. /\ work'[p] = IF legacy THEN "unlink" ELSE "validate"
        /\ left'[p] = Files /\ exit'[p] = exit[p]
        /\ work' = [work EXCEPT ![p] = work'[p]]
        /\ exit' = [exit EXCEPT ![p] = exit'[p]] /\ legacy \in BOOLEAN
        /\ exit[p] \in {"none", "zero", "drift", "error", "killed"}
      BY <2>1 DEF BundleInv, BundleTypes
  <2>3. /\ \A f \in Generated : Accounted(f)
        /\ exit[p] = "zero" => ~legacy
    <3>1. Unvisited(p) = {}
        BY <2>1 DEF Unvisited, Members
    <3> QED
        BY <2>1, <3>1 DEF BundleInv, Visited
  <2>4. /\ work[p] # "write" /\ UNCHANGED <<file, cut, legacy>>
        /\ legacy \in BOOLEAN /\ left' = [left EXCEPT ![p] = left'[p]]
        /\ left'[p] = Files /\ exit'[p] = exit[p]
        /\ work' = [work EXCEPT ![p] = work'[p]] /\ exit' = [exit EXCEPT ![p] = exit'[p]]
        /\ exit[p] \in {"none", "zero", "drift", "error", "killed"}
      BY <2>1, <2>2
  <2>5. CASE legacy
    <3>1. work'[p] = "unlink"
        BY <2>2, <2>5
    <3> QED
        BY <2>3, <2>4, <2>5, <3>1, AllFiles, Goes
  <2>6. CASE ~legacy
    <3>1. work'[p] = "validate"
        BY <2>2, <2>6
    <3> QED
        BY <2>3, <2>4, <2>6, <3>1, AllFiles, Goes
  <2> QED
      BY <2>5, <2>6
<1>5. CASE Unlink(p)
  <2>1. /\ \A f \in Generated : Accounted(f)
        /\ left[p] # <<>> /\ left[p] \in Seq(Generated)
        /\ exit[p] \in {"none", "zero", "drift", "error", "killed"}
        /\ work[p] = "unlink"
      BY <1>5 DEF Unlink, BundleInv, BundleTypes, Visited
  <2>2. /\ legacy' = FALSE /\ UNCHANGED <<file, left, cut>>
        /\ left' = [left EXCEPT ![p] = left'[p]] /\ left'[p] = left[p]
      BY <1>5 DEF Unlink, BundleInv, BundleTypes
  <2>3. CASE legacy
    <3>1. work' = [work EXCEPT ![p] = "validate"] /\ UNCHANGED exit
        BY <1>5, <2>3 DEF Unlink
    <3>2. /\ work'[p] = "validate" /\ exit'[p] = exit[p]
          /\ exit' = [exit EXCEPT ![p] = exit'[p]]
        BY <3>1 DEF BundleInv, BundleTypes
    <3> QED
        BY <2>1, <2>2, <2>3, <3>1, <3>2, Goes
  <2>4. CASE ~legacy
    <3>1. /\ work' = [work EXCEPT ![p] = "none"]
          /\ exit' = [exit EXCEPT ![p] = "error"]
        BY <1>5, <2>4 DEF Unlink
    <3>2. work'[p] = "none" /\ exit'[p] = "error"
        BY <3>1 DEF BundleInv, BundleTypes
    <3> QED
        BY <2>1, <2>2, <3>1, <3>2, Goes
  <2> QED
      BY <2>3, <2>4
<1>6. CASE BeginCheck(p)
  <2>1. /\ work[p] = "none" /\ work' = [work EXCEPT ![p] = "check"]
        /\ left' = [left EXCEPT ![p] = Files]
        /\ UNCHANGED <<file, legacy, cut, exit>>
      BY <1>6 DEF BeginCheck
  <2>2. /\ work'[p] = "check" /\ left'[p] = Files /\ exit'[p] = exit[p]
        /\ exit' = [exit EXCEPT ![p] = exit'[p]] /\ legacy \in BOOLEAN
        /\ exit[p] \in {"none", "zero", "drift", "error", "killed"}
      BY <2>1 DEF BundleInv, BundleTypes
  <2>3. exit[p] = "zero" => /\ \A f \in Generated : Accounted(f)
                            /\ ~legacy
      BY DEF BundleInv, Visited
  <2>4. Unvisited(p)' = Generated
      BY <2>2, AllFiles DEF Unvisited
  <2> QED
      BY <2>1, <2>2, <2>3, <2>4, AllFiles, Goes
<1>7. CASE CheckFile(p)
  <2>1. CASE Differs(Head(left[p]))
    <3>1. /\ work[p] = "check" /\ work' = [work EXCEPT ![p] = "none"]
          /\ exit' = [exit EXCEPT ![p] = "drift"]
          /\ UNCHANGED <<file, legacy, cut, left>>
        BY <1>7, <2>1 DEF CheckFile
    <3>2. /\ work'[p] = "none" /\ exit'[p] = "drift" /\ left'[p] = left[p]
          /\ left' = [left EXCEPT ![p] = left'[p]]
          /\ left[p] \in Seq(Generated) /\ legacy \in BOOLEAN
        BY <3>1 DEF BundleInv, BundleTypes
    <3> QED
        BY <3>1, <3>2, Goes
  <2>2. CASE ~Differs(Head(left[p]))
      BY <1>7, <2>2, GoesOn DEF CheckFile
  <2> QED
      BY <2>1, <2>2
<1>8. CASE CheckLegacy(p)
  <2>1. /\ work[p] = "check" /\ left[p] = <<>>
        /\ left' = [left EXCEPT ![p] = Files]
        /\ UNCHANGED <<file, legacy, cut>>
      BY <1>8 DEF CheckLegacy
  <2>2. left'[p] = Files /\ left' = [left EXCEPT ![p] = left'[p]] /\ legacy \in BOOLEAN
        /\ exit[p] \in {"none", "zero", "drift", "error", "killed"}
      BY <2>1 DEF BundleInv, BundleTypes
  <2>3. \A f \in Generated : Accounted(f)
    <3>1. Unvisited(p) = {}
        BY <2>1 DEF Unvisited, Members
    <3> QED
        BY <2>1, <3>1 DEF BundleInv, Visited
  <2>4. CASE legacy
    <3>1. /\ work' = [work EXCEPT ![p] = "none"]
          /\ exit' = [exit EXCEPT ![p] = "drift"]
        BY <1>8, <2>4 DEF CheckLegacy
    <3>2. work'[p] = "none" /\ exit'[p] = "drift"
        BY <3>1 DEF BundleInv, BundleTypes
    <3> QED
        BY <2>1, <2>2, <3>1, <3>2, AllFiles, Goes
  <2>5. CASE ~legacy
    <3>1. work' = [work EXCEPT ![p] = "validate"] /\ UNCHANGED exit
        BY <1>8, <2>5 DEF CheckLegacy
    <3>2. /\ work'[p] = "validate" /\ exit'[p] = exit[p]
          /\ exit' = [exit EXCEPT ![p] = exit'[p]]
        BY <3>1 DEF BundleInv, BundleTypes
    <3> QED
        BY <2>1, <2>2, <2>3, <2>5, <3>1, <3>2, AllFiles, Goes
  <2> QED
      BY <2>4, <2>5
<1>9. CASE Validate(p)
  <2>1. /\ work[p] = "validate" /\ UNCHANGED <<file, legacy, cut>>
        /\ legacy \in BOOLEAN
        /\ exit[p] \in {"none", "zero", "drift", "error", "killed"}
      BY <1>9 DEF Validate, BundleInv, BundleTypes
  <2>2. /\ left[p] # <<>> /\ left[p] \in Seq(Generated) /\ ~legacy
        /\ \A f \in Generated : Accounted(f)
      BY <2>1 DEF BundleInv, BundleTypes, Visited
  <2>3. Tail(left[p]) \in Seq(Generated)
      BY <2>2, HeadAndTail
  <2>4. CASE left' = [left EXCEPT ![p] = Tail(left[p])] /\ Tail(left[p]) = <<>>
             /\ Leave(p, "zero")
    <3>1. /\ work' = [work EXCEPT ![p] = "none"] /\ exit' = [exit EXCEPT ![p] = "zero"]
          /\ work'[p] = "none" /\ exit'[p] = "zero" /\ left'[p] = Tail(left[p])
        BY <2>4 DEF BundleInv, BundleTypes
    <3> QED
        BY <2>1, <2>2, <2>3, <2>4, <3>1, Goes
  <2>5. CASE left' = [left EXCEPT ![p] = Tail(left[p])] /\ Tail(left[p]) # <<>>
             /\ UNCHANGED <<work, exit>>
    <3>1. /\ work' = [work EXCEPT ![p] = work'[p]] /\ exit' = [exit EXCEPT ![p] = exit'[p]]
          /\ work'[p] = "validate" /\ exit'[p] = exit[p] /\ left'[p] = Tail(left[p])
        BY <2>1, <2>5 DEF BundleInv, BundleTypes
    <3> QED
        BY <2>1, <2>2, <2>3, <2>5, <3>1, Goes
  <2>6. CASE Leave(p, "error") /\ UNCHANGED left
    <3>1. /\ work' = [work EXCEPT ![p] = "none"] /\ exit' = [exit EXCEPT ![p] = "error"]
          /\ work'[p] = "none" /\ exit'[p] = "error" /\ left'[p] = left[p]
          /\ left' = [left EXCEPT ![p] = left'[p]]
        BY <2>6 DEF BundleInv, BundleTypes
    <3> QED
        BY <2>1, <2>2, <3>1, Goes
  <2> QED
      BY <1>9, <2>4, <2>5, <2>6 DEF Validate
<1> QED
    BY <1>1, <1>2, <1>3, <1>4, <1>5, <1>6, <1>7, <1>8, <1>9 DEF Compile

LEMMA ReopenStep ==
    ASSUME BundleInv, NEW p \in Processes, Reopen(p)
    PROVE  BundleInv'
<1>1. /\ work[p] = "none" /\ UNCHANGED <<file, legacy, cut, work, left>>
      /\ exit' = [exit EXCEPT ![p] = "none"]
    BY DEF Reopen, Working, bundle
<1>2. /\ work'[p] = "none" /\ exit'[p] = "none" /\ left'[p] = left[p]
      /\ left[p] \in Seq(Generated) /\ legacy \in BOOLEAN
      /\ work' = [work EXCEPT ![p] = work'[p]] /\ left' = [left EXCEPT ![p] = left'[p]]
    BY <1>1 DEF BundleInv, BundleTypes
<1> QED
    BY <1>1, <1>2, Goes

-----------------------------------------------------------------------------
(* The theorems. *)

SetupInv == LedgerInv /\ BundleInv

LEMMA SetupStep ==
    ASSUME SetupInv, [SetupNext]_<<vars, setup>>
    PROVE  SetupInv' /\ [NoDowngrade /\ BackupBegins]_vars
<1> USE DEF SetupInv
<1>1. UNCHANGED vars => LedgerInv'
    BY DEF LedgerInv, TypeOK, NewerIsRefused, Untouched, Pristine, vars, database
<1>2. ASSUME NEW p \in Processes, Initialize(p) \/ Again(p) \/ Refuse(p) \/ Crash(p)
      PROVE  LedgerInv' /\ [NoDowngrade /\ BackupBegins]_vars
    BY <1>2, LedgerStep
<1>3. CASE UNCHANGED <<vars, setup>>
    BY <1>1, <1>3, SetupStutters
<1>4. ASSUME NEW p \in Processes, OpenLedger(p) \/ ((Refuse(p) \/ Crash(p)) /\ UNCHANGED setup)
      PROVE  SetupInv' /\ [NoDowngrade /\ BackupBegins]_vars
    BY <1>2, <1>4, SetupStutters DEF OpenLedger
<1>5. ASSUME NEW p \in Processes, Reopen(p)
      PROVE  SetupInv' /\ [NoDowngrade /\ BackupBegins]_vars
    BY <1>2, <1>5, ReopenStep DEF Reopen
<1>6. ASSUME NEW p \in Processes, (Compile(p) \/ Kill(p)) /\ UNCHANGED vars
      PROVE  SetupInv' /\ [NoDowngrade /\ BackupBegins]_vars
    BY <1>1, <1>6, CompileStep, KillStep
<1> QED
    BY <1>3, <1>4, <1>5, <1>6 DEF SetupNext, Command

\* The invariant, for any number of processes, any files and any kills.
THEOREM SetupInvariance == SetupSpec => []SetupInv
<1>1. SetupInit => SetupInv
    BY LedgerInit, BundleInit DEF SetupInit, SetupInv
<1>2. SetupInv /\ [SetupNext]_<<vars, setup>> => SetupInv'
    BY SetupStep
<1> QED
    BY <1>1, <1>2, PTL DEF SetupSpec

\* Every variable of the ledger and of the bundle holds a value of its type.
THEOREM SetupTypes == SetupSpec => []SetupTypeOK
<1>1. SetupInv => SetupTypeOK
    BY DEF SetupInv, LedgerInv, BundleInv, BundleTypes, SetupTypeOK
<1> QED
    BY <1>1, SetupInvariance, PTL

\* A ledger is not taken back to an older version, and no migration of one of version 1
\* or 2 begins before its backup does, however many processes initialise at once and
\* whichever of them are killed.
THEOREM ForwardMigration == SetupSpec => ForwardWithBackup
<1>1. SetupInv /\ [SetupNext]_<<vars, setup>> => [NoDowngrade /\ BackupBegins]_vars
    BY SetupStep
<1> QED
    BY <1>1, SetupInvariance, PTL DEF SetupSpec, ForwardWithBackup

\* An exit code of zero means a compiled bundle, but for the files that another process
\* is writing or was killed at.
THEOREM ZeroIsEarned == SetupSpec => []ZeroMeansGenerated
<1>1. SetupInv => ZeroMeansGenerated
    BY DEF SetupInv, BundleInv, Visited, Accounted, ZeroMeansGenerated
<1> QED
    BY <1>1, SetupInvariance, PTL

\* The ledger is used only once it has what its version promises: every statement of a
\* migration was executed, by this process or by another that was killed since, before
\* initialize accepts the version.
THEOREM MigratedWhenReady == SetupSpec => []ReadyMeansMigrated
<1>1. SetupInit => MigrationInv
    BY MigrationInit DEF SetupInit
<1>2. SetupInv /\ MigrationInv /\ [SetupNext]_<<vars, setup>> => MigrationInv'
  <2> SUFFICES ASSUME LedgerInv, MigrationInv, [SetupNext]_<<vars, setup>>
               PROVE  MigrationInv'
      BY DEF SetupInv
  <2>1. ASSUME UNCHANGED vars PROVE MigrationInv'
    <3>1. Shown' /\ ReadyMeansMigrated'
        BY <2>1 DEF MigrationInv, Shown, ReadyMeansMigrated, vars, database
    <3>2. ASSUME NEW q \in Processes, pc'[q] \in {"backup", "copy", "run"}
          PROVE  Underway(q)'
        BY <2>1, <3>2, UnderwayKept DEF MigrationInv, vars, database
    <3> QED
        BY <3>1, <3>2 DEF MigrationInv
  <2>2. ASSUME NEW p \in Processes, Initialize(p) \/ Again(p) \/ Refuse(p) \/ Crash(p)
        PROVE  MigrationInv'
      BY <2>2, MigrationStep
  <2>3. CASE UNCHANGED <<vars, setup>>
      BY <2>1, <2>3
  <2>4. CASE SetupNext
    <3>1. PICK p \in Processes : \/ Command(p)
                                 \/ (Refuse(p) \/ Crash(p)) /\ UNCHANGED setup
                                 \/ Kill(p) /\ UNCHANGED vars
        BY <2>4 DEF SetupNext
    <3>2. UNCHANGED vars \/ Initialize(p) \/ Again(p) \/ Refuse(p) \/ Crash(p)
        BY <3>1 DEF Command, OpenLedger, Reopen
    <3> QED
        BY <2>1, <2>2, <3>2
  <2> QED
      BY <2>3, <2>4
<1>3. MigrationInv => ReadyMeansMigrated
    BY DEF MigrationInv
<1> QED
    BY <1>1, <1>2, <1>3, SetupInvariance, PTL DEF SetupSpec
=============================================================================
