--------------------------- MODULE ReviewGateProofs ---------------------------
(***************************************************************************)
(* What TaskLedger keeps beyond its invariants: a reconciliation leaves no *)
(* task it settles stranded and spares live owners, whoever else writes;   *)
(* and a client that has the ledger to itself implements the abstract gate *)
(* ReviewGate.                                                             *)
(***************************************************************************)
EXTENDS TaskLedgerProofs

-----------------------------------------------------------------------------
(* A reconciliation and the tasks it settles, among any number of clients.  *)

\* A step of Settle stays with its task, or leaves it settled.
LEMMA SettleLeavesNothing ==
    ASSUME TypeOK, NEW c \in Clients, NEW t \in Tasks,
           call[c].op = "settle", call[c].task = t, Settle(c)
    PROVE  \/ call'[c].op = "settle" /\ call'[c].task = t
           \/ ~Stranded(t)'
<1>0. /\ call \in [Clients -> Call] /\ call[c] \in SettleCall
      /\ status \in [Tasks -> TaskStatus \cup {"absent"}]
  BY CallByOp DEF TypeOK
<1>move. ASSUME NEW step \in {"running", "transition"},
                Become(c, [call[c] EXCEPT !.step = step])
         PROVE  call'[c].op = "settle" /\ call'[c].task = t
  BY <1>0, <1>move DEF Become, SettleCall
<1>1. CASE SettleStatus(c)
  <2>1. CASE status[t] = "running"
    BY <1>1, <1>move, <2>1 DEF SettleStatus
  <2>2. CASE status[t] # "running"
    BY <1>1, <2>2 DEF SettleStatus, Stranded, ledger
  <2> QED
    BY <2>1, <2>2
<1>2. CASE SettleRunning(c)
  <2>1. CASE RunningAttempts(t) = {}
    BY <1>2, <1>move, <2>1 DEF SettleRunning
  <2>2. CASE RunningAttempts(t) # {}
    BY <1>2, <2>2 DEF SettleRunning, Stranded, ledger, RunningAttempts, AttemptIds
  <2> QED
    BY <2>1, <2>2
<1>3. CASE SettleTransition(c)
  BY <1>0, <1>3 DEF SettleTransition, MoveTask, Stranded
<1> QED
  BY <1>1, <1>2, <1>3 DEF Settle

\* Whatever other clients do between its reads, a reconciliation never moves on
\* from a task that is shown as running while nothing runs for it.
THEOREM SettlingIsThorough == Spec => SettledTaskIsNotStranded
<1>1. TypeOK /\ [Next]_vars =>
        \A c \in Clients, t \in Tasks :
            /\ call[c].op = "settle" /\ call[c].task = t
            /\ Settle(c)
            => \/ call'[c].op = "settle" /\ call'[c].task = t
               \/ ~Stranded(t)'
  BY SettleLeavesNothing
<1> QED
  BY <1>1, TypeCorrect, PTL DEF Spec, SettledTaskIsNotStranded

-----------------------------------------------------------------------------
(* Live owners, among any number of clients.                                *)

\* Every process a reconciliation has seen is on record as long as its attempt runs.
SnapshotIsCurrent ==
    \A c \in Clients : call[c].op = "reconcile" =>
        \A a \in call[c].pids :
            /\ a \in AttemptIds
            /\ attempts[a].status = "running" => attempts[a].pid = "set"

\* What a reconciliation has seen changes only when another begins.
LEMMA SnapshotSteps ==
    ASSUME TypeOK, [Next]_vars, NEW c \in Clients, call'[c].op = "reconcile"
    PROVE  \/ call[c].op = "reconcile" /\ call'[c].pids = call[c].pids
           \/ \E force \in BOOLEAN : ReconcileBegin(c, force)
<1>0. call \in [Clients -> Call]
  BY DEF TypeOK
<1> SUFFICES ASSUME call'[c] # call[c]
             PROVE  \/ call[c].op = "reconcile" /\ call'[c].pids = call[c].pids
                    \/ \E force \in BOOLEAN : ReconcileBegin(c, force)
  OBVIOUS
<1>1. ASSUME NEW d \in Clients, NEW k, Become(d, k)
      PROVE  d = c /\ k.op = "reconcile" /\ k = call'[c]
  <2>1. d = c
    BY <1>0, <1>1 DEF Become
  <2>2. call'[c] = k
    BY <1>0, <1>1, <2>1 DEF Become
  <2> QED
    BY <2>1, <2>2
<1>2. ~UNCHANGED call
  OBVIOUS
<1>3. ASSUME NEW d \in Clients PROVE ~TaskStep(d) /\ ~AttemptStep(d)
  BY <1>2 DEF TaskStep, CreateTask, TransitionTask, CancelTask, AttemptStep,
     StartAttempt, FinishAttempt, SetAttemptProcess
<1>4. ASSUME NEW d \in Clients PROVE ~ReviewStep(d)
  <2>1. ~InsertReview(d)
    BY <1>1 DEF InsertReview, NoCall
  <2>2. \A t, b, p, v, e : ~BuildReview(d, t, b, p, v, e)
    BY <1>1 DEF BuildReview
  <2> QED
    BY <2>1, <2>2 DEF ReviewStep
<1>5. ASSUME NEW d \in Clients PROVE ~CompleteStep(d)
  <2>1. AtComplete(d, "running") \/ AtComplete(d, "latest") \/ AtComplete(d, "reviews")
            => call[d] \in CompleteCall
    BY <1>0, CallByOp DEF AtComplete
  <2>2. \A t : ~CompleteBegin(d, t)
    BY <1>1 DEF CompleteBegin
  <2>3. call[d] \in CompleteCall =>
            /\ \A step : [call[d] EXCEPT !.step = step].op # "reconcile"
            /\ \A todo : [call[d] EXCEPT !.step = "reviews", !.todo = todo].op # "reconcile"
    BY DEF CompleteCall
  <2>4. ~CompleteNoneRunning(d)
    BY <1>1, <2>1, <2>3 DEF CompleteNoneRunning
  <2>5. ~CompleteLatest(d)
    BY <1>1, <2>1, <2>3 DEF CompleteLatest
  <2>6. \A b : ~CompleteCheck(d, b)
    BY <1>1, <2>1 DEF CompleteCheck, CompleteCall
  <2>7. ~CompleteCommit(d)
    BY <1>1 DEF CompleteCommit, NoCall
  <2> QED
    BY <2>2, <2>4, <2>5, <2>6, <2>7 DEF CompleteStep
<1>6. ASSUME NEW d \in Clients PROVE ~Settle(d) /\ ~Abandon(d)
  <2>1. \A k, rest, affected : k \in Settling(rest, affected) => k.op # "reconcile"
    BY DEF Settling, NoCall
  <2>2. ~SettleNext(d)
    BY <1>1, <2>1 DEF SettleNext
  <2>3. AtSettle(d, "status") \/ AtSettle(d, "running") => call[d] \in SettleCall
    BY <1>0, CallByOp DEF AtSettle
  <2>4. ~Settle(d)
    BY <1>1, <2>2, <2>3 DEF Settle, SettleStatus, SettleRunning, SettleTransition,
       SettleCall
  <2>5. ~Abandon(d)
    BY <1>1 DEF Abandon, NoCall
  <2> QED
    BY <2>4, <2>5
<1>7. ASSUME NEW d \in Clients, NEW b \in AttemptIds,
             ReconcileSkip(d, b) \/ ReconcileFail(d, b)
      PROVE  call[c].op = "reconcile" /\ call'[c].pids = call[c].pids
  <2>1. call[d].op = "reconcile" /\ call[d] \in ReconcileCall
    BY <1>0, <1>7, CallByOp DEF ReconcileSkip, ReconcileFail, AtRow
  <2>2. PICK affected : NextRow(d, b, affected)
    BY <1>7 DEF ReconcileSkip, ReconcileFail
  <2>3. CASE call[d].todo \ {b} = {}
    <3>1. PICK k \in Settling(affected, affected) : Become(d, k)
      BY <2>2, <2>3 DEF NextRow
    <3>2. k.op # "reconcile"
      BY <3>1 DEF Settling, NoCall
    <3> QED
      BY <1>1, <3>1, <3>2
  <2>4. CASE call[d].todo \ {b} # {}
    <3> DEFINE next == [call[d] EXCEPT !.todo = call[d].todo \ {b}, !.affected = affected]
    <3>1. Become(d, next)
      BY <2>2, <2>4 DEF NextRow
    <3>2. next.pids = call[d].pids
      BY <2>1 DEF ReconcileCall
    <3> HIDE DEF next
    <3>3. d = c /\ call'[c] = next
      BY <1>1, <3>1
    <3> QED
      BY <2>1, <3>2, <3>3
  <2> QED
    BY <2>3, <2>4
<1>8. ASSUME NEW d \in Clients, NEW force \in BOOLEAN, ReconcileBegin(d, force)
      PROVE  d = c
  BY <1>1, <1>8 DEF ReconcileBegin
<1>9. ASSUME NEW d \in Clients, ReconcileStep(d)
      PROVE  \/ call[c].op = "reconcile" /\ call'[c].pids = call[c].pids
             \/ \E force \in BOOLEAN : ReconcileBegin(c, force)
  BY <1>6, <1>7, <1>8, <1>9 DEF ReconcileStep
<1> QED
  BY <1>2, <1>3, <1>4, <1>5, <1>6, <1>9 DEF Next, ClientStep, ProcessExits, vars

\* The pid of an attempt is set once, and taken away only when it ends.
LEMMA PidIsKept ==
    ASSUME TypeOK, [Next]_vars, NEW a \in AttemptIds,
           attempts[a].pid = "set", attempts'[a].status = "running"
    PROVE  attempts'[a].pid = "set"
<1>0. attempts \in Seq(Attempt)
  BY DEF TypeOK
<1>1. ASSUME NEW b \in AttemptIds, NEW result \in AttemptStatus, NEW summary \in Summary,
             NEW evidence \in Evidence, FinishRow(b, result, summary, evidence),
             result # "running"
      PROVE  attempts'[a].pid = "set"
  BY <1>0, <1>1, FinishRowEffect
<1>2. ASSUME NEW c \in Clients, AttemptStep(c) PROVE attempts'[a].pid = "set"
  <2>1. ASSUME NEW t \in Tasks, NEW k \in AttemptKind, NEW i \in WorkItems,
               NEW p \in Providers, StartAttempt(c, t, k, i, p)
        PROVE  attempts'[a].pid = "set"
    BY <1>0, <2>1, StartEffect
  <2>2. ASSUME NEW b \in AttemptIds, SetAttemptProcess(c, b)
        PROVE  attempts'[a].pid = "set"
    <3>1. a # b
      BY <2>2 DEF SetAttemptProcess
    <3> QED
      BY <1>0, <2>2, <3>1, SetProcessEffect
  <2>3. ASSUME NEW b \in AttemptIds, NEW result \in AttemptStatus, NEW e \in Evidence,
               FinishAttempt(c, b, result, e)
        PROVE  attempts'[a].pid = "set"
    <3>1. PICK evidence \in Evidence : FinishRow(b, result, "work", evidence)
      BY <2>3 DEF FinishAttempt, Evidence
    <3>2. "work" \in Summary /\ result # "running"
      BY <2>3 DEF Summary, FinishAttempt
    <3> QED
      BY <1>1, <3>1, <3>2
  <2> QED
    BY <1>2, <2>1, <2>2, <2>3 DEF AttemptStep
<1>3. ASSUME NEW c \in Clients, TaskStep(c) \/ ReviewStep(c) \/ CompleteStep(c)
                                \/ Settle(c) \/ Abandon(c)
      PROVE  UNCHANGED attempts
  BY <1>3 DEF TaskStep, CreateTask, TransitionTask, CancelTask, MayCancel, ReviewStep,
     BuildReview, InsertReview, CompleteStep, CompleteBegin, CompleteNoneRunning,
     CompleteLatest, CompleteCheck, CompleteCommit, Settle, SettleStatus,
     SettleRunning, SettleTransition, Abandon, ledger
<1>4. ASSUME NEW c \in Clients, NEW b \in AttemptIds, ReconcileFail(c, b)
      PROVE  attempts'[a].pid = "set"
  <2>1. Reason(call[c].force) \in Summary /\ "failed" \in AttemptStatus /\ "none" \in Evidence
    BY DEF Reason, Summary, AttemptStatus, Evidence
  <2> QED
    BY <1>1, <1>4, <2>1 DEF ReconcileFail
<1>5. ASSUME NEW c \in Clients, ReconcileStep(c) PROVE attempts'[a].pid = "set"
  BY <1>3, <1>4, <1>5 DEF ReconcileStep, ReconcileBegin, ReconcileSkip, ledger
<1> QED
  BY <1>2, <1>3, <1>5 DEF Next, ClientStep, ProcessExits, ledger, vars

LEMMA SnapshotKept ==
    ASSUME TypeOK, SnapshotIsCurrent, [Next]_vars
    PROVE  SnapshotIsCurrent'
<1> SUFFICES ASSUME NEW c \in Clients, call'[c].op = "reconcile", NEW a \in call'[c].pids
             PROVE  /\ a \in AttemptIds'
                    /\ attempts'[a].status = "running" => attempts'[a].pid = "set"
  BY DEF SnapshotIsCurrent
<1>0. AttemptsKept
  BY RowsKept
<1>1. a \in AttemptIds /\ (attempts[a].status = "running" => attempts[a].pid = "set")
  <2>1. CASE call[c].op = "reconcile" /\ call'[c].pids = call[c].pids
    BY <2>1 DEF SnapshotIsCurrent
  <2>2. ASSUME NEW force \in BOOLEAN, ReconcileBegin(c, force)
        PROVE  a \in AttemptIds /\ attempts[a].pid = "set"
    <3>1. call \in [Clients -> Call]
      BY DEF TypeOK
    <3>2. call'[c].pids = {b \in AttemptIds : /\ attempts[b].status = "running"
                                              /\ attempts[b].pid = "set"}
      BY <2>2, <3>1 DEF ReconcileBegin, Become
    <3> QED
      BY <3>2
  <2> QED
    BY <2>1, <2>2, SnapshotSteps
<1>2. a \in AttemptIds'
  BY <1>0, <1>1 DEF AttemptsKept
<1>3. ASSUME attempts'[a].status = "running" PROVE attempts'[a].pid = "set"
  <2>1. attempts[a].status = "running"
    BY <1>0, <1>1, <1>3 DEF AttemptsKept
  <2> QED
    BY <1>1, <1>3, <2>1, PidIsKept
<1> QED
  BY <1>2, <1>3

\* Only a reconciliation that is not forced ends an attempt as stale.
LEMMA StaleByReconcile ==
    ASSUME TypeOK, [Next]_vars, NEW a \in AttemptIds,
           attempts[a].status = "running", attempts'[a].status = "failed",
           attempts'[a].summary = "stale"
    PROVE  \E c \in Clients : ReconcileFail(c, a) /\ ~call[c].force
<1>0. attempts \in Seq(Attempt) /\ attempts'[a] # attempts[a] /\ call \in [Clients -> Call]
  BY DEF TypeOK
<1>row. ASSUME NEW b \in AttemptIds, NEW result \in AttemptStatus, NEW summary \in Summary,
               NEW evidence \in Evidence, FinishRow(b, result, summary, evidence)
        PROVE  a = b /\ summary = "stale"
  <2>1. a = b
    BY <1>0, <1>row, FinishRowEffect
  <2>2. attempts[a] \in Attempt /\ DOMAIN attempts = 1..Len(attempts)
    BY <1>0, ElementOfSeq, LenProperties DEF AttemptIds
  <2>3. attempts'[a].summary = summary
    BY <1>0, <1>row, <2>1, <2>2 DEF FinishRow, AttemptIds, Attempt
  <2> QED
    BY <2>1, <2>3
<1>1. ASSUME NEW c \in Clients, NEW b \in AttemptIds, ReconcileFail(c, b)
      PROVE  ReconcileFail(c, a) /\ ~call[c].force
  <2>1. FinishRow(b, "failed", Reason(call[c].force), "none")
    BY <1>0, <1>1 DEF ReconcileFail
  <2>2. Reason(call[c].force) \in Summary /\ "failed" \in AttemptStatus /\ "none" \in Evidence
    BY DEF Reason, Summary, AttemptStatus, Evidence
  <2>3. a = b /\ Reason(call[c].force) = "stale"
    BY <1>row, <2>1, <2>2
  <2> QED
    BY <1>1, <2>3 DEF Reason
<1>2. ASSUME NEW c \in Clients, AttemptStep(c) PROVE FALSE
  <2>1. ASSUME NEW t \in Tasks, NEW k \in AttemptKind, NEW i \in WorkItems,
               NEW p \in Providers, StartAttempt(c, t, k, i, p)
        PROVE  FALSE
    BY <1>0, <2>1, StartEffect
  <2>2. ASSUME NEW b \in AttemptIds, SetAttemptProcess(c, b) PROVE FALSE
    BY <1>0, <2>2, SetProcessEffect
  <2>3. ASSUME NEW b \in AttemptIds, NEW result \in AttemptStatus, NEW e \in Evidence,
               FinishAttempt(c, b, result, e)
        PROVE  FALSE
    <3>1. PICK evidence \in Evidence : FinishRow(b, result, "work", evidence)
      BY <2>3 DEF FinishAttempt, Evidence
    <3>2. "work" \in Summary
      BY DEF Summary
    <3> QED
      BY <1>row, <3>1, <3>2
  <2> QED
    BY <1>2, <2>1, <2>2, <2>3 DEF AttemptStep
<1>3. ASSUME NEW c \in Clients, TaskStep(c) \/ ReviewStep(c) \/ CompleteStep(c)
                                \/ Settle(c) \/ Abandon(c)
      PROVE  FALSE
  BY <1>0, <1>3 DEF TaskStep, CreateTask, TransitionTask, CancelTask, MayCancel, ReviewStep,
     BuildReview, InsertReview, CompleteStep, CompleteBegin, CompleteNoneRunning,
     CompleteLatest, CompleteCheck, CompleteCommit, Settle, SettleStatus,
     SettleRunning, SettleTransition, Abandon, ledger
<1>4. ASSUME NEW c \in Clients, ReconcileStep(c)
      PROVE  \E d \in Clients : ReconcileFail(d, a) /\ ~call[d].force
  BY <1>0, <1>1, <1>3, <1>4 DEF ReconcileStep, ReconcileBegin, ReconcileSkip, ledger
<1> QED
  BY <1>0, <1>2, <1>3, <1>4 DEF Next, ClientStep, ProcessExits, ledger, vars

\* For any number of clients, tasks and attempts, whoever writes between the snapshot of a
\* reconciliation and the end of it: an owner that had recorded its process when the
\* reconciliation began, and is alive, is spared.
THEOREM OwnersAreSpared == Spec => LiveOwnerIsPreserved
<1> DEFINE Spares == \A a \in AttemptIds :
        /\ attempts[a].status = "running"
        /\ attempts'[a].status = "failed"
        /\ attempts'[a].summary = "stale"
        => \E c \in Clients :
            /\ AtRow(c, a) /\ ~call[c].force
            /\ a \in call[c].pids => attempts[a].pid = "set" /\ a \notin live
<1>1. Init => SnapshotIsCurrent
  BY DEF Init, SnapshotIsCurrent, NoCall
<1>2. TypeOK /\ SnapshotIsCurrent /\ [Next]_vars => SnapshotIsCurrent'
  BY SnapshotKept
<1>3. TypeOK /\ SnapshotIsCurrent /\ [Next]_vars => Spares
  <2> SUFFICES ASSUME TypeOK, SnapshotIsCurrent, [Next]_vars, NEW a \in AttemptIds,
                      attempts[a].status = "running", attempts'[a].status = "failed",
                      attempts'[a].summary = "stale"
               PROVE  \E c \in Clients :
                        /\ AtRow(c, a) /\ ~call[c].force
                        /\ a \in call[c].pids => attempts[a].pid = "set" /\ a \notin live
    OBVIOUS
  <2>1. PICK c \in Clients : ReconcileFail(c, a) /\ ~call[c].force
    BY StaleByReconcile
  <2>2. AtRow(c, a) /\ call[c].op = "reconcile" /\ ~SeenAlive(c, a)
    BY <2>1 DEF ReconcileFail, AtRow
  <2> QED
    BY <2>1, <2>2 DEF SnapshotIsCurrent, SeenAlive
<1> QED
  BY <1>1, <1>2, <1>3, TypeCorrect, PTL DEF Spec, LiveOwnerIsPreserved

-----------------------------------------------------------------------------
(* The newest attempt of a work item, and how it stands.                    *)

\* Attempt a is the one the gate asks about for work item i of task t.
IsNewest(t, i, a) == a \in LatestAttempts(t) /\ attempts[a].item = i

\* There is at most one, and the standing of the work item is its standing.
StandingsAreOfNewest ==
    \A t \in Tasks, i \in WorkItems :
        /\ \A a : IsNewest(t, i, a) => StandingOf(t, i) = AttemptStanding(a)
        /\ (\A a : ~IsNewest(t, i, a)) => StandingOf(t, i) = "none"

LEMMA StandingIs == TypeOK => StandingsAreOfNewest
<1> SUFFICES ASSUME TypeOK, NEW t \in Tasks, NEW i \in WorkItems
             PROVE  /\ \A a : IsNewest(t, i, a) => StandingOf(t, i) = AttemptStanding(a)
                    /\ (\A a : ~IsNewest(t, i, a)) => StandingOf(t, i) = "none"
  BY DEF StandingsAreOfNewest
<1> DEFINE newest == {a \in LatestAttempts(t) : attempts[a].item = i}
<1>1. StandingOf(t, i) = IF newest = {} THEN "none"
                         ELSE AttemptStanding(CHOOSE a \in newest : TRUE)
  BY DEF StandingOf
<1>2. \A a, b \in newest : a = b
  <2>1. AttemptIds \subseteq Nat
    BY AttemptIdsAreNat DEF TypeOK
  <2>2. \A a, b \in newest : a \in Nat /\ b \in Nat /\ a <= b /\ b <= a
    BY <2>1 DEF LatestAttempts, Implementations
  <2> QED
    BY <2>2
<1>3. \A a : IsNewest(t, i, a) <=> a \in newest
  BY DEF IsNewest
<1> HIDE DEF newest
<1>4. ASSUME NEW a \in newest PROVE (CHOOSE b \in newest : TRUE) = a
  BY <1>2
<1> QED
  BY <1>1, <1>3, <1>4

LEMMA StandingIsNext == TypeOK' => StandingsAreOfNewest'
BY StandingIs, PTL

\* A work item whose newest attempt is the same, and stands the same, stands
\* the same.
LEMMA StandingKept ==
    ASSUME TypeOK, TypeOK', NEW t \in Tasks, NEW i \in WorkItems,
           \A a : IsNewest(t, i, a)' <=> IsNewest(t, i, a),
           \A a : IsNewest(t, i, a) => AttemptStanding(a)' = AttemptStanding(a)
    PROVE  StandingOf(t, i)' = StandingOf(t, i)
<1>1. CASE \E a : IsNewest(t, i, a)
  <2>1. PICK a : IsNewest(t, i, a)
    BY <1>1
  <2>2. StandingOf(t, i) = AttemptStanding(a)
    BY <2>1, StandingIs DEF StandingsAreOfNewest
  <2>3. StandingOf(t, i)' = AttemptStanding(a)'
    BY <2>1, StandingIsNext DEF StandingsAreOfNewest
  <2> QED
    BY <2>1, <2>2, <2>3
<1>2. CASE \A a : ~IsNewest(t, i, a)
  BY <1>2, StandingIs, StandingIsNext DEF StandingsAreOfNewest
<1> QED
  BY <1>1, <1>2

\* An attempt stands for what its own row and its own reviews say.
LEMMA AttemptStandingKept ==
    ASSUME NEW a \in AttemptIds, ReviewsKept,
           attempts'[a].status = attempts[a].status,
           attempts'[a].provider = attempts[a].provider,
           \A r \in ReviewIds' \ ReviewIds : reviews'[r].attempt # a
    PROVE  AttemptStanding(a)' = AttemptStanding(a)
<1>1. ReviewsOf(a)' = ReviewsOf(a)
  BY DEF ReviewsOf, ReviewsKept
<1>2. \A r : IsLatestReview(r, a)' <=> IsLatestReview(r, a)
  BY <1>1 DEF IsLatestReview, ReviewsOf, ReviewsKept
<1>3. \A r \in ReviewsOf(a) : Approves(r)' <=> Approves(r)
  BY DEF Approves, ReviewsOf, ReviewsKept
<1>4. (\E r \in ReviewIds : IsLatestReview(r, a) /\ Approves(r))'
        <=> \E r \in ReviewIds : IsLatestReview(r, a) /\ Approves(r)
  BY <1>1, <1>2, <1>3 DEF IsLatestReview, ReviewsOf, ReviewsKept
<1> QED
  BY <1>1, <1>4 DEF AttemptStanding

\* Standings of rows about the same work: their newest attempts are the same.
LEMMA NewestOfSameRows ==
    ASSUME AttemptsKept, AttemptIds' = AttemptIds
    PROVE  \A t, i, a : IsNewest(t, i, a)' <=> IsNewest(t, i, a)
<1>1. \A t : Implementations(t)' = Implementations(t)
  BY DEF Implementations, AttemptsKept, SameWork
<1>2. \A t : LatestAttempts(t)' = LatestAttempts(t)
  BY <1>1 DEF LatestAttempts, Implementations, AttemptsKept, SameWork
<1> QED
  BY <1>2 DEF IsNewest, LatestAttempts, Implementations, AttemptsKept, SameWork

-----------------------------------------------------------------------------
(* What the only client can rely on, beside IInv and GateProgress.          *)

\* Work that runs is the newest work on its item.
RunningIsNewest ==
    \A t \in Tasks, i \in WorkItems : \A a \in RunningImplementations(t) :
        attempts[a].item = i => IsNewest(t, i, a)

\* Nothing is being built for a completed task.
CompletedIsQuiet ==
    \A t \in Tasks : status[t] = "completed" => RunningImplementations(t) = {}

\* A review that is built and not yet inserted is stamped after every row.
StampsInOrder ==
    /\ \A r \in ReviewIds : reviews[r].at <= clock
    /\ \A c \in Clients : call[c].op = "review" =>
        /\ call[c].review.at <= clock
        /\ \A r \in ReviewIds : reviews[r].at < call[c].review.at

\* What the proof of the refinement carries from step to step.
SoleIInv ==
    /\ IInv
    /\ GateProgress
    /\ RunningIsNewest
    /\ CompletedIsQuiet
    /\ StampsInOrder

LEMMA NewestAfterStart ==
    ASSUME TypeOK, NEW c \in Clients, NEW t \in Tasks, NEW k \in AttemptKind,
           NEW i \in WorkItems, NEW p \in Providers, StartAttempt(c, t, k, i, p),
           NEW n, n = Len(attempts) + 1
    PROVE  /\ k = "coordinator" =>
                \A u, j, b : IsNewest(u, j, b)' <=> IsNewest(u, j, b)
           /\ k = "implementation" =>
                /\ \A b : IsNewest(t, i, b)' <=> b = n
                /\ \A u, j : u # t \/ j # i =>
                    \A b : IsNewest(u, j, b)' <=> IsNewest(u, j, b)
<1>0. attempts \in Seq(Attempt) /\ AttemptIds \subseteq Nat
  BY AttemptIdsAreNat DEF TypeOK
<1>1. /\ AttemptIds' = AttemptIds \cup {n}
      /\ n \notin AttemptIds
      /\ \A b \in AttemptIds : attempts'[b] = attempts[b]
      /\ attempts'[n].task = t /\ attempts'[n].kind = k /\ attempts'[n].item = i
  BY <1>0, StartEffect
<1>2. n \in Nat /\ \A b \in AttemptIds : b < n
  BY <1>0, LenProperties DEF AttemptIds
<1>3. CASE k = "coordinator"
  <2>1. \A u : Implementations(u)' = Implementations(u)
    BY <1>1, <1>3 DEF Implementations
  <2>2. \A u : LatestAttempts(u)' = LatestAttempts(u)
    BY <1>1, <2>1 DEF LatestAttempts, Implementations
  <2> QED
    BY <1>1, <1>3, <2>2 DEF IsNewest, LatestAttempts, Implementations
<1>4. CASE k = "implementation"
  <2>1. /\ Implementations(t)' = Implementations(t) \cup {n}
        /\ \A u : u # t => Implementations(u)' = Implementations(u)
    BY <1>1, <1>4 DEF Implementations
  <2>2. \A u, j, b : IsNewest(u, j, b) <=>
            /\ b \in Implementations(u) /\ attempts[b].item = j
            /\ \A d \in Implementations(u) : attempts[d].item = j => d <= b
    BY DEF IsNewest, LatestAttempts
  <2>3. \A u, j, b : IsNewest(u, j, b)' <=>
            /\ b \in Implementations(u)' /\ attempts'[b].item = j
            /\ \A d \in Implementations(u)' : attempts'[d].item = j => d <= b
    BY DEF IsNewest, LatestAttempts
  <2>4. \A u : Implementations(u) \subseteq AttemptIds
    BY DEF Implementations
  <2>5. \A b : IsNewest(t, i, b)' <=> b = n
    <3>1. IsNewest(t, i, n)'
      <4>1. \A d \in Implementations(t)' : d <= n
        <5>1. \A d \in AttemptIds \cup {n} : d <= n
          BY <1>0, <1>2
        <5> QED
          BY <2>1, <2>4, <5>1
      <4> QED
        BY <1>1, <2>1, <2>3, <4>1
    <3>2. ASSUME NEW b, IsNewest(t, i, b)' PROVE b = n
      <4>1. b \in AttemptIds \cup {n} /\ n <= b
        BY <1>1, <2>1, <2>3, <2>4, <3>2
      <4> QED
        BY <1>0, <1>2, <4>1
    <3> QED
      BY <3>1, <3>2
  <2>6. ASSUME NEW u, NEW j, u # t \/ j # i
        PROVE  \A b : IsNewest(u, j, b)' <=> IsNewest(u, j, b)
    <3>1. CASE u # t
      BY <1>1, <2>1, <2>2, <2>3, <2>4, <3>1
    <3>2. CASE u = t /\ j # i
      BY <1>1, <2>1, <2>2, <2>3, <2>4, <3>2
    <3> QED
      BY <2>6, <3>1, <3>2
  <2> QED
    BY <1>4, <2>5, <2>6
<1> QED
  BY <1>3, <1>4 DEF AttemptKind

LEMMA RunningStaysNewest ==
    ASSUME IInv, RunningIsNewest, [Next]_vars
    PROVE  RunningIsNewest'
<1>0. TypeOK /\ attempts \in Seq(Attempt) /\ AttemptsKept
  BY RowsKept DEF IInv, TypeOK
<1>1. CASE UNCHANGED attempts
  BY <1>1 DEF RunningIsNewest, IsNewest, RunningImplementations, RunningAttempts,
     Implementations, LatestAttempts, AttemptIds
<1>2. ASSUME NEW b \in AttemptIds, RowUpdated(b) PROVE RunningIsNewest'
  <2>1. AttemptIds' = AttemptIds
    BY <1>2 DEF RowUpdated
  <2>2. ASSUME NEW t \in Tasks, NEW a \in RunningImplementations(t)'
        PROVE  a \in RunningImplementations(t) /\ attempts'[a].item = attempts[a].item
    <3>1. a \in AttemptIds /\ SameWork(attempts'[a], attempts[a])
      BY <1>0, <2>1, <2>2 DEF AttemptsKept, RunningImplementations, RunningAttempts
    <3>2. attempts[a].status = "running"
      BY <1>2, <2>2, <3>1 DEF RowUpdated, RunningImplementations, RunningAttempts
    <3> QED
      BY <2>2, <3>1, <3>2 DEF SameWork, RunningImplementations, RunningAttempts,
         Implementations
  <2>3. \A t, i, a : IsNewest(t, i, a)' <=> IsNewest(t, i, a)
    BY <1>0, <2>1, NewestOfSameRows
  <2> QED
    BY <2>2, <2>3 DEF RunningIsNewest
<1>3. ASSUME NEW c \in Clients, NEW t \in Tasks, NEW k \in AttemptKind, NEW i \in WorkItems,
             NEW p \in Providers, StartAttempt(c, t, k, i, p)
      PROVE  RunningIsNewest'
  <2>1. PICK n : n = Len(attempts) + 1
    OBVIOUS
  <2>2. /\ AttemptIds' = AttemptIds \cup {n}
        /\ n \notin AttemptIds
        /\ \A b \in AttemptIds : attempts'[b] = attempts[b]
        /\ attempts'[n].task = t /\ attempts'[n].kind = k /\ attempts'[n].item = i
    BY <1>0, <1>3, <2>1, StartEffect
  <2>3. /\ k = "coordinator" => \A u, j, b : IsNewest(u, j, b)' <=> IsNewest(u, j, b)
        /\ k = "implementation" =>
            /\ \A b : IsNewest(t, i, b)' <=> b = n
            /\ \A u, j : u # t \/ j # i =>
                \A b : IsNewest(u, j, b)' <=> IsNewest(u, j, b)
    BY <1>0, <1>3, <2>1, NewestAfterStart
  <2> SUFFICES ASSUME NEW u \in Tasks, NEW j \in WorkItems,
                      NEW a \in RunningImplementations(u)', attempts'[a].item = j
               PROVE  IsNewest(u, j, a)'
    BY DEF RunningIsNewest
  <2>4. CASE a = n
    <3>1. u = t /\ k = "implementation"
      BY <2>2, <2>4 DEF RunningImplementations, RunningAttempts, Implementations
    <3> QED
      BY <2>2, <2>3, <2>4, <3>1
  <2>5. CASE a # n
    <3>1. a \in AttemptIds /\ attempts'[a] = attempts[a] /\ a \in RunningImplementations(u)
      BY <2>2, <2>5 DEF RunningImplementations, RunningAttempts, Implementations
    <3>2. IsNewest(u, j, a)
      BY <3>1 DEF RunningIsNewest
    <3>3. k = "implementation" => u # t \/ j # i
      BY <1>3, <3>1 DEF StartAttempt, WorkItemFree
    <3> QED
      BY <2>3, <3>1, <3>2, <3>3 DEF AttemptKind
  <2> QED
    BY <2>4, <2>5
<1> QED
  BY <1>0, <1>1, <1>2, <1>3, StepOfAttempts

LEMMA CompletedStaysQuiet ==
    ASSUME SoleClient, IInv, GateProgress, CompletedIsQuiet, [Next]_vars
    PROVE  CompletedIsQuiet'
<1>0. TypeOK /\ attempts \in Seq(Attempt) /\ AttemptsKept
      /\ status \in [Tasks -> TaskStatus \cup {"absent"}]
  BY RowsKept DEF IInv, TypeOK
<1>1. CASE UNCHANGED attempts
  <2>1. \A t : RunningImplementations(t)' = RunningImplementations(t)
    BY <1>1 DEF RunningImplementations, RunningAttempts, Implementations, AttemptIds
  <2>2. ASSUME NEW t \in Tasks, status[t] # "completed", status'[t] = "completed"
        PROVE  RunningImplementations(t) = {}
    <3>1. PICK c \in Clients : CompleteCommit(c) /\ call[c].task = t
      BY <1>0, <2>2, CompletedByCommit
    <3> QED
      BY <3>1 DEF CompleteCommit, AtComplete, GateProgress
  <2> QED
    BY <2>1, <2>2 DEF CompletedIsQuiet
<1>2. ASSUME UNCHANGED status, NEW b \in AttemptIds, RowUpdated(b) PROVE CompletedIsQuiet'
  <2>1. \A t : RunningImplementations(t)' \subseteq RunningImplementations(t)
    BY <1>0, <1>2 DEF RowUpdated, AttemptsKept, SameWork, RunningImplementations,
       RunningAttempts, Implementations
  <2> QED
    BY <1>2, <2>1 DEF CompletedIsQuiet
<1>3. ASSUME NEW c \in Clients, NEW t \in Tasks, NEW k \in AttemptKind, NEW i \in WorkItems,
             NEW p \in Providers, StartAttempt(c, t, k, i, p)
      PROVE  CompletedIsQuiet'
  <2>1. PICK n : n = Len(attempts) + 1
    OBVIOUS
  <2>2. /\ AttemptIds' = AttemptIds \cup {n}
        /\ \A b \in AttemptIds : attempts'[b] = attempts[b]
        /\ attempts'[n].task = t
    BY <1>0, <1>3, <2>1, StartEffect
  <2>3. \A u : u # t => RunningImplementations(u)' \subseteq RunningImplementations(u)
    BY <2>2 DEF RunningImplementations, RunningAttempts, Implementations
  <2>4. status' = status /\ status[t] = "running"
    BY <1>3 DEF StartAttempt
  <2> QED
    BY <2>3, <2>4 DEF CompletedIsQuiet
<1> QED
  BY <1>0, <1>1, <1>2, <1>3, StepOfAttempts

LEMMA StampsStayInOrder ==
    ASSUME SoleClient, TypeOK, StampsInOrder, [Next]_vars
    PROVE  StampsInOrder'
<1>0. /\ call \in [Clients -> Call] /\ clock \in Nat /\ \A c, d \in Clients : c = d
      /\ \A r \in ReviewIds : reviews[r].at \in Nat
  <2>1. \A r \in ReviewIds : reviews[r] \in Review
    BY ElementOfSeq, LenProperties DEF TypeOK, ReviewIds
  <2> QED
    BY <2>1 DEF TypeOK, SoleClient, Review
<1>1. ASSUME NEW c \in Clients, NEW t \in Tasks, NEW a \in AttemptIds, NEW p \in Providers,
             NEW v \in Verdict, NEW e \in Evidence, BuildReview(c, t, a, p, v, e)
      PROVE  StampsInOrder'
  <2>1. /\ clock' = clock + 1 /\ reviews' = reviews
        /\ call'[c].review.at = clock + 1
    BY <1>0, <1>1 DEF BuildReview, Become, ledger
  <2> QED
    BY <1>0, <2>1 DEF StampsInOrder, ReviewIds
<1>2. ASSUME NEW c \in Clients, InsertReview(c) PROVE StampsInOrder'
  <2>1. /\ ReviewIds' = ReviewIds \cup {Len(reviews) + 1}
        /\ \A r \in ReviewIds : reviews'[r] = reviews[r]
        /\ reviews'[Len(reviews) + 1] = call[c].review
    BY <1>2, InsertReviewOK
  <2>2. clock' = clock /\ call'[c] = NoCall /\ call[c].op = "review"
    BY <1>0, <1>2 DEF InsertReview, Become
  <2> QED
    BY <1>0, <2>1, <2>2 DEF StampsInOrder, NoCall
<1>3. CASE /\ UNCHANGED <<reviews, clock>>
           /\ \A d \in Clients : call'[d] = call[d] \/ call'[d].op # "review"
  BY <1>3 DEF StampsInOrder, ReviewIds
<1>4. UNCHANGED clock \/ \E c \in Clients : ReviewStep(c)
  BY DEF Next, ClientStep, TaskStep, CreateTask, TransitionTask, CancelTask, MayCancel,
     AttemptStep, StartAttempt, FinishAttempt, SetAttemptProcess, CompleteStep, CompleteBegin,
     CompleteNoneRunning, CompleteLatest, CompleteCheck, CompleteCommit, ReconcileStep,
     ReconcileBegin, ReconcileSkip, ReconcileFail, Settle, SettleStatus, SettleRunning,
     SettleTransition, Abandon, ProcessExits, vars
<1>5. ASSUME NEW c \in Clients, CompleteNoneRunning(c) \/ CompleteLatest(c)
                                \/ \E a \in AttemptIds : CompleteCheck(c, a)
      PROVE  StampsInOrder'
  <2>1. call[c] \in CompleteCall
    BY <1>0, <1>5, CallByOp DEF CompleteNoneRunning, CompleteLatest, CompleteCheck, AtComplete
  <2>2. call'[c].op = "complete" /\ UNCHANGED <<reviews, clock>>
    <3>1. CASE CompleteNoneRunning(c)
      BY <1>0, <2>1, <3>1 DEF CompleteNoneRunning, Become, CompleteCall, ledger
    <3>2. CASE CompleteLatest(c)
      BY <1>0, <2>1, <3>2 DEF CompleteLatest, Become, CompleteCall, ledger
    <3>3. ASSUME NEW a \in AttemptIds, CompleteCheck(c, a)
          PROVE  call'[c].op = "complete" /\ UNCHANGED <<reviews, clock>>
      BY <1>0, <2>1, <3>3 DEF CompleteCheck, Become, CompleteCall, ledger
    <3> QED
      BY <1>5, <3>1, <3>2, <3>3
  <2> QED
    BY <1>0, <1>3, <2>2
<1>6. CASE \A d \in Clients : call'[d] = call[d] \/ Uncommitted(d)'
  <2>1. CASE UNCHANGED <<reviews, clock>>
    BY <1>3, <1>6, <2>1 DEF Uncommitted
  <2>2. ASSUME NEW c \in Clients, ReviewStep(c) PROVE StampsInOrder'
    BY <1>1, <1>2, <2>2 DEF ReviewStep
  <2>3. UNCHANGED reviews \/ \E c \in Clients : InsertReview(c)
    BY StepOfReviews
  <2> QED
    BY <1>2, <1>4, <2>1, <2>2, <2>3
<1> QED
  BY <1>1, <1>5, <1>6, StepOfCalls

\* The only client keeps all of it.
LEMMA SoleIInvNext ==
    ASSUME SoleClient
    PROVE  SoleIInv /\ [Next]_vars => SoleIInv'
BY IInvNext, GateProgressKept, RunningStaysNewest, CompletedStaysQuiet, StampsStayInOrder
   DEF SoleIInv, IInv

LEMMA SoleIInvInit == Init => SoleIInv
BY IInvInit DEF Init, SoleIInv, GateProgress, RunningIsNewest, CompletedIsQuiet, StampsInOrder,
   RunningImplementations, RunningAttempts, AttemptIds, ReviewIds, NoCall

-----------------------------------------------------------------------------
(* Steps of the gate, from what they do to the values it is mapped to.      *)

FatesKept == \A t \in Tasks : FateOf(t)' = FateOf(t)
StandingsKept == \A t \in Tasks, i \in WorkItems : StandingOf(t, i)' = StandingOf(t, i)

LEMMA GateStutters ==
    ASSUME FatesKept, StandingsKept
    PROVE  UNCHANGED Gate!gateVars
BY DEF Gate!gateVars, FatesKept, StandingsKept

LEMMA GateStands ==
    ASSUME NEW t \in Tasks, NEW i \in WorkItems, NEW s, FatesKept,
           StandingOf(t, i)' = s,
           \A u \in Tasks, j \in WorkItems :
                u # t \/ j # i => StandingOf(u, j)' = StandingOf(u, j)
    PROVE  Gate!Stand(t, i, s)
<1>1. UNCHANGED [u \in Tasks |-> FateOf(u)]
  BY DEF FatesKept
<1>2. [u \in Tasks |-> [j \in WorkItems |-> StandingOf(u, j)]]'
        = [u \in Tasks |-> [j \in WorkItems |->
                IF u = t /\ j = i THEN s ELSE StandingOf(u, j)]]
  OBVIOUS
<1>3. [[u \in Tasks |-> [j \in WorkItems |-> StandingOf(u, j)]] EXCEPT ![t][i] = s]
        = [u \in Tasks |-> [j \in WorkItems |->
                IF u = t /\ j = i THEN s ELSE StandingOf(u, j)]]
  OBVIOUS
<1> QED
  BY <1>1, <1>2, <1>3 DEF Gate!Stand

LEMMA GateDecides ==
    ASSUME NEW t \in Tasks, NEW from, NEW to, StandingsKept,
           FateOf(t) = from, FateOf(t)' = to,
           \A u \in Tasks : u # t => FateOf(u)' = FateOf(u)
    PROVE  Gate!Decide(t, from, to)
<1>1. UNCHANGED [u \in Tasks |-> [j \in WorkItems |-> StandingOf(u, j)]]
  BY DEF StandingsKept
<1>2. [u \in Tasks |-> FateOf(u)]' = [[u \in Tasks |-> FateOf(u)] EXCEPT ![t] = to]
  OBVIOUS
<1> QED
  BY <1>1, <1>2 DEF Gate!Decide

\* The gate sees a work item as working when its newest attempt is running.
LEMMA WorkingIsRunning ==
    ASSUME TypeOK, NEW t \in Tasks, NEW i \in WorkItems, StandingOf(t, i) = "working"
    PROVE  \E a \in RunningImplementations(t) : attempts[a].item = i
<1>1. PICK a : IsNewest(t, i, a)
  BY StandingIs DEF StandingsAreOfNewest
<1>2. AttemptStanding(a) = "working"
  BY <1>1, StandingIs DEF StandingsAreOfNewest
<1>3. attempts[a].status = "running"
  BY <1>2 DEF AttemptStanding
<1> QED
  BY <1>1, <1>3 DEF IsNewest, LatestAttempts, RunningImplementations, RunningAttempts,
     Implementations

-----------------------------------------------------------------------------
(* Every step of the ledger is a step of the gate, or none.                 *)

\* Ending an implementation finishes its work item; everything else that
\* touches a row does not concern the gate.
LEMMA RowUpdateRefines ==
    ASSUME SoleIInv, TypeOK', AttemptsKept, UNCHANGED <<status, reviews>>,
           NEW a \in AttemptIds, RowUpdated(a)
    PROVE  Gate!Next \/ UNCHANGED Gate!gateVars
<1>0. /\ TypeOK /\ attempts \in Seq(Attempt) /\ attempts' \in Seq(Attempt)
      /\ attempts[a] \in Attempt /\ attempts'[a] \in Attempt
      /\ AttemptIds' = AttemptIds /\ attempts[a].status = "running"
  <2>1. attempts \in Seq(Attempt) /\ attempts' \in Seq(Attempt) /\ AttemptIds' = AttemptIds
    BY DEF SoleIInv, IInv, TypeOK, RowUpdated
  <2>2. attempts[a] \in Attempt /\ attempts'[a] \in Attempt
    BY <2>1, ElementOfSeq, LenProperties DEF AttemptIds
  <2> QED
    BY <2>1, <2>2 DEF SoleIInv, IInv, RowUpdated
<1>1. FatesKept
  BY DEF FatesKept, FateOf
<1>2. \A t, i, b : IsNewest(t, i, b)' <=> IsNewest(t, i, b)
  BY <1>0, NewestOfSameRows
<1>3. ReviewsKept /\ ReviewIds' = ReviewIds
  BY DEF ReviewsKept, ReviewIds
<1>4. ASSUME NEW b \in AttemptIds, attempts'[b].status = attempts[b].status
      PROVE  AttemptStanding(b)' = AttemptStanding(b)
  <2>1. attempts'[b].provider = attempts[b].provider
    BY DEF AttemptsKept, SameWork
  <2> QED
    BY <1>3, <1>4, <2>1, AttemptStandingKept
<1>5. \A b \in AttemptIds : b # a => AttemptStanding(b)' = AttemptStanding(b)
  BY <1>4 DEF RowUpdated
<1>6. \A t, i, b : IsNewest(t, i, b) => b \in Implementations(t) /\ b \in AttemptIds
  BY DEF IsNewest, LatestAttempts, Implementations
\* The row goes on running, or it is no implementation.
<1>7. CASE attempts'[a].status = "running" \/ attempts[a].kind = "coordinator"
  <2>1. \A t, i, b : IsNewest(t, i, b) => AttemptStanding(b)' = AttemptStanding(b)
    BY <1>0, <1>4, <1>5, <1>6, <1>7 DEF Implementations
  <2>2. StandingsKept
    BY <1>0, <1>2, <2>1, StandingKept DEF StandingsKept
  <2> QED
    BY <1>1, <2>2, GateStutters
\* An implementation ends.
<1>8. CASE attempts'[a].status # "running" /\ attempts[a].kind # "coordinator"
  <2>1. PICK t \in Tasks, i \in WorkItems : attempts[a].task = t /\ attempts[a].item = i
    BY <1>0 DEF Attempt
  <2>2. a \in RunningImplementations(t)
    BY <1>0, <1>8, <2>1 DEF Attempt, AttemptKind, RunningImplementations, RunningAttempts,
       Implementations
  <2>3. IsNewest(t, i, a)
    BY <2>1, <2>2 DEF SoleIInv, RunningIsNewest
  <2>4. StandingOf(t, i) = "working"
    BY <1>0, <2>3, StandingIs DEF StandingsAreOfNewest, AttemptStanding
  <2>5. FateOf(t) = "open"
    BY <2>2 DEF SoleIInv, IInv, QuietWhenStopped, CompletedIsQuiet, FateOf
  <2>6. \A r \in ReviewIds : reviews[r].attempt # a
    BY <1>0 DEF SoleIInv, IInv, ReviewsAreIndependent, Independent
  <2>7. PICK result \in {"failed", "succeeded"} :
            result = IF attempts'[a].status = "succeeded" THEN "succeeded" ELSE "failed"
    OBVIOUS
  <2>8. StandingOf(t, i)' = result
    <3>1. StandingOf(t, i)' = AttemptStanding(a)'
      BY <1>2, <2>3, StandingIsNext DEF StandingsAreOfNewest
    <3>2. ReviewsOf(a)' = {}
      BY <2>6 DEF ReviewsOf, ReviewIds
    <3>3. attempts'[a].status \in {"succeeded", "failed", "cancelled"}
      BY <1>0, <1>8 DEF Attempt, AttemptStatus
    <3>4. AttemptStanding(a)' = result
      <4>1. CASE attempts'[a].status = "succeeded"
        <5>1. \A r : ~IsLatestReview(r, a)'
          BY <3>2 DEF IsLatestReview
        <5> QED
          BY <2>7, <3>2, <4>1, <5>1 DEF AttemptStanding
      <4>2. CASE attempts'[a].status \in {"failed", "cancelled"}
        BY <2>7, <4>2 DEF AttemptStanding
      <4> QED
        BY <3>3, <4>1, <4>2
    <3> QED
      BY <3>1, <3>4
  <2>9. ASSUME NEW u \in Tasks, NEW j \in WorkItems, u # t \/ j # i
        PROVE  StandingOf(u, j)' = StandingOf(u, j)
    <3>1. ~IsNewest(u, j, a)
      BY <2>1, <2>9 DEF IsNewest, LatestAttempts, Implementations
    <3> QED
      BY <1>0, <1>2, <1>5, <1>6, <3>1, StandingKept
  <2>10. Gate!Stand(t, i, result)
    BY <1>1, <2>8, <2>9, GateStands
  <2>11. Gate!Finish(t, i, result)
    BY <2>4, <2>5, <2>10 DEF Gate!Finish
  <2> QED
    BY <2>11 DEF Gate!Next
<1> QED
  BY <1>7, <1>8

\* New work of a builder starts its item again; a coordinator concerns no item.
LEMMA StartRefines ==
    ASSUME SoleIInv, TypeOK', ReviewsKept, NEW c \in Clients, NEW t \in Tasks,
           NEW k \in AttemptKind, NEW i \in WorkItems, NEW p \in Providers,
           StartAttempt(c, t, k, i, p)
    PROVE  Gate!Next \/ UNCHANGED Gate!gateVars
<1>0. TypeOK /\ attempts \in Seq(Attempt)
  BY DEF SoleIInv, IInv, TypeOK
<1>1. FatesKept
  BY DEF StartAttempt, FatesKept, FateOf
<1>2. PICK n : n = Len(attempts) + 1
  OBVIOUS
<1>3. /\ n \notin AttemptIds
      /\ \A b \in AttemptIds : attempts'[b] = attempts[b]
      /\ attempts'[n].status = "running"
  BY <1>0, <1>2, StartEffect
<1>4. /\ k = "coordinator" => \A u, j, b : IsNewest(u, j, b)' <=> IsNewest(u, j, b)
      /\ k = "implementation" =>
            /\ \A b : IsNewest(t, i, b)' <=> b = n
            /\ \A u, j : u # t \/ j # i =>
                \A b : IsNewest(u, j, b)' <=> IsNewest(u, j, b)
  BY <1>0, <1>2, NewestAfterStart
<1>5. \A b \in AttemptIds : AttemptStanding(b)' = AttemptStanding(b)
  <2>1. ReviewIds' = ReviewIds
    BY DEF StartAttempt, ReviewIds
  <2> QED
    BY <1>3, <2>1, AttemptStandingKept
<1>6. \A u, j, b : IsNewest(u, j, b) => AttemptStanding(b)' = AttemptStanding(b)
  BY <1>5 DEF IsNewest, LatestAttempts, Implementations
<1>7. CASE k = "coordinator"
  <2>1. StandingsKept
    BY <1>0, <1>4, <1>6, <1>7, StandingKept DEF StandingsKept
  <2> QED
    BY <1>1, <2>1, GateStutters
<1>8. CASE k = "implementation"
  <2>1. FateOf(t) = "open"
    BY DEF StartAttempt, FateOf
  <2>2. StandingOf(t, i) # "working"
    BY <1>0, <1>8, WorkingIsRunning DEF StartAttempt, WorkItemFree
  <2>3. StandingOf(t, i)' = "working"
    BY <1>3, <1>4, <1>8, StandingIsNext DEF StandingsAreOfNewest, AttemptStanding
  <2>4. \A u \in Tasks, j \in WorkItems : u # t \/ j # i => StandingOf(u, j)' = StandingOf(u, j)
    BY <1>0, <1>4, <1>6, <1>8, StandingKept
  <2>5. Gate!Stand(t, i, "working")
    BY <1>1, <2>3, <2>4, GateStands
  <2>6. Gate!Start(t, i)
    BY <2>1, <2>2, <2>5 DEF Gate!Start
  <2> QED
    BY <2>6 DEF Gate!Next
<1> QED
  BY <1>7, <1>8 DEF AttemptKind

\* Inserting a review judges the attempt it names, if that is still the newest
\* of its work item.
LEMMA InsertReviewRefines ==
    ASSUME SoleIInv, TypeOK', AttemptsKept, ReviewsKept, NEW c \in Clients, InsertReview(c)
    PROVE  Gate!Next \/ UNCHANGED Gate!gateVars
<1>0. TypeOK /\ attempts \in Seq(Attempt) /\ UNCHANGED attempts /\ AttemptIds' = AttemptIds
  BY DEF SoleIInv, IInv, TypeOK, InsertReview, AttemptIds
<1>1. FatesKept
  BY DEF InsertReview, FatesKept, FateOf
<1>2. PICK n : n = Len(reviews) + 1
  OBVIOUS
<1>3. PICK a : a = call[c].review.attempt
  OBVIOUS
<1>4. /\ ReviewIds' = ReviewIds \cup {n} /\ n \notin ReviewIds
      /\ \A r \in ReviewIds : reviews'[r] = reviews[r]
      /\ reviews'[n] = call[c].review
  <2>1. n \notin ReviewIds
    BY <1>0, <1>2, LenProperties DEF TypeOK, ReviewIds
  <2> QED
    BY <1>0, <1>2, <2>1, InsertReviewOK
<1>5. /\ Independent(call[c].review)
      /\ \A r \in ReviewIds : reviews[r].at < call[c].review.at
      /\ call[c].review.at \in Nat /\ \A r \in ReviewIds : reviews[r].at \in Nat
  <2>1. call[c].review \in Review /\ \A r \in ReviewIds : reviews[r] \in Review
    BY <1>0, InsertReviewOK, ElementOfSeq, LenProperties DEF TypeOK, ReviewIds
  <2> QED
    BY <2>1 DEF InsertReview, SoleIInv, IInv, RememberedFactsHold, StampsInOrder, Review
<1>6. a \in AttemptIds /\ attempts[a].status = "succeeded" /\ attempts[a].kind = "implementation"
  BY <1>3, <1>5 DEF Independent, Implementations
<1>7. \A u, j, b : IsNewest(u, j, b)' <=> IsNewest(u, j, b)
  BY <1>0, NewestOfSameRows
<1>8. \A b \in AttemptIds : b # a => AttemptStanding(b)' = AttemptStanding(b)
  BY <1>0, <1>3, <1>4, AttemptStandingKept
<1>9. \A u, j, b : IsNewest(u, j, b) =>
        b \in AttemptIds /\ attempts[b].task = u /\ attempts[b].item = j
  BY DEF IsNewest, LatestAttempts, Implementations
<1>10. CASE \A t \in Tasks, i \in WorkItems : ~IsNewest(t, i, a)
  <2>1. StandingsKept
    <3>1. ASSUME NEW u \in Tasks, NEW j \in WorkItems, NEW b, IsNewest(u, j, b)
          PROVE  AttemptStanding(b)' = AttemptStanding(b)
      BY <1>8, <1>9, <1>10, <3>1
    <3> QED
      BY <1>0, <1>7, <3>1, StandingKept DEF StandingsKept
  <2> QED
    BY <1>1, <2>1, GateStutters
<1>11. ASSUME NEW t \in Tasks, NEW i \in WorkItems, IsNewest(t, i, a)
       PROVE  Gate!Next
  <2>1. StandingOf(t, i) \in Gate!Done
    BY <1>0, <1>6, <1>11, StandingIs DEF StandingsAreOfNewest, AttemptStanding, Gate!Done
  <2>2. PICK verdict \in {"approved", "rejected"} :
            verdict = IF Approves(n)' THEN "approved" ELSE "rejected"
    OBVIOUS
  \* The row just inserted is the newest review of the attempt.
  <2>3. IsLatestReview(n, a)' /\ \A r : IsLatestReview(r, a)' => r = n
    <3>1. n \in ReviewsOf(a)' /\ ReviewsOf(a)' \subseteq ReviewIds \cup {n}
      BY <1>3, <1>4 DEF ReviewsOf
    <3>2. \A r \in ReviewIds : reviews'[r].at < reviews'[n].at /\ ~(reviews'[n].at <= reviews'[r].at)
      BY <1>4, <1>5
    <3>3. reviews'[n].at <= reviews'[n].at
      BY <1>4, <1>5
    <3>4. \A r \in ReviewIds : reviews'[r].at <= reviews'[n].at
      BY <1>4, <1>5
    <3> QED
      BY <3>1, <3>2, <3>3, <3>4 DEF IsLatestReview
  <2>4. StandingOf(t, i)' = verdict
    <3>1. StandingOf(t, i)' = AttemptStanding(a)'
      BY <1>7, <1>11, StandingIsNext DEF StandingsAreOfNewest
    <3>2. attempts'[a].status = "succeeded"
      BY <1>0, <1>6
    <3>3. ReviewsOf(a)' # {} /\ n \in ReviewIds'
      BY <2>3 DEF IsLatestReview, ReviewsOf
    <3>4. (\E r \in ReviewIds : IsLatestReview(r, a) /\ Approves(r))' <=> Approves(n)'
      BY <2>3, <3>3
    <3>5. AttemptStanding(a)' = verdict
      BY <2>2, <3>2, <3>3, <3>4 DEF AttemptStanding
    <3> QED
      BY <3>1, <3>5
  <2>5. ASSUME NEW u \in Tasks, NEW j \in WorkItems, u # t \/ j # i
        PROVE  StandingOf(u, j)' = StandingOf(u, j)
    <3>1. ~IsNewest(u, j, a)
      BY <1>9, <1>11, <2>5
    <3>2. \A b : IsNewest(u, j, b) => AttemptStanding(b)' = AttemptStanding(b)
      BY <1>8, <1>9, <3>1
    <3> QED
      BY <1>0, <1>7, <3>2, StandingKept
  <2>6. Gate!Stand(t, i, verdict)
    BY <1>1, <2>4, <2>5, GateStands
  <2>7. Gate!Judge(t, i, verdict)
    BY <2>1, <2>6 DEF Gate!Judge
  <2> QED
    BY <2>7 DEF Gate!Next
<1> QED
  BY <1>10, <1>11

\* Creating, cancelling and completing decide the fate of a task; every other
\* move of its status leaves it open.
LEMMA MoveRefines ==
    ASSUME SoleIInv, TypeOK', [Next]_vars, UNCHANGED <<attempts, reviews>>,
           NEW t \in Tasks, NEW to \in TaskStatus, MoveTask(t, status[t], to),
           MoveIsChecked(t, to)
    PROVE  Gate!Next \/ UNCHANGED Gate!gateVars
<1>0. TypeOK /\ status \in [Tasks -> TaskStatus \cup {"absent"}]
  BY DEF SoleIInv, IInv, TypeOK
<1>1. status'[t] = to /\ \A u \in Tasks : u # t => status'[u] = status[u]
  BY <1>0 DEF MoveTask
<1>2. \A u \in Tasks : u # t => FateOf(u)' = FateOf(u)
  BY <1>1 DEF FateOf
<1>3. StandingsKept
  <2>1. \A u, j, b : IsNewest(u, j, b)' <=> IsNewest(u, j, b)
    BY DEF IsNewest, LatestAttempts, Implementations, AttemptIds
  <2>2. ReviewsKept /\ ReviewIds' = ReviewIds
    BY DEF ReviewsKept, ReviewIds
  <2>3. \A b \in AttemptIds : AttemptStanding(b)' = AttemptStanding(b)
    BY <2>2, AttemptStandingKept
  <2>4. \A u, j, b : IsNewest(u, j, b) => b \in AttemptIds
    BY DEF IsNewest, LatestAttempts, Implementations
  <2> QED
    BY <1>0, <2>1, <2>3, <2>4, StandingKept DEF StandingsKept
<1>4. CASE status[t] = "absent" /\ to = "queued"
  <2>1. FateOf(t) = "none" /\ FateOf(t)' = "open"
    BY <1>1, <1>4 DEF FateOf
  <2>2. Gate!Decide(t, "none", "open")
    BY <1>2, <1>3, <2>1, GateDecides
  <2> QED
    BY <2>2 DEF Gate!Next, Gate!Open
<1>5. CASE status[t] = "needs_review" /\ to = "completed"
  <2>1. FateOf(t) = "open" /\ FateOf(t)' = "completed"
    BY <1>1, <1>5 DEF FateOf
  <2>2. Gate!Decide(t, "open", "completed")
    BY <1>2, <1>3, <2>1, GateDecides
  <2>3. PICK c \in Clients : CompleteCommit(c) /\ call[c].task = t
    BY <1>0, <1>1, <1>5, CompletedByCommit
  <2>4. /\ LatestAttempts(t) # {}
        /\ \A a \in LatestAttempts(t) :
            /\ attempts[a].status = "succeeded"
            /\ \E r \in ReviewIds : IsLatestReview(r, a) /\ Approves(r)
    BY <2>3 DEF CompleteCommit, AtComplete, SoleIInv, GateProgress
  <2>5. \A a \in LatestAttempts(t) : AttemptStanding(a) = "approved"
    BY <2>4 DEF AttemptStanding, IsLatestReview
  <2>6. ASSUME NEW i \in WorkItems PROVE StandingOf(t, i) \in {"none", "approved"}
    <3>1. \A a : IsNewest(t, i, a) => a \in LatestAttempts(t)
      BY DEF IsNewest
    <3> QED
      BY <1>0, <2>5, <3>1, StandingIs DEF StandingsAreOfNewest
  <2>7. \E i \in WorkItems : StandingOf(t, i) = "approved"
    <3>1. PICK a : a \in LatestAttempts(t)
      BY <2>4
    <3>2. a \in AttemptIds
      BY <3>1 DEF LatestAttempts, Implementations
    <3>3. attempts[a] \in Attempt
      BY <1>0, <3>2, ElementOfSeq, LenProperties DEF TypeOK, AttemptIds
    <3>4. PICK i \in WorkItems : attempts[a].item = i
      BY <3>3 DEF Attempt
    <3>5. IsNewest(t, i, a)
      BY <3>1, <3>4 DEF IsNewest
    <3> QED
      BY <1>0, <2>5, <3>1, <3>5, StandingIs DEF StandingsAreOfNewest
  <2>8. Gate!Complete(t)
    BY <2>2, <2>6, <2>7 DEF Gate!Complete
  <2> QED
    BY <2>8 DEF Gate!Next
<1>6. CASE /\ status[t] # "absent" /\ to \in ValidTransitions[status[t]]
           /\ to # "completed"
           /\ to = "cancelled" =>
                status[t] \in {"queued", "running"} /\ RunningAttempts(t) = {}
  <2>0. status[t] \notin {"absent", "completed", "cancelled"}
    BY <1>6 DEF ValidTransitions
  <2>1. FateOf(t) = "open"
    BY <2>0 DEF FateOf
  <2>2. CASE to = "cancelled"
    <3>1. FateOf(t)' = "cancelled"
      BY <1>1, <2>2 DEF FateOf
    <3>2. Gate!Decide(t, "open", "cancelled")
      BY <1>2, <1>3, <2>1, <3>1, GateDecides
    <3>3. \A i \in WorkItems : StandingOf(t, i) # "working"
      BY <1>0, <1>6, <2>2, WorkingIsRunning DEF RunningImplementations
    <3>4. Gate!Cancel(t)
      BY <3>2, <3>3 DEF Gate!Cancel
    <3> QED
      BY <3>4 DEF Gate!Next
  <2>3. CASE to # "cancelled"
    <3>1. FateOf(t)' = "open"
      BY <1>1, <1>6, <2>3 DEF FateOf, TaskStatus
    <3>2. FatesKept
      BY <1>2, <2>1, <3>1 DEF FatesKept
    <3> QED
      BY <1>3, <3>2, GateStutters
  <2> QED
    BY <2>2, <2>3
<1> QED
  BY <1>4, <1>5, <1>6 DEF MoveIsChecked

\* What no table shows, the gate does not see.
LEMMA LedgerUnchanged ==
    ASSUME UNCHANGED <<status, attempts, reviews>>, TypeOK, TypeOK'
    PROVE  UNCHANGED Gate!gateVars
<1>1. FatesKept
  BY DEF FatesKept, FateOf
<1>2. \A u, j, b : IsNewest(u, j, b)' <=> IsNewest(u, j, b)
  BY DEF IsNewest, LatestAttempts, Implementations, AttemptIds
<1>3. ReviewsKept /\ ReviewIds' = ReviewIds
  BY DEF ReviewsKept, ReviewIds
<1>4. \A b \in AttemptIds : AttemptStanding(b)' = AttemptStanding(b)
  BY <1>3, AttemptStandingKept
<1>5. \A u, j, b : IsNewest(u, j, b) => b \in AttemptIds
  BY DEF IsNewest, LatestAttempts, Implementations
<1>6. StandingsKept
  BY <1>2, <1>4, <1>5, StandingKept DEF StandingsKept
<1> QED
  BY <1>1, <1>6, GateStutters

LEMMA StepRefines ==
    ASSUME SoleClient, SoleIInv, [Next]_vars
    PROVE  Gate!Next \/ UNCHANGED Gate!gateVars
<1>0. TypeOK /\ TypeOK' /\ AttemptsKept /\ ReviewsKept /\ RememberedFactsHold
  BY RowsKept, TypeNext DEF SoleIInv, IInv
<1>1. CASE UNCHANGED attempts
  <2>1. ASSUME NEW c \in Clients, InsertReview(c) PROVE Gate!Next \/ UNCHANGED Gate!gateVars
    BY <1>0, <2>1, InsertReviewRefines
  <2>2. CASE UNCHANGED reviews
    <3>1. CASE UNCHANGED <<status, audit>>
      BY <1>0, <1>1, <2>2, <3>1, LedgerUnchanged
    <3>2. ASSUME NEW t \in Tasks, NEW to \in TaskStatus,
                 MoveTask(t, status[t], to), MoveIsChecked(t, to)
          PROVE  Gate!Next \/ UNCHANGED Gate!gateVars
      BY <1>0, <1>1, <2>2, <3>2, MoveRefines
    <3> QED
      BY <1>0, <3>1, <3>2, StepOfTasks
  <2> QED
    BY <2>1, <2>2, StepOfReviews
<1>2. ASSUME UNCHANGED <<status, reviews>>, NEW a \in AttemptIds, RowUpdated(a)
      PROVE  Gate!Next \/ UNCHANGED Gate!gateVars
  BY <1>0, <1>2, RowUpdateRefines
<1>3. ASSUME NEW c \in Clients, NEW t \in Tasks, NEW k \in AttemptKind, NEW i \in WorkItems,
             NEW p \in Providers, StartAttempt(c, t, k, i, p)
      PROVE  Gate!Next \/ UNCHANGED Gate!gateVars
  BY <1>0, <1>3, StartRefines
<1> QED
  BY <1>0, <1>1, <1>2, <1>3, StepOfAttempts

LEMMA InitRefines == Init => Gate!Init
<1> SUFFICES ASSUME Init PROVE Gate!Init
  OBVIOUS
<1>1. \A t \in Tasks : FateOf(t) = "none"
  BY DEF Init, FateOf
<1>2. \A t \in Tasks, i \in WorkItems : StandingOf(t, i) = "none"
  <2>1. \A a : \A t \in Tasks, i \in WorkItems : ~IsNewest(t, i, a)
    BY DEF Init, IsNewest, LatestAttempts, Implementations, AttemptIds
  <2> QED
    BY <2>1, TypeInit, StandingIs DEF StandingsAreOfNewest
<1> QED
  BY <1>1, <1>2 DEF Gate!Init

\* store.py, for a client that has the ledger to itself and any number of tasks,
\* work items, attempts and reviews: what the tables show of reviewed work is
\* the abstract gate.  The steps of complete_task, of record_review and of a
\* reconciliation that are not transactions of their own become single steps of
\* the gate: a task is completed only when every work item of it is approved.
THEOREM SoleClientRefinesGate ==
    ASSUME SoleClient
    PROVE  Spec => ImplementsReviewGate
<1>1. SoleIInv /\ [Next]_vars => Gate!Next \/ UNCHANGED Gate!gateVars
  BY StepRefines
<1>2. SoleIInv /\ [Next]_vars => SoleIInv'
  BY SoleIInvNext
<1> QED
  BY <1>1, <1>2, SoleIInvInit, InitRefines, PTL DEF Spec, ImplementsReviewGate, Gate!Spec
=============================================================================
