------------------------- MODULE CodexServiceProofs -------------------------
(* Theorems about CodexService, for any tasks, operators, pool size and     *)
(* bound on attempts: every step is a step of the ledger, so the theorems   *)
(* about the ledger hold of the service, and on top of them what a run ends *)
(* as is earned by its last attempt.                                        *)
EXTENDS CodexService, SequenceTheorems, TLAPS

-----------------------------------------------------------------------------
(* The ledger of the service is the ledger the theorems are about.          *)

LP == INSTANCE TaskLedgerProofs WITH
    Clients <- {Service} \cup Operators,
    WorkItems <- {"primary"}, Providers <- {"openai"}, MaxReviews <- 0

\* The two instances of the ledger are one.
LEMMA SameTypes == LP!TypeOK <=> Ledger!TypeOK
  BY DEF Ledger!TaskStatus, LP!TaskStatus, Ledger!AttemptStatus,
         LP!AttemptStatus, Ledger!AttemptKind, LP!AttemptKind,
         Ledger!Verdict, LP!Verdict, Ledger!Evidence, LP!Evidence,
         Ledger!Summary, LP!Summary, Ledger!Attempt, LP!Attempt,
         Ledger!Review, LP!Review, Ledger!Event, LP!Event, Ledger!NoCall,
         LP!NoCall, Ledger!ReviewCall, LP!ReviewCall, Ledger!CompleteCall,
         LP!CompleteCall, Ledger!ReconcileCall, LP!ReconcileCall,
         Ledger!SettleCall, LP!SettleCall, Ledger!Call, LP!Call,
         Ledger!AttemptIds, LP!AttemptIds, Ledger!TypeOK, LP!TypeOK

LEMMA SameSpec ==
    /\ LP!Init <=> Ledger!Init
    /\ [LP!Next]_(LP!vars) <=> [Ledger!Next]_(Ledger!vars)
<1>1. LP!Init <=> Ledger!Init
  BY DEF Ledger!Init, LP!Init, Ledger!NoCall, LP!NoCall
<1>2. LP!Next <=> Ledger!Next
  BY DEF Ledger!TaskStatus, LP!TaskStatus, Ledger!AttemptStatus,
         LP!AttemptStatus, Ledger!AttemptKind, LP!AttemptKind,
         Ledger!Verdict, LP!Verdict, Ledger!Evidence, LP!Evidence,
         Ledger!Summary, LP!Summary, Ledger!Attempt, LP!Attempt,
         Ledger!Review, LP!Review, Ledger!Event, LP!Event,
         Ledger!ValidTransitions, LP!ValidTransitions, Ledger!NoCall,
         LP!NoCall, Ledger!ReviewCall, LP!ReviewCall, Ledger!CompleteCall,
         LP!CompleteCall, Ledger!ReconcileCall, LP!ReconcileCall,
         Ledger!SettleCall, LP!SettleCall, Ledger!Call, LP!Call,
         Ledger!AttemptIds, LP!AttemptIds, Ledger!ReviewIds, LP!ReviewIds,
         Ledger!RunningAttempts, LP!RunningAttempts, Ledger!Implementations,
         LP!Implementations, Ledger!RunningImplementations,
         LP!RunningImplementations, Ledger!LatestAttempts,
         LP!LatestAttempts, Ledger!ReviewsOf, LP!ReviewsOf,
         Ledger!IsLatestReview, LP!IsLatestReview, Ledger!Approves,
         LP!Approves, Ledger!Idle, LP!Idle,
         Ledger!Become, LP!Become, Ledger!Abandon, LP!Abandon,
         Ledger!MoveTask, LP!MoveTask, Ledger!CreateTask, LP!CreateTask,
         Ledger!MayTransition, LP!MayTransition, Ledger!TransitionTask,
         LP!TransitionTask, Ledger!MayCancel, LP!MayCancel,
         Ledger!CancelTask, LP!CancelTask, Ledger!WorkItemFree,
         LP!WorkItemFree, Ledger!StartAttempt, LP!StartAttempt,
         Ledger!FinishRow, LP!FinishRow, Ledger!FinishAttempt,
         LP!FinishAttempt, Ledger!SetAttemptProcess, LP!SetAttemptProcess,
         Ledger!ProcessExits, LP!ProcessExits, Ledger!MayReview,
         LP!MayReview, Ledger!BuildReview, LP!BuildReview,
         Ledger!InsertReview, LP!InsertReview, Ledger!AtComplete,
         LP!AtComplete, Ledger!CompleteBegin, LP!CompleteBegin,
         Ledger!CompleteNoneRunning, LP!CompleteNoneRunning,
         Ledger!CompleteLatest, LP!CompleteLatest, Ledger!CompleteCheck,
         LP!CompleteCheck, Ledger!CompleteCommit, LP!CompleteCommit,
         Ledger!Reason, LP!Reason, Ledger!Settling, LP!Settling,
         Ledger!ReconcileBegin, LP!ReconcileBegin, Ledger!AtRow, LP!AtRow,
         Ledger!NextRow, LP!NextRow, Ledger!ReconcileSkip, LP!ReconcileSkip,
         Ledger!SeenAlive, LP!SeenAlive, Ledger!ReconcileFail,
         LP!ReconcileFail, Ledger!AtSettle, LP!AtSettle, Ledger!SettleNext,
         LP!SettleNext, Ledger!SettleStatus, LP!SettleStatus,
         Ledger!SettleRunning, LP!SettleRunning, Ledger!SettleTransition,
         LP!SettleTransition, Ledger!Settle, LP!Settle, Ledger!TaskStep,
         LP!TaskStep, Ledger!AttemptStep, LP!AttemptStep, Ledger!ReviewStep,
         LP!ReviewStep, Ledger!CompleteStep, LP!CompleteStep,
         Ledger!ReconcileStep, LP!ReconcileStep, Ledger!ClientStep,
         LP!ClientStep, Ledger!Next, LP!Next, Ledger!ledger, LP!ledger
<1> QED
  BY <1>1, <1>2 DEF LP!vars, Ledger!vars

LEMMA SameInvariants ==
    /\ LP!AuditIsCurrent <=> Ledger!AuditIsCurrent
    /\ LP!OneRunningPerItem <=> Ledger!OneRunningPerItem
    /\ LP!QuietWhenStopped <=> Ledger!QuietWhenStopped
<1>1. LP!AuditIsCurrent <=> Ledger!AuditIsCurrent
  BY DEF LP!AuditIsCurrent, Ledger!AuditIsCurrent
<1>2. LP!OneRunningPerItem <=> Ledger!OneRunningPerItem
  BY DEF LP!OneRunningPerItem, Ledger!OneRunningPerItem,
         LP!RunningImplementations, Ledger!RunningImplementations,
         LP!RunningAttempts, Ledger!RunningAttempts,
         LP!Implementations, Ledger!Implementations,
         LP!AttemptIds, Ledger!AttemptIds
<1>3. LP!QuietWhenStopped <=> Ledger!QuietWhenStopped
  BY DEF LP!QuietWhenStopped, Ledger!QuietWhenStopped,
         LP!RunningImplementations, Ledger!RunningImplementations,
         LP!RunningAttempts, Ledger!RunningAttempts,
         LP!Implementations, Ledger!Implementations,
         LP!AttemptIds, Ledger!AttemptIds
<1> QED
  BY <1>1, <1>2, <1>3

LEMMA SameFinality == LP!OutcomesAreFinal <=> Ledger!OutcomesAreFinal
  BY DEF LP!OutcomesAreFinal, Ledger!OutcomesAreFinal, LP!vars, Ledger!vars,
         LP!AttemptIds, Ledger!AttemptIds, LP!ReviewIds, Ledger!ReviewIds

\* The assumption of the ledger's theorems.
LEMMA LedgerBounds == LP!BoundsAssumption
<1>1. MaxAttempts \in Nat /\ 0 \in Nat
  BY PoolAssumption
<1> QED
  BY <1>1 DEF LP!BoundsAssumption

-----------------------------------------------------------------------------
(* The inductive invariant.                                                 *)

\* The steps of a worker between StartRun and the end of its attempt's record.
Running == {"prepare", "launch", "record", "prompt", "wait", "teardown", "late", "close",
            "cancel", "cancelTask", "fail", "failTask"}

\* The rows of attempts fit the groups, and a group begins with a launch.
GroupsFollowRows ==
    /\ Len(attempts) <= MaxAttempts
    /\ \A a \in 1..MaxAttempts : group[a] # "none" => a \in DOMAIN attempts

\* Workers start implementation attempts only.
OnlyImplementations ==
    \A a \in DOMAIN attempts : attempts[a].kind = "implementation"

\* What the worker of t may rely on at each of its steps.
Holds(t) ==
    /\ pc[t] \in Running => IsNewest(mine[t], t)
    /\ pc[t] \in {"prepare", "launch"} =>
        group[mine[t]] = "none" /\ attempts[mine[t]].status # "cancelled"
    /\ pc[t] \in {"late", "close", "cancel", "cancelTask"} => ~Observable(mine[t])
    /\ pc[t] = "close" /\ ending[t] = "ok" => attempts[mine[t]].status = "succeeded"

\* A task's older attempts have ended.
OnlyNewestRuns ==
    \A t \in Tasks : \A a \in Ledger!RunningAttempts(t) : IsNewest(a, t)

IInv ==
    /\ TypeOK
    /\ GroupsFollowRows
    /\ OnlyImplementations
    /\ OnlyNewestRuns
    /\ \A t \in Tasks : Holds(t)
    /\ OutcomeIsEarned

\* A process group that may be left of the last run of t is one its evidence tells of.
Told(t) ==
    \A a \in DOMAIN attempts :
        IsNewest(a, t) /\ Observable(a) => ending[t] = "unverified"

\* What the worker of t has handed over at each of its steps.
Hands(t) ==
    /\ pc[t] \in {"idle", "pending", "plan"} => status[t] # "running"
    /\ pc[t] \in {"idle", "pending", "plan", "start", "close", "cancelTask",
                  "failTask", "rescueTask"} => Ledger!RunningAttempts(t) = {}
    /\ pc[t] = "rescueAttempt" => Ledger!RunningAttempts(t) # {}
    /\ pc[t] \in {"idle", "pending", "plan", "start", "prepare", "launch", "late", "close",
                  "cancel", "cancelTask", "fail", "failTask", "rescue",
                  "rescueAttempt", "rescueTask"} => Told(t)

\* A request schedules only what it saw queued; a task whose worker died is then
\* one that was never started.
ScheduleIsFresh ==
    request.op = "submit" =>
        /\ request.step = "schedule" => request.seen = "queued"
        /\ request.seen = "queued" /\ pc[request.task] = "lost" =>
            /\ status[request.task] # "running"
            /\ request.step = "schedule" => AttemptsOf(request.task) = {}

SoleInv ==
    /\ IInv
    /\ \A t \in Tasks : Hands(t)
    /\ ScheduleIsFresh

-----------------------------------------------------------------------------
(* What one operation of the ledger does to the rows of attempts.           *)

\* The row of a is ended, as result, and no other row changes.
RowEnds(a, result) ==
    /\ attempts[a].status = "running"
    /\ DOMAIN attempts' = DOMAIN attempts
    /\ attempts'[a].task = attempts[a].task
    /\ attempts'[a].kind = attempts[a].kind
    /\ attempts'[a].status = result
    /\ \A b \in DOMAIN attempts : b # a => attempts'[b] = attempts[b]

\* A row of t is started.
RowStarts(t) ==
    LET n == Len(attempts) + 1
    IN  /\ n \notin DOMAIN attempts
        /\ DOMAIN attempts' = DOMAIN attempts \cup {n}
        /\ attempts'[n].task = t
        /\ attempts'[n].kind = "implementation"
        /\ attempts'[n].status = "running"
        /\ \A b \in DOMAIN attempts : attempts'[b] = attempts[b]
        /\ Len(attempts') = n

LEMMA Rows ==
    ASSUME Ledger!TypeOK
    PROVE  /\ attempts \in Seq(LP!Attempt)
           /\ Len(attempts) \in Nat
           /\ DOMAIN attempts = 1..Len(attempts)
           /\ \A a \in DOMAIN attempts :
                /\ attempts[a].task \in Tasks
                /\ attempts[a].item = "primary"
                /\ attempts[a].status \in {"running", "succeeded", "failed", "cancelled"}
<1>1. attempts \in Seq(LP!Attempt)
  BY SameTypes DEF LP!TypeOK
<1>2. Len(attempts) \in Nat /\ DOMAIN attempts = 1..Len(attempts)
  BY <1>1, LenProperties
<1>3. \A a \in DOMAIN attempts : attempts[a] \in LP!Attempt
  BY <1>1, <1>2, ElementOfSeq
<1> QED
  BY <1>1, <1>2, <1>3 DEF LP!Attempt, LP!AttemptStatus

LEMMA FinishRowEnds ==
    ASSUME Ledger!TypeOK, NEW a \in DOMAIN attempts,
           NEW result \in Ledger!AttemptStatus, NEW summary \in Ledger!Summary,
           NEW evidence \in Ledger!Evidence,
           Ledger!FinishRow(a, result, summary, evidence)
    PROVE  RowEnds(a, result)
<1>1. /\ attempts \in Seq(LP!Attempt) /\ a \in LP!AttemptIds
      /\ result \in LP!AttemptStatus /\ summary \in LP!Summary
      /\ evidence \in LP!Evidence
      /\ LP!FinishRow(a, result, summary, evidence)
  BY Rows DEF LP!AttemptIds, LP!AttemptStatus, Ledger!AttemptStatus,
              LP!Summary, Ledger!Summary, LP!Evidence, Ledger!Evidence,
              LP!FinishRow, Ledger!FinishRow
<1>2. /\ LP!AttemptIds' = LP!AttemptIds
      /\ \A b \in LP!AttemptIds : b # a => attempts'[b] = attempts[b]
      /\ attempts[a].status = "running"
      /\ LP!SameWork(attempts'[a], attempts[a])
      /\ attempts'[a].status = result
  BY <1>1, LedgerBounds, LP!FinishRowEffect
<1> QED
  BY <1>2 DEF RowEnds, LP!AttemptIds, LP!SameWork

LEMMA FinishEnds ==
    ASSUME Ledger!TypeOK, NEW a \in DOMAIN attempts,
           NEW result \in {"succeeded", "failed", "cancelled"},
           NEW evidence \in {"none", "some"},
           Ledger!FinishAttempt(Service, a, result, evidence)
    PROVE  RowEnds(a, result) /\ UNCHANGED <<status, live>>
<1>1. PICK e \in {"none", "some"} : Ledger!FinishRow(a, result, "work", e)
  BY DEF Ledger!FinishAttempt
<1>2. result \in Ledger!AttemptStatus /\ "work" \in Ledger!Summary
      /\ e \in Ledger!Evidence
  BY DEF Ledger!AttemptStatus, Ledger!Summary, Ledger!Evidence
<1> QED
  BY <1>1, <1>2, FinishRowEnds DEF Ledger!FinishAttempt

LEMMA SetProcessKeeps ==
    ASSUME Ledger!TypeOK, NEW a \in DOMAIN attempts,
           Ledger!SetAttemptProcess(Service, a)
    PROVE  /\ DOMAIN attempts' = DOMAIN attempts
           /\ attempts'[a].task = attempts[a].task
           /\ attempts'[a].kind = attempts[a].kind
           /\ attempts[a].status = "running" /\ attempts'[a].status = "running"
           /\ \A b \in DOMAIN attempts : b # a => attempts'[b] = attempts[b]
           /\ UNCHANGED status
<1>1. /\ attempts \in Seq(LP!Attempt) /\ a \in LP!AttemptIds
      /\ LP!SetAttemptProcess(Service, a)
  BY Rows DEF LP!AttemptIds, LP!SetAttemptProcess, Ledger!SetAttemptProcess,
              LP!Idle, Ledger!Idle, LP!NoCall, Ledger!NoCall
<1>2. /\ LP!AttemptIds' = LP!AttemptIds
      /\ \A b \in LP!AttemptIds : b # a => attempts'[b] = attempts[b]
      /\ attempts[a].status = "running"
      /\ LP!SameWork(attempts'[a], attempts[a])
      /\ attempts'[a].status = "running"
  BY <1>1, LedgerBounds, LP!SetProcessEffect
<1> QED
  BY <1>2 DEF LP!AttemptIds, LP!SameWork, Ledger!SetAttemptProcess

LEMMA StartStarts ==
    ASSUME Ledger!TypeOK, NEW t \in Tasks,
           Ledger!StartAttempt(Service, t, "implementation", "primary", "openai")
    PROVE  /\ RowStarts(t)
           /\ status[t] = "running"
           /\ Len(attempts) < MaxAttempts
           /\ UNCHANGED <<status, live>>
<1> DEFINE n == Len(attempts) + 1
<1>1. /\ attempts \in Seq(LP!Attempt)
      /\ "implementation" \in LP!AttemptKind
      /\ LP!StartAttempt(Service, t, "implementation", "primary", "openai")
  BY Rows DEF LP!AttemptKind, LP!StartAttempt, Ledger!StartAttempt,
              LP!Idle, Ledger!Idle, LP!NoCall, Ledger!NoCall,
              LP!WorkItemFree, Ledger!WorkItemFree,
              LP!RunningImplementations, Ledger!RunningImplementations,
              LP!RunningAttempts, Ledger!RunningAttempts,
              LP!Implementations, Ledger!Implementations,
              LP!AttemptIds, Ledger!AttemptIds
<1>2. /\ attempts' \in Seq(LP!Attempt)
      /\ LP!AttemptIds' = LP!AttemptIds \cup {n}
      /\ n \notin LP!AttemptIds
      /\ \A b \in LP!AttemptIds : attempts'[b] = attempts[b]
      /\ attempts'[n].task = t
      /\ attempts'[n].kind = "implementation"
      /\ attempts'[n].status = "running"
  BY <1>1, LedgerBounds, LP!StartEffect
<1>3. Len(attempts') = n
  <2>1. /\ DOMAIN attempts' = 1..Len(attempts') /\ Len(attempts') \in Nat
        /\ DOMAIN attempts' = 1..n /\ n \in Nat
    <3>1. DOMAIN attempts' = 1..Len(attempts') /\ Len(attempts') \in Nat
      BY <1>2, LenProperties
    <3>2. Len(attempts) \in Nat /\ DOMAIN attempts = 1..Len(attempts)
      BY Rows
    <3>3. DOMAIN attempts' = (1..Len(attempts)) \cup {n}
      BY <1>2, <3>2 DEF LP!AttemptIds
    <3>4. (1..Len(attempts)) \cup {n} = 1..n
      BY <3>2
    <3>5. n \in Nat
      BY <3>2
    <3> HIDE DEF n
    <3> QED
      BY <3>1, <3>3, <3>4, <3>5, Zenon
  <2>2. \A j, k \in Nat : 1..j = 1..k => j = k
    OBVIOUS
  <2> HIDE DEF n
  <2>3. 1..Len(attempts') = 1..n
    BY <2>1, Zenon
  <2> QED
    BY <2>1, <2>2, <2>3, Zenon
<1> QED
  BY <1>2, <1>3 DEF RowStarts, LP!AttemptIds, Ledger!StartAttempt

-----------------------------------------------------------------------------
(* Every step of the service is a step of the ledger, or leaves it alone.   *)

LEMMA InitUsesLedger == Init => Ledger!Init
  BY DEF Init

\* The attempt of a worker that runs one is a row of its task.
LEMMA MineIsARow ==
    ASSUME IInv, NEW t \in Tasks, pc[t] \in Running
    PROVE  /\ mine[t] \in DOMAIN attempts
           /\ attempts[mine[t]].task = t
           /\ mine[t] \in 1..MaxAttempts
           /\ IsNewest(mine[t], t)
<1>1. IsNewest(mine[t], t)
  BY DEF IInv, Holds
<1>2. DOMAIN attempts = 1..Len(attempts) /\ Len(attempts) \in Nat
      /\ Len(attempts) <= MaxAttempts /\ MaxAttempts \in Nat
  BY Rows, PoolAssumption DEF IInv, TypeOK, GroupsFollowRows
<1> QED
  BY <1>1, <1>2 DEF IsNewest, AttemptsOf

LEMMA StepUsesLedger ==
    ASSUME IInv, [Next]_vars
    PROVE  [Ledger!Next]_(Ledger!vars)
<1> USE DEF Ledger!AttemptIds
<1> DEFINE Uses == [Ledger!Next]_(Ledger!vars)
<1>0. Service \in {Service} \cup Operators
  OBVIOUS
\* The operations the service calls.
<1>same. ASSUME UNCHANGED <<ledger, live>> PROVE Uses
  BY <1>same DEF ledger, Ledger!vars
<1>move. ASSUME NEW t \in Tasks,
                \/ Ledger!CreateTask(Service, t)
                \/ Ledger!CancelTask(Service, t)
                \/ \E target \in Ledger!TaskStatus :
                        Ledger!TransitionTask(Service, t, target)
         PROVE  Uses
  <2>1. Ledger!TaskStep(Service)
    BY <1>move DEF Ledger!TaskStep
  <2> QED
    BY <1>0, <2>1 DEF Ledger!ClientStep, Ledger!Next
<1>start. ASSUME NEW t \in Tasks,
                 Ledger!StartAttempt(Service, t, "implementation", "primary", "openai")
          PROVE  Uses
  <2>1. Ledger!AttemptStep(Service)
    BY <1>start DEF Ledger!AttemptStep, Ledger!AttemptKind
  <2> QED
    BY <1>0, <2>1 DEF Ledger!ClientStep, Ledger!Next
<1>row. ASSUME NEW a \in DOMAIN attempts,
               \/ Ledger!SetAttemptProcess(Service, a)
               \/ \E result \in Ledger!AttemptStatus, e \in Ledger!Evidence :
                        Ledger!FinishAttempt(Service, a, result, e)
        PROVE  Uses
  <2>1. Ledger!AttemptStep(Service)
    BY <1>row DEF Ledger!AttemptStep
  <2> QED
    BY <1>0, <2>1 DEF Ledger!ClientStep, Ledger!Next
<1>dies. ASSUME NEW a \in DOMAIN attempts, live' \in {live, live \ {a}},
                UNCHANGED ledger
         PROVE  Uses
  <2>1. CASE live' = live
    BY <1>dies, <1>same, <2>1
  <2>2. CASE live' # live
    <3>1. Ledger!ProcessExits(a)
      BY <1>dies, <2>2 DEF Ledger!ProcessExits, Ledger!ledger, ledger
    <3> QED
      BY <3>1 DEF Ledger!Next
  <2> QED
    BY <2>1, <2>2
<1>end. ASSUME NEW t \in Tasks, pc[t] \in Running,
               NEW result \in {"succeeded", "failed", "cancelled"}, NEW next,
               EndAttempt(t, result, next)
        PROVE  Uses
  <2>1. mine[t] \in DOMAIN attempts
    BY <1>end, MineIsARow
  <2>2. result \in Ledger!AttemptStatus /\ {"some", "none"} \subseteq Ledger!Evidence
    BY DEF Ledger!AttemptStatus, Ledger!Evidence
  <2> QED
    BY <1>end, <1>row, <1>same, <2>1, <2>2 DEF EndAttempt
<1>leave. ASSUME NEW t \in Tasks, NEW target \in Ledger!TaskStatus,
                 LeaveRunning(t, target)
          PROVE  Uses
  BY <1>leave, <1>move, <1>same DEF LeaveRunning
<1> SUFFICES Uses
  OBVIOUS
<1> HIDE DEF Uses
\* The actions of the service.
<1>1. CASE RequestStep
  <2>1. ASSUME NEW t \in Tasks, SubmitTask(t) PROVE Uses
    BY <2>1, <1>move, <1>same DEF SubmitTask
  <2>2. ASSUME NEW t \in Tasks, CancelRead(t) PROVE Uses
    BY <2>2, <1>same DEF CancelRead
  <2>3. CASE SubmitAttempts \/ SubmitSchedule \/ CancelQueuedEvent \/ CancelRunning
    BY <2>3, <1>same DEF SubmitAttempts, SubmitSchedule, CancelQueuedEvent, CancelRunning
  <2>4. CASE CancelQueued
    <3>1. request.task \in Tasks
      BY <2>4 DEF CancelQueued, Asks, IInv, TypeOK, Request, NoRequest
    <3> QED
      BY <2>4, <3>1, <1>move, <1>same DEF CancelQueued
  <2> QED
    BY <1>1, <2>1, <2>2, <2>3, <2>4 DEF RequestStep
<1>2. ASSUME NEW t \in Tasks, WorkerStep(t) PROVE Uses
  <2>1. CASE BeginRun(t) \/ PlanFails(t) \/ PrepareFails(t) \/ CheckBeforeLaunch(t)
             \/ Launch(t) \/ WritePrompt(t) \/ WaitIsCancelled(t) \/ WaitFails(t) \/ WaitReturns(t)
             \/ Rescue(t)
    BY <2>1, <1>same DEF BeginRun, PlanFails, PrepareFails, CheckBeforeLaunch, Launch,
       WritePrompt, WaitIsCancelled, WaitFails, WaitReturns, Rescue
  <2>2. CASE CancelBeforeStart(t) \/ CancelOwnTask(t)
    BY <2>2, <1>move, <1>same DEF CancelBeforeStart, CancelOwnTask
  <2>3. CASE MoveToRunning(t)
    BY <2>3, <1>move, <1>same DEF MoveToRunning, Ledger!TaskStatus
  <2>4. CASE StartRun(t)
    BY <2>4, <1>start, <1>same DEF StartRun
  <2>5. CASE RecordProcess(t)
    <3>1. mine[t] \in DOMAIN attempts
      BY <2>5, MineIsARow DEF RecordProcess, At, Running
    <3> QED
      BY <2>5, <3>1, <1>row, <1>same DEF RecordProcess
  <2>6. CASE Teardown(t)
    <3>1. mine[t] \in DOMAIN attempts
      BY <2>6, MineIsARow DEF Teardown, At, Running
    <3> QED
      BY <2>6, <3>1, <1>dies DEF Teardown
  <2>7. CASE FinishRun(t)
    BY <2>7, <1>end, <1>same DEF FinishRun, At, Running
  <2>8. CASE CancelOwnAttempt(t) \/ FailAttempt(t)
    BY <2>8, <1>end DEF CancelOwnAttempt, FailAttempt, At, Running
  <2>9. CASE CloseRun(t) \/ FailTask(t)
    BY <2>9, <1>leave DEF CloseRun, FailTask, Ledger!TaskStatus
  <2>10. CASE RescueAttempt(t)
    <3>1. Ledger!RunningAttempts(t) \subseteq DOMAIN attempts
      BY DEF Ledger!RunningAttempts
    <3>2. "failed" \in Ledger!AttemptStatus /\ "none" \in Ledger!Evidence
      BY DEF Ledger!AttemptStatus, Ledger!Evidence
    <3> QED
      BY <2>10, <3>1, <3>2, <1>row, <1>same DEF RescueAttempt
  <2>11. CASE RescueTask(t)
    BY <2>11, <1>move, <1>same DEF RescueTask, Ledger!TaskStatus
  <2> QED
    BY <1>2, <2>1, <2>2, <2>3, <2>4, <2>5, <2>6, <2>7, <2>8, <2>9, <2>10, <2>11
    DEF WorkerStep
<1>3. CASE GroupStep
  BY <1>3, <1>dies, <1>same DEF GroupStep, OrphansExit, LeaderExits
<1>4. CASE LifeStep
  BY <1>4, <1>same DEF LifeStep, CloseSignals, Exit, Crash, Restart, DropPending
<1>5. CASE OperatorStep
  BY <1>5 DEF OperatorStep, Ledger!ClientStep, Ledger!Next, Uses
<1>6. CASE UNCHANGED vars
  BY <1>6, <1>same DEF vars
<1> QED
  BY <1>1, <1>2, <1>3, <1>4, <1>5, <1>6 DEF Next

-----------------------------------------------------------------------------
(* Type correctness.                                                        *)

\* No row is lost, and one that ended is frozen.
RowsKept ==
    \A a \in DOMAIN attempts :
        /\ a \in DOMAIN attempts'
        /\ attempts'[a].task = attempts[a].task
        /\ attempts'[a].kind = attempts[a].kind
        /\ attempts[a].status # "running" => attempts'[a] = attempts[a]

LEMMA LedgerKept ==
    ASSUME IInv, [Next]_vars
    PROVE  Ledger!TypeOK' /\ RowsKept
<1>1. LP!TypeOK /\ [LP!Next]_(LP!vars)
  BY StepUsesLedger, SameSpec, SameTypes DEF IInv, TypeOK
<1>2. LP!TypeOK'
  BY <1>1, LedgerBounds, LP!TypeNext
<1>3. LP!TypeOK' <=> Ledger!TypeOK'
  BY SameTypes, PTL
<1>4. LP!AttemptsKept
  BY <1>1, LedgerBounds, LP!RowsKept
<1> QED
  BY <1>2, <1>3, <1>4 DEF RowsKept, LP!AttemptsKept, LP!AttemptIds, LP!SameWork

\* The variables of the service other than mine have their types after a step.
ControlOK ==
    /\ phase \in {"up", "closing", "down"}
    /\ request \in Request
    /\ pc \in [Tasks -> Step]
    /\ ending \in [Tasks -> Ending]
    /\ cancelSet \in [Tasks -> BOOLEAN]
    /\ accepted \in [Tasks -> {"no", "early", "late"}]
    /\ group \in [1..MaxAttempts -> GroupState]

LEMMA GotoType ==
    ASSUME pc \in [Tasks -> Step], NEW t \in Tasks, NEW s \in Step, Goto(t, s)
    PROVE  /\ pc' \in [Tasks -> Step]
           /\ pc'[t] = s
           /\ \A u \in Tasks : u # t => pc'[u] = pc[u]
  BY DEF Goto

LEMMA EndAsType ==
    ASSUME ending \in [Tasks -> Ending], NEW t \in Tasks, NEW how \in Ending,
           EndAs(t, how)
    PROVE  /\ ending' \in [Tasks -> Ending]
           /\ ending'[t] = how
           /\ \A u \in Tasks : u # t => ending'[u] = ending[u]
  BY DEF EndAs

LEMMA GroupType ==
    ASSUME group \in [1..MaxAttempts -> GroupState], NEW a \in 1..MaxAttempts,
           NEW g \in GroupState, group' = [group EXCEPT ![a] = g]
    PROVE  /\ group' \in [1..MaxAttempts -> GroupState]
           /\ group'[a] = g
           /\ \A b \in 1..MaxAttempts : b # a => group'[b] = group[b]
  OBVIOUS

\* A worker's step leaves the state of the other workers alone ...
WorkerLocal(t) ==
    /\ pc' \in [Tasks -> Step]
    /\ ending' \in [Tasks -> Ending]
    /\ group' \in [1..MaxAttempts -> GroupState]
    /\ \A u \in Tasks : u # t =>
        pc'[u] = pc[u] /\ ending'[u] = ending[u] /\ mine'[u] = mine[u]
    /\ \A a \in DOMAIN group : group'[a] # group[a] =>
        /\ pc[t] \in {"launch", "teardown"} /\ a = mine[t]
        /\ pc[t] = "teardown" => group'[a] = "gone"
    /\ UNCHANGED control

LEMMA WorkersAreLocal ==
    ASSUME IInv, NEW t \in Tasks, WorkerStep(t)
    PROVE  WorkerLocal(t)
<1>0. /\ pc \in [Tasks -> Step] /\ ending \in [Tasks -> Ending]
      /\ group \in [1..MaxAttempts -> GroupState]
  BY DEF IInv, TypeOK
<1>s. {"idle", "plan", "start", "prepare", "launch", "record", "prompt", "wait", "teardown",
       "late", "close", "cancel", "cancelTask", "fail", "failTask", "rescue",
       "rescueAttempt", "rescueTask"} \subseteq Step
  BY DEF Step
<1>e. {"none", "ok", "error", "cancel", "survived", "unverified", "reader"} \subseteq Ending
  BY DEF Ending
<1>goto. ASSUME NEW s \in Step, Goto(t, s), UNCHANGED <<mine, ending, group, control>>
         PROVE  WorkerLocal(t)
  BY <1>0, <1>goto, GotoType DEF WorkerLocal
<1>ends. ASSUME NEW s \in Step, Goto(t, s), NEW how \in Ending, EndAs(t, how),
                UNCHANGED <<mine, group, control>>
         PROVE  WorkerLocal(t)
  BY <1>0, <1>ends, GotoType, EndAsType DEF WorkerLocal
<1> USE <1>s, <1>e
<1>1. CASE BeginRun(t) \/ PlanFails(t) \/ PrepareFails(t) \/ CheckBeforeLaunch(t)
           \/ CancelBeforeStart(t) \/ CancelOwnTask(t) \/ MoveToRunning(t)
  BY <1>1, <1>goto DEF BeginRun, PlanFails, PrepareFails, CheckBeforeLaunch,
     CancelBeforeStart, CancelOwnTask, MoveToRunning
<1>2. CASE CloseRun(t) \/ FailTask(t) \/ Rescue(t) \/ RescueAttempt(t)
           \/ RescueTask(t)
  BY <1>2, <1>goto DEF CloseRun, FailTask, Rescue, RescueAttempt, RescueTask
<1>3. CASE FinishRun(t) \/ CancelOwnAttempt(t) \/ FailAttempt(t)
  BY <1>3, <1>goto DEF FinishRun, CancelOwnAttempt, FailAttempt, EndAttempt
<1>4. CASE WritePrompt(t) \/ WaitIsCancelled(t) \/ WaitFails(t) \/ WaitReturns(t)
  BY <1>4, <1>goto, <1>ends DEF WritePrompt, WaitIsCancelled, WaitFails, WaitReturns
<1>5. CASE StartRun(t)
  <2>1. CASE EndAs(t, "none") /\ Goto(t, "prepare")
             /\ mine' = [mine EXCEPT ![t] = Len(attempts')]
    <3>1. /\ pc' \in [Tasks -> Step] /\ ending' \in [Tasks -> Ending]
          /\ \A u \in Tasks : u # t => pc'[u] = pc[u] /\ ending'[u] = ending[u]
      BY <1>0, <2>1, GotoType, EndAsType
    <3>2. \A u \in Tasks : u # t => mine'[u] = mine[u]
      BY <2>1 DEF IInv, TypeOK
    <3> QED
      BY <1>0, <1>5, <3>1, <3>2 DEF WorkerLocal, StartRun
  <2>2. CASE Goto(t, "rescue") /\ UNCHANGED <<mine, ending>>
    BY <1>5, <2>2, <1>goto DEF StartRun
  <2> QED
    BY <1>5, <2>1, <2>2 DEF StartRun
<1>6. CASE RecordProcess(t)
  BY <1>6, <1>goto, <1>ends DEF RecordProcess
<1>7. CASE Launch(t)
  <2>0. pc[t] \in Running /\ mine[t] \in 1..MaxAttempts
    BY <1>7, MineIsARow DEF Launch, At, Running
  <2>1. CASE group' = [group EXCEPT ![mine[t]] = "led"] /\ Goto(t, "record")
             /\ UNCHANGED ending
    <3>1. "led" \in GroupState
      BY DEF GroupState
    <3>2. /\ group' \in [1..MaxAttempts -> GroupState]
          /\ \A b \in 1..MaxAttempts : b # mine[t] => group'[b] = group[b]
      BY <1>0, <2>0, <2>1, <3>1
    <3>3. /\ pc' \in [Tasks -> Step]
          /\ \A u \in Tasks : u # t => pc'[u] = pc[u]
      BY <1>0, <2>1, GotoType
    <3> QED
      BY <1>0, <1>7, <2>0, <2>1, <3>2, <3>3 DEF WorkerLocal, Launch, At
  <2>2. CASE EndAs(t, "error") /\ Goto(t, "fail") /\ UNCHANGED group
    BY <1>7, <2>2, <1>ends DEF Launch
  <2> QED
    BY <1>7, <2>1, <2>2 DEF Launch
<1>8. CASE Teardown(t)
  <2>0. pc[t] \in Running /\ mine[t] \in 1..MaxAttempts
    BY <1>8, MineIsARow DEF Teardown, At, Running
  <2>1. CASE group' = [group EXCEPT ![mine[t]] = "gone"] /\ AfterTeardown(t)
    <3>1. "gone" \in GroupState
      BY DEF GroupState
    <3>2. /\ group' \in [1..MaxAttempts -> GroupState]
          /\ \A b \in 1..MaxAttempts : b # mine[t] => group'[b] = group[b]
      BY <1>0, <2>0, <2>1, <3>1
    <3>3. \E s \in Step : Goto(t, s)
      BY <2>1 DEF AfterTeardown
    <3>4. /\ pc' \in [Tasks -> Step]
          /\ \A u \in Tasks : u # t => pc'[u] = pc[u]
      BY <1>0, <3>3, GotoType
    <3>5. UNCHANGED ending \/ \E how \in Ending : EndAs(t, how)
      BY <2>1 DEF AfterTeardown
    <3>6. /\ ending' \in [Tasks -> Ending]
          /\ \A u \in Tasks : u # t => ending'[u] = ending[u]
      BY <1>0, <3>5, EndAsType
    <3> QED
      BY <1>0, <1>8, <2>0, <3>2, <3>4, <3>6 DEF WorkerLocal, Teardown, At
  <2>2. CASE EndAs(t, "unverified") /\ Goto(t, "fail") /\ UNCHANGED group
    BY <1>8, <2>2, <1>ends DEF Teardown
  <2> QED
    BY <1>8, <2>1, <2>2 DEF Teardown
<1> QED
  BY <1>1, <1>2, <1>3, <1>4, <1>5, <1>6, <1>7, <1>8 DEF WorkerStep

-----------------------------------------------------------------------------
(* What a step does to the rows and the tasks of the ledger.                *)

\* A step ends a row of t, or records its process; only the worker of t
\* records it as cancelled.
RowUpdated(t, a) ==
    /\ attempts[a].task = t
    /\ attempts[a].status = "running"
    /\ DOMAIN attempts' = DOMAIN attempts
    /\ attempts'[a].task = t
    /\ attempts'[a].kind = attempts[a].kind
    /\ attempts'[a].status = "cancelled" => pc[t] = "cancel" /\ a = mine[t]
    /\ \A b \in DOMAIN attempts : b # a => attempts'[b] = attempts[b]

\* The worker of t starts a row of its task.
WorkerStarts(t) ==
    /\ pc[t] = "start" /\ pc'[t] = "prepare"
    /\ status[t] = "running"
    /\ \A a \in Ledger!RunningImplementations(t) : attempts[a].item # "primary"
    /\ RowStarts(t)
    /\ Len(attempts) < MaxAttempts
    /\ mine' = [mine EXCEPT ![t] = Len(attempts')]
    /\ UNCHANGED <<status, group>>

LEMMA WorkerRows ==
    ASSUME IInv, NEW t \in Tasks, WorkerStep(t)
    PROVE  \/ UNCHANGED <<attempts, mine>>
           \/ /\ \E a \in DOMAIN attempts : RowUpdated(t, a)
              /\ UNCHANGED <<status, mine>>
           \/ WorkerStarts(t)
<1>0. Ledger!TypeOK
  BY DEF IInv, TypeOK
<1> USE DEF ledger
<1>move. ASSUME \/ UNCHANGED <<ledger, live>>
                \/ Ledger!CancelTask(Service, t)
                \/ \E target : Ledger!TransitionTask(Service, t, target)
         PROVE  UNCHANGED attempts
  BY <1>move DEF Ledger!CancelTask, Ledger!TransitionTask
<1>end. ASSUME NEW result \in {"succeeded", "failed", "cancelled"}, NEW next,
               pc[t] \in Running, result = "cancelled" => pc[t] = "cancel",
               EndAttempt(t, result, next)
        PROVE  UNCHANGED attempts \/ (RowUpdated(t, mine[t]) /\ UNCHANGED status)
  <2>1. mine[t] \in DOMAIN attempts /\ attempts[mine[t]].task = t
    BY <1>end, MineIsARow
  <2>2. CASE \E e \in {"none", "some"} : Ledger!FinishAttempt(Service, mine[t], result, e)
    <3>1. RowEnds(mine[t], result) /\ UNCHANGED status
      BY <1>0, <2>1, <2>2, FinishEnds
    <3> QED
      BY <1>end, <2>1, <3>1 DEF RowEnds, RowUpdated
  <2>3. CASE UNCHANGED attempts
    BY <2>3
  <2> QED
    BY <1>end, <2>2, <2>3 DEF EndAttempt
<1>1. CASE BeginRun(t) \/ PlanFails(t) \/ PrepareFails(t) \/ CheckBeforeLaunch(t)
           \/ Launch(t) \/ WritePrompt(t) \/ WaitIsCancelled(t) \/ WaitFails(t) \/ WaitReturns(t)
           \/ Rescue(t) \/ Teardown(t)
  BY <1>1 DEF BeginRun, PlanFails, PrepareFails, CheckBeforeLaunch, Launch,
     WritePrompt, WaitIsCancelled, WaitFails, WaitReturns, Rescue, Teardown
<1>2. CASE CancelBeforeStart(t) \/ CancelOwnTask(t) \/ MoveToRunning(t) \/ CloseRun(t)
           \/ FailTask(t) \/ RescueTask(t)
  BY <1>2, <1>move DEF CancelBeforeStart, CancelOwnTask, MoveToRunning, CloseRun,
     FailTask, RescueTask, LeaveRunning
<1>3. CASE StartRun(t)
  <2>1. CASE /\ Ledger!StartAttempt(Service, t, "implementation", "primary", "openai")
             /\ mine' = [mine EXCEPT ![t] = Len(attempts')]
             /\ Goto(t, "prepare")
    <3>1. /\ RowStarts(t) /\ status[t] = "running" /\ Len(attempts) < MaxAttempts
          /\ UNCHANGED status
      BY <1>0, <2>1, StartStarts
    <3>2. \A a \in Ledger!RunningImplementations(t) : attempts[a].item # "primary"
      BY <2>1 DEF Ledger!StartAttempt, Ledger!WorkItemFree
    <3>3. pc[t] = "start" /\ pc'[t] = "prepare" /\ UNCHANGED group
      BY <1>3, <2>1 DEF StartRun, At, Goto, IInv, TypeOK
    <3> QED
      BY <2>1, <3>1, <3>2, <3>3 DEF WorkerStarts
  <2>2. CASE UNCHANGED <<ledger, live, mine, ending>>
    BY <2>2
  <2> QED
    BY <1>3, <2>1, <2>2 DEF StartRun
<1>4. CASE RecordProcess(t)
  <2>1. mine[t] \in DOMAIN attempts /\ attempts[mine[t]].task = t
    BY <1>4, MineIsARow DEF RecordProcess, At, Running
  <2>2. CASE Ledger!SetAttemptProcess(Service, mine[t])
    <3>1. RowUpdated(t, mine[t]) /\ UNCHANGED status
      BY <1>0, <2>1, <2>2, SetProcessKeeps DEF RowUpdated
    <3> QED
      BY <1>4, <2>1, <3>1 DEF RecordProcess
  <2>3. CASE UNCHANGED <<ledger, live>>
    BY <1>4, <2>3 DEF RecordProcess
  <2> QED
    BY <1>4, <2>2, <2>3 DEF RecordProcess
<1>5. CASE FinishRun(t) \/ CancelOwnAttempt(t) \/ FailAttempt(t)
  <2>1. pc[t] \in Running /\ UNCHANGED mine
    BY <1>5 DEF FinishRun, CancelOwnAttempt, FailAttempt, At, Running
  <2>2. mine[t] \in DOMAIN attempts
    BY <2>1, MineIsARow
  <2>3. UNCHANGED attempts \/ (RowUpdated(t, mine[t]) /\ UNCHANGED status)
    BY <1>5, <2>1, <1>end DEF FinishRun, CancelOwnAttempt, FailAttempt, At
  <2> QED
    BY <2>1, <2>2, <2>3
<1>6. CASE RescueAttempt(t)
  <2>1. CASE \E a \in Ledger!RunningAttempts(t) :
                Ledger!FinishAttempt(Service, a, "failed", "none")
    <3>1. PICK a \in DOMAIN attempts :
            attempts[a].task = t /\ Ledger!FinishAttempt(Service, a, "failed", "none")
      BY <2>1 DEF Ledger!RunningAttempts, Ledger!AttemptIds
    <3>2. RowEnds(a, "failed") /\ UNCHANGED status
      BY <1>0, <3>1, FinishEnds
    <3> QED
      BY <1>6, <3>1, <3>2 DEF RescueAttempt, RowEnds, RowUpdated
  <2>2. CASE UNCHANGED <<ledger, live>>
    BY <1>6, <2>2 DEF RescueAttempt
  <2> QED
    BY <1>6, <2>1, <2>2 DEF RescueAttempt
<1> QED
  BY <1>1, <1>2, <1>3, <1>4, <1>5, <1>6 DEF WorkerStep

\* A worker moves its own task; to needs_review only after a success.
LEMMA WorkerMoves ==
    ASSUME IInv, NEW t \in Tasks, WorkerStep(t)
    PROVE  /\ \A u \in Tasks : u # t => status'[u] = status[u]
           /\ status'[t] = "needs_review" =>
                \/ status[t] = "needs_review"
                \/ pc[t] = "close" /\ ending[t] = "ok" /\ UNCHANGED attempts
<1> DEFINE Moves(target) ==
        /\ \A u \in Tasks : u # t => status'[u] = status[u]
        /\ status'[t] \in {status[t], target}
<1> USE DEF ledger
<1>0. status \in [Tasks -> Ledger!TaskStatus \cup {"absent"}]
  BY DEF IInv, TypeOK, Ledger!TypeOK
<1>move. ASSUME NEW target,
                \/ UNCHANGED status
                \/ target = "cancelled" /\ Ledger!CancelTask(Service, t)
                \/ Ledger!TransitionTask(Service, t, target)
         PROVE  Moves(target)
  BY <1>0, <1>move DEF Ledger!CancelTask, Ledger!TransitionTask, Ledger!MoveTask
<1>1. CASE BeginRun(t) \/ PlanFails(t) \/ PrepareFails(t) \/ CheckBeforeLaunch(t)
           \/ Launch(t) \/ WritePrompt(t) \/ WaitIsCancelled(t) \/ WaitFails(t) \/ WaitReturns(t)
           \/ Rescue(t) \/ Teardown(t)
  BY <1>1 DEF BeginRun, PlanFails, PrepareFails, CheckBeforeLaunch, Launch,
     WritePrompt, WaitIsCancelled, WaitFails, WaitReturns, Rescue, Teardown
<1>2. CASE FinishRun(t) \/ CancelOwnAttempt(t) \/ FailAttempt(t) \/ RescueAttempt(t)
           \/ StartRun(t) \/ RecordProcess(t)
  BY <1>2 DEF FinishRun, CancelOwnAttempt, FailAttempt, RescueAttempt, StartRun,
     RecordProcess, EndAttempt, Ledger!FinishAttempt, Ledger!StartAttempt,
     Ledger!SetAttemptProcess
<1>3. CASE CancelBeforeStart(t) \/ CancelOwnTask(t)
  <2>1. Moves("cancelled")
    BY <1>3, <1>move DEF CancelBeforeStart, CancelOwnTask
  <2> QED
    BY <2>1
<1>4. CASE MoveToRunning(t)
  <2>1. Moves("running")
    BY <1>4, <1>move DEF MoveToRunning
  <2> QED
    BY <2>1
<1>5. CASE RescueTask(t)
  <2>1. Moves("failed")
    BY <1>5, <1>move DEF RescueTask
  <2> QED
    BY <2>1
<1>6. CASE FailTask(t)
  <2>1. Moves("blocked") \/ Moves("failed")
    BY <1>6, <1>move DEF FailTask, LeaveRunning
  <2> QED
    BY <2>1
<1>7. CASE CloseRun(t)
  <2>1. CASE ending[t] = "ok"
    <3>1. Moves("needs_review") /\ pc[t] = "close"
      BY <1>7, <2>1, <1>move DEF CloseRun, LeaveRunning, At
    <3>2. UNCHANGED attempts
      BY <1>7 DEF CloseRun, LeaveRunning, Ledger!TransitionTask
    <3> QED
      BY <2>1, <3>1, <3>2
  <2>2. CASE ending[t] # "ok"
    <3>1. Moves("failed")
      BY <1>7, <2>2, <1>move DEF CloseRun, LeaveRunning
    <3> QED
      BY <3>1
  <2> QED
    BY <2>1, <2>2
<1> QED
  BY <1>1, <1>2, <1>3, <1>4, <1>5, <1>6, <1>7 DEF WorkerStep

\* A step of a request, of a process group, of the service's life or of an operator.
OtherStep == RequestStep \/ GroupStep \/ LifeStep \/ OperatorStep

LEMMA OperatorRows ==
    ASSUME IInv, NEW o \in Operators, Ledger!ReconcileStep(o) \/ Ledger!Abandon(o)
    PROVE  /\ \/ UNCHANGED attempts
              \/ \E a \in DOMAIN attempts : RowEnds(a, "failed")
           /\ \A t \in Tasks : status'[t] \in {status[t], "failed"}
<1> USE DEF Ledger!AttemptIds
<1>0. Ledger!TypeOK /\ status \in [Tasks -> Ledger!TaskStatus \cup {"absent"}]
      /\ call \in [{Service} \cup Operators -> Ledger!Call]
  BY DEF IInv, TypeOK, Ledger!TypeOK
<1>1. ASSUME NEW a \in DOMAIN attempts, Ledger!ReconcileFail(o, a)
      PROVE  UNCHANGED attempts \/ RowEnds(a, "failed")
  <2>1. CASE UNCHANGED attempts
    BY <2>1
  <2>2. CASE Ledger!FinishRow(a, "failed", Ledger!Reason(call[o].force), "none")
    <3>1. /\ Ledger!Reason(call[o].force) \in Ledger!Summary
          /\ "failed" \in Ledger!AttemptStatus /\ "none" \in Ledger!Evidence
      BY DEF Ledger!Reason, Ledger!Summary, Ledger!AttemptStatus, Ledger!Evidence
    <3> QED
      BY <1>0, <2>2, <3>1, FinishRowEnds
  <2> QED
    BY <1>1, <2>1, <2>2 DEF Ledger!ReconcileFail
<1>2. CASE \E force \in BOOLEAN : Ledger!ReconcileBegin(o, force)
  BY <1>2 DEF Ledger!ReconcileBegin, Ledger!ledger
<1>3. CASE \E a \in DOMAIN attempts : Ledger!ReconcileSkip(o, a)
  BY <1>3 DEF Ledger!ReconcileSkip, Ledger!ledger
<1>4. CASE \E a \in DOMAIN attempts : Ledger!ReconcileFail(o, a)
  BY <1>1, <1>4 DEF Ledger!ReconcileFail
<1>5. CASE Ledger!SettleStatus(o) \/ Ledger!SettleRunning(o) \/ Ledger!Abandon(o)
  BY <1>5 DEF Ledger!SettleStatus, Ledger!SettleRunning, Ledger!Abandon, Ledger!ledger
<1>6. CASE Ledger!SettleTransition(o)
  BY <1>0, <1>6 DEF Ledger!SettleTransition, Ledger!MoveTask
<1> QED
  BY <1>2, <1>3, <1>4, <1>5, <1>6 DEF Ledger!ReconcileStep, Ledger!Settle

\* What the other steps do.
OtherEffect ==
    /\ \A t \in Tasks : pc'[t] \in {pc[t], "idle", "lost", "pending"}
    /\ UNCHANGED <<mine, ending>>
    /\ \A a \in 1..MaxAttempts : group'[a] # group[a] =>
        Observable(a) /\ group'[a] \in {"orphaned", "gone"}
    /\ UNCHANGED attempts \/ \E a \in DOMAIN attempts : RowEnds(a, "failed")
    /\ \A t \in Tasks : status'[t] = "needs_review" => status[t] = "needs_review"

LEMMA OthersEffect ==
    ASSUME IInv, OtherStep
    PROVE  OtherEffect /\ ControlOK'
<1> USE DEF ledger, worker, control
<1>0. /\ ControlOK
      /\ status \in [Tasks -> Ledger!TaskStatus \cup {"absent"}]
      /\ DOMAIN attempts = 1..Len(attempts) /\ Len(attempts) \in Nat
      /\ Len(attempts) <= MaxAttempts /\ MaxAttempts \in Nat
  BY Rows, PoolAssumption DEF IInv, TypeOK, ControlOK, Ledger!TypeOK, GroupsFollowRows
<1>s. {"idle", "lost", "pending"} \subseteq Step
  BY DEF Step
<1>1. ASSUME NEW t \in Tasks, SubmitTask(t) PROVE OtherEffect /\ ControlOK'
  <2>1. /\ UNCHANGED attempts
        /\ \A u \in Tasks : status'[u] \in {status[u], "queued"}
        /\ status'[t] \in Ledger!TaskStatus
    BY <1>0, <1>1 DEF SubmitTask, Ledger!CreateTask, Ledger!MoveTask, Ledger!TaskStatus
  <2>2. request' \in Request
    BY <1>1, <2>1 DEF SubmitTask, Request
  <2> QED
    BY <1>0, <1>1, <2>1, <2>2 DEF SubmitTask, OtherEffect, ControlOK
<1>2. ASSUME NEW t \in Tasks, CancelRead(t) PROVE OtherEffect /\ ControlOK'
  <2>1. request' \in Request
    BY <1>2 DEF CancelRead, Request
  <2> QED
    BY <1>0, <1>2, <2>1 DEF CancelRead, OtherEffect, ControlOK
<1>n. NoRequest \in Request
  BY DEF Request
<1>3. CASE SubmitAttempts
  <2>1. request' \in Request
    BY <1>0, <1>n, <1>3 DEF SubmitAttempts, ControlOK, Request, Asks, NoRequest
  <2> QED
    BY <1>0, <1>3, <2>1 DEF SubmitAttempts, OtherEffect, ControlOK
<1>t. request.op # "none" => request.task \in Tasks
  BY <1>0 DEF ControlOK, Request, NoRequest
<1>4. CASE SubmitSchedule
  <2> DEFINE t == request.task
  <2>1. t \in Tasks
    BY <1>4, <1>t DEF SubmitSchedule, Asks
  <2>2. /\ pc' \in [Tasks -> Step]
        /\ \A u \in Tasks : pc'[u] \in {pc[u], "pending"}
    BY <1>0, <1>4, <1>s, <2>1, GotoType DEF SubmitSchedule, ControlOK
  <2>3. /\ cancelSet' \in [Tasks -> BOOLEAN]
        /\ accepted' \in [Tasks -> {"no", "early", "late"}]
    BY <1>0, <1>4, <2>1 DEF SubmitSchedule, ControlOK
  <2> QED
    BY <1>0, <1>n, <1>4, <2>2, <2>3 DEF SubmitSchedule, OtherEffect, ControlOK
<1>c. ASSUME NEW t \in Tasks, SignalCancel(t) PROVE cancelSet' \in [Tasks -> BOOLEAN]
  <2>1. (cancelSet[t] \/ Owned(t)) \in BOOLEAN
    BY <1>0 DEF ControlOK, Owned
  <2> QED
    BY <1>0, <1>c, <2>1 DEF SignalCancel, ControlOK
<1>a. ASSUME NEW t \in Tasks, AcceptCancel(t) \/ UNCHANGED accepted
      PROVE  accepted' \in [Tasks -> {"no", "early", "late"}]
  BY <1>0, <1>a DEF AcceptCancel, ControlOK
<1>5. CASE CancelQueuedEvent
  <2>1. cancelSet' \in [Tasks -> BOOLEAN]
    BY <1>5, <1>c, <1>t DEF CancelQueuedEvent, Asks
  <2>2. request' \in Request
    BY <1>0, <1>5 DEF CancelQueuedEvent, ControlOK, Request, Asks, NoRequest
  <2> QED
    BY <1>0, <1>5, <2>1, <2>2 DEF CancelQueuedEvent, OtherEffect, ControlOK
<1>6. CASE CancelQueued
  <2>1. request.task \in Tasks
    BY <1>6, <1>t DEF CancelQueued, Asks
  <2>2. accepted' \in [Tasks -> {"no", "early", "late"}]
    BY <1>6, <1>a, <2>1 DEF CancelQueued
  <2>3. UNCHANGED attempts /\ \A u \in Tasks : status'[u] \in {status[u], "cancelled"}
    BY <1>0, <1>6, <2>1 DEF CancelQueued, Ledger!CancelTask, Ledger!MoveTask
  <2> QED
    BY <1>0, <1>n, <1>6, <2>2, <2>3 DEF CancelQueued, OtherEffect, ControlOK
<1>7. CASE CancelRunning
  <2>1. request.task \in Tasks
    BY <1>7, <1>t DEF CancelRunning, Asks
  <2>2. /\ accepted' \in [Tasks -> {"no", "early", "late"}]
        /\ cancelSet' \in [Tasks -> BOOLEAN]
    BY <1>7, <1>a, <1>c, <2>1 DEF CancelRunning
  <2> QED
    BY <1>0, <1>n, <1>7, <2>2 DEF CancelRunning, OtherEffect, ControlOK
<1>8. CASE GroupStep
  <2>1. PICK a \in DOMAIN attempts : OrphansExit(a) \/ \E t \in Tasks : LeaderExits(t, a)
    BY <1>8 DEF GroupStep
  <2>2. a \in 1..MaxAttempts /\ {"orphaned", "gone"} \subseteq GroupState
    BY <1>0 DEF GroupState
  <2>3. PICK g \in {"orphaned", "gone"} : group' = [group EXCEPT ![a] = g]
    BY <2>1 DEF OrphansExit, LeaderExits
  <2>4. Observable(a)
    BY <2>1 DEF OrphansExit, LeaderExits, Observable
  <2>5. /\ group' \in [1..MaxAttempts -> GroupState]
        /\ group'[a] = g
        /\ \A b \in 1..MaxAttempts : b # a => group'[b] = group[b]
    BY <1>0, <2>2, <2>3, GroupType DEF ControlOK
  <2>6. UNCHANGED <<attempts, status, pc, mine, ending, phase, request, cancelSet, accepted>>
    BY <2>1 DEF OrphansExit, LeaderExits
  <2> QED
    BY <1>0, <2>4, <2>5, <2>6 DEF OtherEffect, ControlOK
<1>9. CASE CloseSignals
  <2>1. cancelSet' \in [Tasks -> BOOLEAN]
    BY <1>0, <1>9 DEF CloseSignals, ControlOK, Owned
  <2> QED
    BY <1>0, <1>9, <2>1 DEF CloseSignals, OtherEffect, ControlOK
<1>10. CASE Exit \/ Restart
  BY <1>0, <1>10 DEF Exit, Restart, OtherEffect, ControlOK
<1>11. CASE Crash
  BY <1>0, <1>n, <1>s, <1>11 DEF Crash, OtherEffect, ControlOK
<1>12. ASSUME NEW t \in Tasks, DropPending(t) PROVE OtherEffect /\ ControlOK'
  <2>1. /\ pc' \in [Tasks -> Step]
        /\ \A u \in Tasks : pc'[u] \in {pc[u], "idle"}
    BY <1>0, <1>12, <1>s, GotoType DEF DropPending, ControlOK
  <2> QED
    BY <1>0, <1>12, <2>1 DEF DropPending, OtherEffect, ControlOK
<1>13. CASE OperatorStep
  <2>1. /\ \/ UNCHANGED attempts
           \/ \E a \in DOMAIN attempts : RowEnds(a, "failed")
        /\ \A t \in Tasks : status'[t] \in {status[t], "failed"}
    BY <1>13, OperatorRows DEF OperatorStep
  <2> QED
    BY <1>0, <1>13, <2>1 DEF OperatorStep, OtherEffect, ControlOK
<1> QED
  BY <1>1, <1>2, <1>3, <1>4, <1>5, <1>6, <1>7, <1>8, <1>9, <1>10, <1>11, <1>12, <1>13
  DEF OtherStep, RequestStep, LifeStep

LEMMA NextIsWorkerOrOther ==
    ASSUME [Next]_vars
    PROVE  UNCHANGED vars \/ OtherStep \/ \E t \in Tasks : WorkerStep(t)
  BY DEF Next, OtherStep

\* The worker keeps the number of the attempt it started, a row of its task.
LEMMA TypeKept ==
    ASSUME IInv, [Next]_vars
    PROVE  TypeOK'
<1>0. Ledger!TypeOK' /\ RowsKept /\ TypeOK
  BY LedgerKept DEF IInv
<1>rows. DOMAIN attempts = 1..Len(attempts) /\ Len(attempts) \in Nat /\ MaxAttempts \in Nat
  BY <1>0, Rows, PoolAssumption DEF TypeOK
<1>same. ASSUME UNCHANGED mine, ControlOK' PROVE TypeOK'
  <2>1. \A t \in Tasks : mine'[t] # 0 => mine'[t] \in AttemptsOf(t)'
    BY <1>0, <1>same DEF TypeOK, AttemptsOf, RowsKept
  <2> QED
    BY <1>0, <1>same, <2>1 DEF TypeOK, ControlOK
<1>1. CASE UNCHANGED vars
  <2>1. ControlOK'
    BY <1>0, <1>1 DEF vars, worker, control, TypeOK, ControlOK
  <2> QED
    BY <1>1, <1>same, <2>1 DEF vars, worker
<1>2. CASE OtherStep
  BY <1>2, <1>same, OthersEffect DEF OtherEffect
<1>3. ASSUME NEW t \in Tasks, WorkerStep(t) PROVE TypeOK'
  <2>1. ControlOK'
    BY <1>0, <1>3, WorkersAreLocal DEF WorkerLocal, control, TypeOK, ControlOK
  <2>2. CASE UNCHANGED mine
    BY <1>same, <2>1, <2>2
  <2>3. CASE WorkerStarts(t)
    <3> DEFINE n == Len(attempts) + 1
    <3>1. /\ n \in 0..MaxAttempts /\ mine' = [mine EXCEPT ![t] = n]
          /\ DOMAIN attempts' = DOMAIN attempts \cup {n} /\ attempts'[n].task = t
      BY <1>rows, <2>3 DEF WorkerStarts, RowStarts
    <3> HIDE DEF n
    <3>2. mine' \in [Tasks -> 0..MaxAttempts]
      BY <1>0, <3>1 DEF TypeOK
    <3>3. \A u \in Tasks : mine'[u] # 0 => mine'[u] \in AttemptsOf(u)'
      BY <1>0, <3>1 DEF TypeOK, AttemptsOf, RowsKept
    <3> QED
      BY <1>0, <2>1, <3>2, <3>3 DEF TypeOK, ControlOK
  <2> QED
    BY <1>3, <2>2, <2>3, WorkerRows
<1> QED
  BY <1>1, <1>2, <1>3, NextIsWorkerOrOther

-----------------------------------------------------------------------------
(* What a worker relies on stays true.                                      *)

\* A step in which the worker of t has no part: it may be stopped or begun
\* anew, its attempts are not recorded as cancelled, and its groups only end.
Quiet(t) ==
    /\ pc'[t] \in {pc[t], "idle", "lost", "pending"}
    /\ mine'[t] = mine[t] /\ ending'[t] = ending[t]
    /\ AttemptsOf(t)' = AttemptsOf(t)
    /\ \A a \in AttemptsOf(t) :
        /\ attempts'[a].status = "cancelled" => attempts[a].status = "cancelled"
        /\ group'[a] # group[a] => Observable(a) /\ group'[a] \in {"orphaned", "gone"}

LEMMA OthersAreQuiet ==
    ASSUME IInv, OtherStep, NEW t \in Tasks
    PROVE  Quiet(t)
<1>1. OtherEffect
  BY OthersEffect
<1>2. AttemptsOf(t) \subseteq 1..MaxAttempts
  BY Rows, PoolAssumption DEF AttemptsOf, IInv, TypeOK, GroupsFollowRows
<1>3. CASE UNCHANGED attempts
  BY <1>1, <1>2, <1>3 DEF OtherEffect, Quiet, AttemptsOf
<1>4. ASSUME NEW a \in DOMAIN attempts, RowEnds(a, "failed") PROVE Quiet(t)
  <2>1. AttemptsOf(t)' = AttemptsOf(t)
    BY <1>4 DEF RowEnds, AttemptsOf
  <2>2. \A b \in AttemptsOf(t) :
            attempts'[b].status = "cancelled" => attempts[b].status = "cancelled"
    BY <1>4 DEF RowEnds, AttemptsOf
  <2> QED
    BY <1>1, <1>2, <2>1, <2>2 DEF OtherEffect, Quiet
<1> QED
  BY <1>1, <1>3, <1>4 DEF OtherEffect

LEMMA BystandersAreQuiet ==
    ASSUME IInv, NEW t \in Tasks, WorkerStep(t), NEW u \in Tasks, u # t
    PROVE  /\ Quiet(u)
           /\ \A a \in AttemptsOf(u) : attempts'[a] = attempts[a] /\ group'[a] = group[a]
<1>1. WorkerLocal(t)
  BY WorkersAreLocal
<1>2. DOMAIN group = 1..MaxAttempts /\ AttemptsOf(u) \subseteq 1..MaxAttempts
  BY Rows, PoolAssumption DEF AttemptsOf, IInv, TypeOK, GroupsFollowRows
<1>3. \A a \in AttemptsOf(u) : group'[a] = group[a]
  <2>1. pc[t] \in Running => mine[t] \notin AttemptsOf(u)
    BY MineIsARow DEF AttemptsOf
  <2> QED
    BY <1>1, <1>2, <2>1 DEF WorkerLocal, Running
<1>4. /\ AttemptsOf(u)' = AttemptsOf(u)
      /\ \A a \in AttemptsOf(u) : attempts'[a] = attempts[a]
  <2>1. CASE UNCHANGED attempts
    BY <2>1 DEF AttemptsOf
  <2>2. ASSUME NEW a \in DOMAIN attempts, RowUpdated(t, a) PROVE <1>4!1 /\ <1>4!2
    BY <2>2 DEF RowUpdated, AttemptsOf
  <2>3. CASE WorkerStarts(t)
    BY <2>3 DEF WorkerStarts, RowStarts, AttemptsOf
  <2> QED
    BY <2>1, <2>2, <2>3, WorkerRows
<1> QED
  BY <1>1, <1>3, <1>4 DEF WorkerLocal, Quiet

LEMMA QuietHolds ==
    ASSUME IInv, NEW t \in Tasks, RowsKept, Quiet(t)
    PROVE  Holds(t)'
<1>1. CASE pc'[t] # pc[t]
  BY <1>1 DEF Quiet, Holds, Running
<1>2. CASE pc'[t] = pc[t] /\ pc[t] \notin Running
  BY <1>2 DEF Holds, Running
<1>3. CASE pc'[t] = pc[t] /\ pc[t] \in Running
  <2>1. mine[t] \in AttemptsOf(t) /\ IsNewest(mine[t], t)
    BY <1>3, MineIsARow DEF IsNewest
  <2>2. IsNewest(mine[t], t)'
    BY <2>1 DEF IsNewest, Quiet
  <2>3. Holds(t)
    BY DEF IInv
  <2>4. ~Observable(mine[t]) => group'[mine[t]] = group[mine[t]]
    BY <2>1 DEF Quiet
  <2>5. attempts[mine[t]].status # "cancelled" => attempts'[mine[t]].status # "cancelled"
    BY <2>1 DEF Quiet
  <2>6. attempts[mine[t]].status = "succeeded" => attempts'[mine[t]] = attempts[mine[t]]
    BY <2>1 DEF RowsKept, AttemptsOf
  <2>7. (~Observable(mine[t]))' <=> group'[mine'[t]] \notin {"led", "orphaned"}
    BY DEF Observable
  <2> QED
    BY <1>3, <2>2, <2>3, <2>4, <2>5, <2>6, <2>7 DEF Holds, Quiet, Observable
<1> QED
  BY <1>1, <1>2, <1>3 DEF Quiet

\* The attempt of a worker that does not start one stays the newest of its task.
LEMMA MineStaysNewest ==
    ASSUME IInv, NEW t \in Tasks, WorkerStep(t), pc[t] \in Running
    PROVE  /\ mine'[t] = mine[t]
           /\ AttemptsOf(t)' = AttemptsOf(t)
           /\ IsNewest(mine[t], t)'
           /\ DOMAIN attempts' = DOMAIN attempts
<1>1. IsNewest(mine[t], t)
  BY MineIsARow
<1>2. ~WorkerStarts(t)
  BY DEF WorkerStarts, Running
<1>3. /\ AttemptsOf(t)' = AttemptsOf(t) /\ mine'[t] = mine[t]
      /\ DOMAIN attempts' = DOMAIN attempts
  BY <1>2, WorkerRows DEF RowUpdated, AttemptsOf
<1> QED
  BY <1>1, <1>3 DEF IsNewest

\* A worker that is not between its start and its end relies on nothing.
LEMMA AtRest ==
    ASSUME NEW t \in Tasks, pc'[t] \notin Running
    PROVE  Holds(t)'
  BY DEF Holds, Running

LEMMA WorkerHolds ==
    ASSUME IInv, NEW t \in Tasks, WorkerStep(t)
    PROVE  Holds(t)'
<1>0. /\ pc \in [Tasks -> Step] /\ ending \in [Tasks -> Ending]
      /\ group \in [1..MaxAttempts -> GroupState] /\ Holds(t)
  BY DEF IInv, TypeOK
<1>g. \A s : Goto(t, s) => pc'[t] = s
  BY <1>0 DEF Goto
<1>1. CASE BeginRun(t) \/ PlanFails(t) \/ CancelBeforeStart(t) \/ MoveToRunning(t)
           \/ PrepareFails(t) \/ CloseRun(t) \/ CancelOwnTask(t) \/ FailTask(t)
           \/ Rescue(t) \/ RescueAttempt(t) \/ RescueTask(t)
  <2>1. pc'[t] \in {"plan", "rescue", "idle", "start", "rescueTask", "rescueAttempt"}
    BY <1>1, <1>g DEF BeginRun, PlanFails, CancelBeforeStart, MoveToRunning, PrepareFails,
       CloseRun, CancelOwnTask, FailTask, Rescue, RescueAttempt, RescueTask
  <2> QED
    BY <2>1, AtRest DEF Running
<1>2. CASE StartRun(t)
  <2>1. CASE pc'[t] = "rescue"
    BY <2>1, AtRest DEF Running
  <2>2. CASE WorkerStarts(t)
    <3>0. PICK n : n = Len(attempts) + 1
      OBVIOUS
    <3>1. DOMAIN attempts = 1..Len(attempts) /\ Len(attempts) \in Nat /\ MaxAttempts \in Nat
      BY Rows, PoolAssumption DEF IInv, TypeOK
    <3>2. /\ mine'[t] = n /\ pc'[t] = "prepare" /\ UNCHANGED group
          /\ n \in 1..MaxAttempts /\ n \notin DOMAIN attempts
      BY <2>2, <3>0, <3>1 DEF WorkerStarts, RowStarts, IInv, TypeOK
    <3>3. group[n] = "none"
      BY <3>2 DEF IInv, GroupsFollowRows
    <3>4. attempts'[n].status = "running" /\ attempts'[n].task = t
          /\ DOMAIN attempts' = DOMAIN attempts \cup {n}
      BY <2>2, <3>0 DEF WorkerStarts, RowStarts
    <3>5. \A b \in DOMAIN attempts : b <= n
      BY <3>0, <3>1
    <3>6. IsNewest(n, t)'
      BY <3>2, <3>4, <3>5 DEF IsNewest, AttemptsOf
    <3> QED
      BY <3>2, <3>3, <3>4, <3>6 DEF Holds, Running
  <2>3. pc'[t] \in {"rescue", "prepare"}
    BY <1>2, <1>g DEF StartRun
  <2>4. CASE pc'[t] = "prepare"
    <3>1. Ledger!StartAttempt(Service, t, "implementation", "primary", "openai")
          /\ mine' = [mine EXCEPT ![t] = Len(attempts')]
      BY <1>2, <1>g, <2>4 DEF StartRun
    <3>2. RowStarts(t) /\ status[t] = "running" /\ Len(attempts) < MaxAttempts
          /\ UNCHANGED status
      BY <3>1, StartStarts DEF IInv, TypeOK
    <3>3. \A a \in Ledger!RunningImplementations(t) : attempts[a].item # "primary"
      BY <3>1 DEF Ledger!StartAttempt, Ledger!WorkItemFree
    <3>4. pc[t] = "start" /\ UNCHANGED group
      BY <1>2 DEF StartRun, At
    <3> QED
      BY <2>2, <2>4, <3>1, <3>2, <3>3, <3>4 DEF WorkerStarts
  <2> QED
    BY <2>1, <2>3, <2>4
<1>run. ASSUME pc[t] \in Running, pc'[t] \in {"record", "prompt", "wait", "teardown", "fail", "failTask"}
        PROVE  Holds(t)'
  BY <1>run, MineStaysNewest DEF Holds, Running
<1>3. CASE CheckBeforeLaunch(t)
  <2>1. pc[t] = "prepare" /\ pc'[t] \in {"cancel", "launch"} /\ UNCHANGED <<group, attempts>>
    BY <1>3, <1>g DEF CheckBeforeLaunch, At, ledger
  <2>2. mine'[t] = mine[t] /\ IsNewest(mine[t], t)'
    BY <2>1, MineStaysNewest DEF Running
  <2> QED
    BY <1>0, <2>1, <2>2 DEF Holds, Observable
<1>4. CASE Launch(t) \/ RecordProcess(t) \/ WritePrompt(t) \/ WaitIsCancelled(t) \/ WaitFails(t)
  <2>1. pc[t] \in Running /\ pc'[t] \in {"record", "prompt", "wait", "teardown", "fail"}
    BY <1>4, <1>g DEF Launch, RecordProcess, WritePrompt, WaitIsCancelled, WaitFails, At, Running
  <2> QED
    BY <2>1, <1>run
<1>5. CASE WaitReturns(t)
  <2>1. /\ pc[t] \in Running /\ UNCHANGED group
        /\ \/ pc'[t] = "late" /\ group[mine[t]] = "gone"
           \/ pc'[t] \in {"fail", "teardown"}
    BY <1>5, <1>g DEF WaitReturns, At, Running
  <2> QED
    BY <2>1, <1>run, MineStaysNewest DEF Holds, Observable
<1>6. CASE Teardown(t)
  <2>1. /\ pc[t] \in Running
        /\ \/ pc'[t] = "cancel" /\ group' = [group EXCEPT ![mine[t]] = "gone"]
           \/ pc'[t] = "fail"
    BY <1>6, <1>g DEF Teardown, AfterTeardown, At, Running
  <2>2. CASE pc'[t] = "cancel" /\ group' = [group EXCEPT ![mine[t]] = "gone"]
    <3>1. group'[mine[t]] = "gone" /\ mine'[t] = mine[t] /\ IsNewest(mine[t], t)'
      BY <1>0, <2>1, <2>2, MineIsARow, MineStaysNewest
    <3> QED
      BY <2>2, <3>1 DEF Holds, Observable
  <2> QED
    BY <2>1, <2>2, <1>run
<1>end. ASSUME pc[t] \in {"late", "cancel", "fail"}, UNCHANGED group,
               NEW result \in {"succeeded", "failed", "cancelled"},
               NEW next \in {"close", "cancelTask", "failTask"},
               EndAttempt(t, result, next),
               next \in {"close", "cancelTask"} => pc[t] \in {"late", "cancel"},
               next = "close" /\ ending'[t] = "ok" => result = "succeeded"
        PROVE  Holds(t)'
  <2>1. pc[t] \in Running /\ pc'[t] \in {next, "rescue"}
    BY <1>end, <1>g DEF EndAttempt, Running
  <2>2. CASE pc'[t] = next /\ next # "rescue"
    <3>1. PICK e \in {"none", "some"} : Ledger!FinishAttempt(Service, mine[t], result, e)
      BY <1>end, <1>g, <2>2 DEF EndAttempt
    <3>2. attempts'[mine[t]].status = result
      BY <2>1, <3>1, MineIsARow, FinishEnds DEF IInv, TypeOK, RowEnds
    <3>3. mine'[t] = mine[t] /\ IsNewest(mine[t], t)'
      BY <2>1, MineStaysNewest
    <3>4. next \in {"close", "cancelTask"} => ~Observable(mine[t])
      BY <1>0, <1>end DEF Holds
    <3> QED
      BY <1>end, <2>2, <3>2, <3>3, <3>4 DEF Holds, Observable
  <2> QED
    BY <2>1, <2>2, AtRest DEF Running
<1>7. CASE FinishRun(t)
  <2>1. CASE cancelSet[t]
    <3>1. pc[t] = "late" /\ pc'[t] = "cancel" /\ UNCHANGED group
      BY <1>7, <1>g, <2>1 DEF FinishRun, At
    <3> QED
      BY <1>0, <3>1, MineStaysNewest DEF Holds, Observable, Running
  <2>2. CASE ~cancelSet[t]
    BY <1>7, <1>end, <2>2 DEF FinishRun, At
  <2> QED
    BY <2>1, <2>2
<1>8. CASE CancelOwnAttempt(t) \/ FailAttempt(t)
  BY <1>8, <1>end DEF CancelOwnAttempt, FailAttempt, At
<1> QED
  BY <1>1, <1>2, <1>3, <1>4, <1>5, <1>6, <1>7, <1>8 DEF WorkerStep

-----------------------------------------------------------------------------
(* The rows and the groups.                                                 *)

LEMMA SameRowsSameLength ==
    ASSUME IInv, [Next]_vars, DOMAIN attempts' = DOMAIN attempts
    PROVE  Len(attempts') = Len(attempts)
<1>1. DOMAIN attempts = 1..Len(attempts) /\ Len(attempts) \in Nat
  BY Rows DEF IInv, TypeOK
<1>2. DOMAIN attempts' = 1..Len(attempts') /\ Len(attempts') \in Nat
  <2>1. Ledger!TypeOK' <=> LP!TypeOK'
    BY SameTypes, PTL
  <2>2. attempts' \in Seq(LP!Attempt)
    BY <2>1, LedgerKept DEF LP!TypeOK
  <2> QED
    BY <2>2, LenProperties
<1>3. \A j, k \in Nat : 1..j = 1..k => j = k
  OBVIOUS
<1> QED
  BY <1>1, <1>2, <1>3, Zenon

LEMMA GroupsKept ==
    ASSUME IInv, [Next]_vars
    PROVE  GroupsFollowRows'
<1>0. /\ DOMAIN group = 1..MaxAttempts /\ MaxAttempts \in Nat /\ Len(attempts) \in Nat
      /\ RowsKept /\ GroupsFollowRows
  BY Rows, LedgerKept, PoolAssumption DEF IInv, TypeOK
<1>rows. ASSUME DOMAIN attempts' = DOMAIN attempts
         PROVE  Len(attempts') <= MaxAttempts
  BY <1>0, <1>rows, SameRowsSameLength DEF GroupsFollowRows
<1>1. CASE UNCHANGED vars
  BY <1>0, <1>1 DEF vars, ledger, worker, GroupsFollowRows
<1>2. CASE OtherStep
  <2>1. OtherEffect
    BY <1>2, OthersEffect
  <2>2. DOMAIN attempts' = DOMAIN attempts
    BY <2>1 DEF OtherEffect, RowEnds
  <2>3. \A a \in 1..MaxAttempts : group'[a] # "none" => a \in DOMAIN attempts'
    BY <1>0, <2>1, <2>2 DEF OtherEffect, GroupsFollowRows, Observable
  <2> QED
    BY <1>rows, <2>2, <2>3 DEF GroupsFollowRows
<1>3. ASSUME NEW t \in Tasks, WorkerStep(t) PROVE GroupsFollowRows'
  <2>1. WorkerLocal(t)
    BY <1>3, WorkersAreLocal
  <2>2. \A a \in 1..MaxAttempts : group'[a] # "none" => a \in DOMAIN attempts'
    <3>1. pc[t] \in {"launch", "teardown"} => mine[t] \in DOMAIN attempts
      BY MineIsARow DEF Running
    <3> QED
      BY <1>0, <2>1, <3>1 DEF WorkerLocal, GroupsFollowRows, RowsKept
  <2>3. CASE DOMAIN attempts' = DOMAIN attempts
    BY <1>rows, <2>2, <2>3 DEF GroupsFollowRows
  <2>4. CASE WorkerStarts(t)
    BY <1>0, <2>2, <2>4 DEF WorkerStarts, RowStarts, GroupsFollowRows
  <2> QED
    BY <1>3, <2>3, <2>4, WorkerRows DEF RowUpdated
<1> QED
  BY <1>1, <1>2, <1>3, NextIsWorkerOrOther

LEMMA ImplementationsKept ==
    ASSUME IInv, [Next]_vars
    PROVE  OnlyImplementations'
<1>0. RowsKept /\ OnlyImplementations
  BY LedgerKept DEF IInv
<1>1. CASE UNCHANGED vars
  BY <1>0, <1>1 DEF vars, ledger, OnlyImplementations
<1>2. CASE OtherStep
  <2>1. DOMAIN attempts' = DOMAIN attempts
    BY <1>2, OthersEffect DEF OtherEffect, RowEnds
  <2> QED
    BY <1>0, <2>1 DEF OnlyImplementations, RowsKept
<1>3. ASSUME NEW t \in Tasks, WorkerStep(t) PROVE OnlyImplementations'
  <2>1. CASE DOMAIN attempts' = DOMAIN attempts
    BY <1>0, <2>1 DEF OnlyImplementations, RowsKept
  <2>2. CASE WorkerStarts(t)
    BY <1>0, <2>2 DEF WorkerStarts, RowStarts, OnlyImplementations
  <2> QED
    BY <1>3, <2>1, <2>2, WorkerRows DEF RowUpdated
<1> QED
  BY <1>1, <1>2, <1>3, NextIsWorkerOrOther

\* All attempts are implementations of one work item, so none runs at a start.
LEMMA NothingRunsAtStart ==
    ASSUME IInv, NEW t \in Tasks, WorkerStarts(t)
    PROVE  Ledger!RunningAttempts(t) = {}
<1>1. \A a \in DOMAIN attempts : attempts[a].item = "primary"
  BY Rows DEF IInv, TypeOK
<1>2. Ledger!RunningAttempts(t) \subseteq Ledger!RunningImplementations(t)
  BY DEF IInv, OnlyImplementations, Ledger!RunningAttempts, Ledger!AttemptIds,
     Ledger!RunningImplementations, Ledger!Implementations
<1> QED
  BY <1>1, <1>2 DEF WorkerStarts, Ledger!RunningAttempts, Ledger!AttemptIds

\* No step but a start adds to the attempts that run for a task.
LEMMA RunningShrinks ==
    ASSUME IInv, [Next]_vars, NEW t \in Tasks,
           AttemptsOf(t)' = AttemptsOf(t)
    PROVE  Ledger!RunningAttempts(t)' \subseteq Ledger!RunningAttempts(t)
<1>1. RowsKept
  BY LedgerKept
<1>2. Ledger!RunningAttempts(t)' \subseteq AttemptsOf(t)
  BY DEF Ledger!RunningAttempts, Ledger!AttemptIds, AttemptsOf
<1> QED
  BY <1>1, <1>2 DEF RowsKept, Ledger!RunningAttempts, Ledger!AttemptIds, AttemptsOf

LEMMA NewestKept ==
    ASSUME IInv, [Next]_vars
    PROVE  OnlyNewestRuns'
<1>same. ASSUME NEW t \in Tasks, AttemptsOf(t)' = AttemptsOf(t)
         PROVE  \A a \in Ledger!RunningAttempts(t)' : IsNewest(a, t)'
  BY <1>same, RunningShrinks DEF IInv, OnlyNewestRuns, IsNewest
<1>1. CASE UNCHANGED vars
  BY <1>1, <1>same DEF vars, ledger, AttemptsOf, OnlyNewestRuns
<1>2. CASE OtherStep
  BY <1>2, <1>same, OthersAreQuiet DEF Quiet, OnlyNewestRuns
<1>3. ASSUME NEW t \in Tasks, WorkerStep(t) PROVE OnlyNewestRuns'
  <2>1. \A u \in Tasks : u # t => AttemptsOf(u)' = AttemptsOf(u)
    BY <1>3, BystandersAreQuiet DEF Quiet
  <2>2. CASE AttemptsOf(t)' = AttemptsOf(t)
    BY <1>same, <2>1, <2>2 DEF OnlyNewestRuns
  <2>3. CASE WorkerStarts(t)
    <3>0. PICK n : n = Len(attempts) + 1
      OBVIOUS
    <3>1. DOMAIN attempts = 1..Len(attempts) /\ Len(attempts) \in Nat
      BY Rows DEF IInv, TypeOK
    <3>2. /\ DOMAIN attempts' = DOMAIN attempts \cup {n} /\ attempts'[n].task = t
          /\ \A b \in DOMAIN attempts : attempts'[b] = attempts[b] /\ b <= n
      BY <2>3, <3>0, <3>1 DEF WorkerStarts, RowStarts
    <3>3. \A a \in Ledger!RunningAttempts(t)' : a = n
      BY <2>3, <3>2, NothingRunsAtStart DEF Ledger!RunningAttempts, Ledger!AttemptIds
    <3>4. n <= n
      BY <3>0, <3>1
    <3>5. IsNewest(n, t)'
      BY <3>2, <3>4 DEF IsNewest, AttemptsOf
    <3> QED
      BY <1>same, <2>1, <3>3, <3>5 DEF OnlyNewestRuns
  <2>4. CASE \E a \in DOMAIN attempts : RowUpdated(t, a)
    BY <2>2, <2>4 DEF RowUpdated, AttemptsOf
  <2>5. CASE UNCHANGED attempts
    BY <2>2, <2>5 DEF AttemptsOf
  <2> QED
    BY <1>3, <2>3, <2>4, <2>5, WorkerRows
<1> QED
  BY <1>1, <1>2, <1>3, NextIsWorkerOrOther

-----------------------------------------------------------------------------
(* Outcomes are earned.                                                     *)

LEMMA CancelledStaysGone ==
    ASSUME IInv, [Next]_vars
    PROVE  CancelledAttemptIsGone'
<1>0. RowsKept /\ CancelledAttemptIsGone /\ DOMAIN group = 1..MaxAttempts
      /\ \A a \in DOMAIN attempts : attempts[a].task \in Tasks
      /\ DOMAIN attempts \subseteq 1..MaxAttempts
  BY Rows, LedgerKept, PoolAssumption DEF IInv, OutcomeIsEarned, TypeOK, GroupsFollowRows
<1>1. CASE UNCHANGED vars
  BY <1>0, <1>1 DEF vars, ledger, worker, CancelledAttemptIsGone, Observable
<1>2. CASE OtherStep
  <2>1. DOMAIN attempts' = DOMAIN attempts
    BY <1>2, OthersEffect DEF OtherEffect, RowEnds
  <2>2. ASSUME NEW a \in DOMAIN attempts, attempts'[a].status = "cancelled"
        PROVE  group'[a] \notin {"led", "orphaned"}
    <3>0. PICK u \in Tasks : u = attempts[a].task
      BY <1>0
    <3>1. Quiet(u) /\ a \in AttemptsOf(u)
      BY <1>2, <3>0, OthersAreQuiet DEF AttemptsOf
    <3> QED
      BY <1>0, <2>2, <3>1 DEF Quiet, CancelledAttemptIsGone, Observable
  <2> QED
    BY <2>1, <2>2 DEF CancelledAttemptIsGone, Observable
<1>3. ASSUME NEW t \in Tasks, WorkerStep(t) PROVE CancelledAttemptIsGone'
  <2>0. WorkerLocal(t) /\ Holds(t)
    BY <1>3, WorkersAreLocal DEF IInv
  <2>1. ASSUME NEW a \in DOMAIN attempts, attempts'[a].status = "cancelled"
        PROVE  group'[a] \notin {"led", "orphaned"}
    <3>1. CASE attempts[a].status = "cancelled"
      BY <1>0, <2>0, <3>1 DEF WorkerLocal, Holds, CancelledAttemptIsGone, Observable
    <3>2. CASE attempts[a].status # "cancelled"
      <4>1. pc[t] = "cancel" /\ a = mine[t]
        BY <1>3, <2>1, <3>2, WorkerRows DEF RowUpdated, WorkerStarts, RowStarts
      <4> QED
        BY <1>0, <2>0, <4>1 DEF WorkerLocal, Holds, Observable
    <3> QED
      BY <3>1, <3>2
  <2>2. \A a \in DOMAIN attempts' :
            attempts'[a].status = "cancelled" => a \in DOMAIN attempts
    BY <1>3, WorkerRows DEF RowUpdated, WorkerStarts, RowStarts
  <2> QED
    BY <2>1, <2>2 DEF CancelledAttemptIsGone, Observable
<1> QED
  BY <1>1, <1>2, <1>3, NextIsWorkerOrOther

LEMMA ReviewableStaysEarned ==
    ASSUME IInv, [Next]_vars
    PROVE  ReviewableMeansSucceeded'
<1>0. RowsKept /\ ReviewableMeansSucceeded /\ DOMAIN attempts \subseteq Nat
  BY Rows, LedgerKept DEF IInv, OutcomeIsEarned, TypeOK
\* A task that stays reviewable, with the attempts it had.
<1>same. ASSUME NEW t \in Tasks, NEW a \in DOMAIN attempts',
                status[t] = "needs_review", AttemptsOf(t)' = AttemptsOf(t),
                IsNewest(a, t)'
         PROVE  attempts'[a].status = "succeeded"
  <2>1. IsNewest(a, t) /\ a \in DOMAIN attempts
    BY <1>same DEF IsNewest, AttemptsOf
  <2> QED
    BY <1>0, <1>same, <2>1 DEF ReviewableMeansSucceeded, RowsKept
<1>1. CASE UNCHANGED vars
  BY <1>1, <1>same DEF vars, ledger, AttemptsOf, ReviewableMeansSucceeded
<1>2. CASE OtherStep
  BY <1>2, <1>same, OthersEffect, OthersAreQuiet
  DEF OtherEffect, Quiet, ReviewableMeansSucceeded
<1>3. ASSUME NEW t \in Tasks, WorkerStep(t) PROVE ReviewableMeansSucceeded'
  <2>1. ASSUME NEW u \in Tasks, NEW a \in DOMAIN attempts', status'[u] = "needs_review",
               IsNewest(a, u)'
        PROVE  attempts'[a].status = "succeeded"
    <3>1. CASE u # t
      BY <1>3, <1>same, <2>1, <3>1, WorkerMoves, BystandersAreQuiet DEF Quiet
    <3>2. CASE u = t /\ status[t] = "needs_review"
      <4>1. AttemptsOf(t)' = AttemptsOf(t)
        BY <1>3, <3>2, WorkerRows DEF WorkerStarts, RowUpdated, AttemptsOf
      <4> QED
        BY <1>same, <2>1, <3>2, <4>1
    <3>3. CASE u = t /\ pc[t] = "close" /\ ending[t] = "ok" /\ UNCHANGED attempts
      <4>1. /\ IsNewest(mine[t], t) /\ attempts[mine[t]].status = "succeeded"
            /\ IsNewest(a, t)
        BY <2>1, <3>3 DEF IInv, Holds, Running, IsNewest, AttemptsOf
      <4>2. a = mine[t]
        BY <1>0, <4>1 DEF IsNewest, AttemptsOf
      <4> QED
        BY <3>3, <4>1, <4>2
    <3> QED
      BY <1>3, <2>1, <3>1, <3>2, <3>3, WorkerMoves
  <2> QED
    BY <2>1 DEF ReviewableMeansSucceeded
<1> QED
  BY <1>1, <1>2, <1>3, NextIsWorkerOrOther

-----------------------------------------------------------------------------
(* The invariant.                                                           *)

LEMMA IInvInit == Init => IInv
<1> SUFFICES ASSUME Init PROVE IInv
  OBVIOUS
<1>1. Ledger!TypeOK
  BY InitUsesLedger, SameSpec, SameTypes, LedgerBounds, LP!TypeInit
<1>2. DOMAIN attempts = {} /\ Len(attempts) = 0 /\ MaxAttempts \in Nat
  BY PoolAssumption DEF Init, Ledger!Init
<1>3. NoRequest \in Request /\ "idle" \in Step /\ "none" \in Ending /\ "none" \in GroupState
  BY DEF Request, Step, Ending, GroupState
<1>4. TypeOK
  BY <1>1, <1>2, <1>3 DEF Init, TypeOK
<1>5. \A t \in Tasks : Holds(t)
  BY DEF Init, Holds, Running
<1> QED
  BY <1>2, <1>4, <1>5 DEF IInv, Init, GroupsFollowRows, OnlyImplementations,
     OnlyNewestRuns, Ledger!RunningAttempts, Ledger!AttemptIds, OutcomeIsEarned,
     CancelledAttemptIsGone, ReviewableMeansSucceeded

LEMMA IInvNext == IInv /\ [Next]_vars => IInv'
<1> SUFFICES ASSUME IInv, [Next]_vars PROVE IInv'
  OBVIOUS
<1>1. TypeOK' /\ GroupsFollowRows' /\ OnlyImplementations' /\ OnlyNewestRuns'
  BY TypeKept, GroupsKept, ImplementationsKept, NewestKept
<1>2. OutcomeIsEarned'
  BY CancelledStaysGone, ReviewableStaysEarned DEF OutcomeIsEarned
<1>3. \A t \in Tasks : Holds(t)'
  <2>1. CASE UNCHANGED vars
    BY <2>1 DEF vars, ledger, worker, IInv, Holds, IsNewest, AttemptsOf, Observable
  <2>2. CASE OtherStep
    BY <2>2, LedgerKept, OthersAreQuiet, QuietHolds
  <2>3. ASSUME NEW t \in Tasks, WorkerStep(t) PROVE \A u \in Tasks : Holds(u)'
    BY <2>3, LedgerKept, BystandersAreQuiet, QuietHolds, WorkerHolds
  <2> QED
    BY <2>1, <2>2, <2>3, NextIsWorkerOrOther
<1> QED
  BY <1>1, <1>2, <1>3 DEF IInv

\* The invariant of the service: the types, where each worker and request is, and what
\* is known of an attempt, its process group and its task there.
THEOREM Invariance == Spec => []IInv
  BY IInvInit, IInvNext, PTL DEF Spec

-----------------------------------------------------------------------------
(* What a worker hands over, when no operator interferes.                   *)

LEMMA SoleOthers ==
    ASSUME IInv, Operators = {}, OtherStep
    PROVE  /\ UNCHANGED attempts
           /\ \A t \in Tasks : status'[t] \in {status[t], "queued", "cancelled"}
<1>0. status \in [Tasks -> Ledger!TaskStatus \cup {"absent"}]
  BY DEF IInv, TypeOK, Ledger!TypeOK
<1> USE DEF ledger
<1>1. ASSUME NEW t \in Tasks, SubmitTask(t) \/ CancelRead(t)
      PROVE  /\ UNCHANGED attempts
             /\ \A u \in Tasks : status'[u] \in {status[u], "queued", "cancelled"}
  BY <1>0, <1>1 DEF SubmitTask, CancelRead, Ledger!CreateTask, Ledger!MoveTask
<1>2. CASE SubmitAttempts \/ SubmitSchedule \/ CancelQueuedEvent \/ CancelRunning
  BY <1>2 DEF SubmitAttempts, SubmitSchedule, CancelQueuedEvent, CancelRunning
<1>3. CASE CancelQueued
  BY <1>0, <1>3 DEF CancelQueued, Ledger!CancelTask, Ledger!MoveTask
<1>4. CASE GroupStep \/ LifeStep
  BY <1>4 DEF GroupStep, OrphansExit, LeaderExits, LifeStep, CloseSignals, Exit, Crash,
     Restart, DropPending
<1>5. ~OperatorStep
  BY DEF OperatorStep
<1> QED
  BY <1>1, <1>2, <1>3, <1>4, <1>5 DEF OtherStep, RequestStep

LEMMA ToldKept ==
    ASSUME NEW t \in Tasks, Told(t), AttemptsOf(t)' = AttemptsOf(t),
           ending'[t] = ending[t],
           \A a \in AttemptsOf(t) : Observable(a)' => Observable(a)
    PROVE  Told(t)'
<1> SUFFICES ASSUME NEW a \in DOMAIN attempts', IsNewest(a, t)', Observable(a)'
             PROVE  ending'[t] = "unverified"
  BY DEF Told
<1>1. IsNewest(a, t) /\ a \in DOMAIN attempts
  BY DEF IsNewest, AttemptsOf
<1>2. Observable(a)
  BY <1>1 DEF IsNewest
<1> QED
  BY <1>1, <1>2 DEF Told

\* A step in which the worker of t has no part keeps what it has handed over.
LEMMA StillHands ==
    ASSUME NEW t \in Tasks, Hands(t),
           \/ pc'[t] = pc[t]
           \/ pc'[t] = "lost"
           \/ pc[t] \in {"idle", "pending"} /\ pc'[t] \in {"idle", "pending"},
           ending'[t] = ending[t],
           status'[t] = "running" => status[t] = "running",
           AttemptsOf(t)' = AttemptsOf(t),
           \A a \in AttemptsOf(t) :
                attempts'[a] = attempts[a] /\ (Observable(a)' => Observable(a))
    PROVE  Hands(t)'
<1>1. Ledger!RunningAttempts(t)' = Ledger!RunningAttempts(t)
  BY DEF Ledger!RunningAttempts, Ledger!AttemptIds, AttemptsOf
<1>2. Told(t) => Told(t)'
  BY ToldKept
<1> QED
  BY <1>1, <1>2 DEF Hands

LEMMA OthersKeepHands ==
    ASSUME SoleInv, Operators = {}, OtherStep, NEW t \in Tasks
    PROVE  Hands(t)'
<1>0. IInv /\ Hands(t) /\ pc \in [Tasks -> Step]
  BY DEF SoleInv, IInv, TypeOK
<1>1. /\ UNCHANGED attempts
      /\ status'[t] \in {status[t], "queued", "cancelled"}
  BY <1>0, SoleOthers
<1>2. AttemptsOf(t)' = AttemptsOf(t) /\ ending'[t] = ending[t]
  BY <1>0, OthersAreQuiet DEF Quiet
<1>3. \A a \in AttemptsOf(t) :
        attempts'[a] = attempts[a] /\ (Observable(a)' => Observable(a))
  BY <1>0, <1>1, OthersAreQuiet DEF Quiet, Observable
<1>4. CASE \/ pc'[t] = pc[t]
           \/ pc'[t] = "lost"
           \/ pc[t] \in {"idle", "pending"} /\ pc'[t] \in {"idle", "pending"}
  BY <1>0, <1>1, <1>2, <1>3, <1>4, StillHands
\* A task whose worker died is scheduled again only if it never started.
<1>5. CASE pc'[t] = "pending" /\ pc[t] = "lost" /\ SubmitSchedule
  <2>1. t = request.task
    BY <1>0, <1>5 DEF SubmitSchedule, Goto
  <2>2. AttemptsOf(t) = {} /\ status[t] # "running"
    BY <1>5, <2>1 DEF SoleInv, ScheduleIsFresh, SubmitSchedule, Asks
  <2>3. Ledger!RunningAttempts(t)' = {} /\ Told(t)' /\ status'[t] # "running"
    BY <1>1, <1>2, <2>2 DEF AttemptsOf, Ledger!RunningAttempts, Ledger!AttemptIds, Told,
       IsNewest
  <2> QED
    BY <1>5, <2>3 DEF Hands
<1>6. \/ pc'[t] = pc[t]
      \/ pc'[t] = "lost"
      \/ pc[t] \in {"idle", "pending"} /\ pc'[t] \in {"idle", "pending"}
      \/ pc'[t] = "pending" /\ pc[t] = "lost" /\ SubmitSchedule
  <2>1. CASE RequestStep
    <3>1. CASE SubmitSchedule
      BY <1>0, <3>1 DEF SubmitSchedule, Goto, Owned
    <3>2. CASE ~SubmitSchedule
      BY <2>1, <3>2 DEF RequestStep, SubmitTask, CancelRead, SubmitAttempts,
         CancelQueuedEvent, CancelQueued, CancelRunning, worker
    <3> QED
      BY <3>1, <3>2
  <2>2. CASE GroupStep \/ OperatorStep
    BY <2>2 DEF GroupStep, OrphansExit, LeaderExits, OperatorStep, worker
  <2>3. CASE LifeStep
    <3>1. CASE Crash
      BY <3>1 DEF Crash, Active, Owned, At
    <3>2. CASE \E u \in Tasks : DropPending(u)
      BY <1>0, <3>2 DEF DropPending, Goto, At
    <3>3. CASE CloseSignals \/ Exit \/ Restart
      BY <3>3 DEF CloseSignals, Exit, Restart, worker
    <3> QED
      BY <2>3, <3>1, <3>2, <3>3 DEF LifeStep
  <2> QED
    BY <2>1, <2>2, <2>3 DEF OtherStep
<1> QED
  BY <1>4, <1>5, <1>6

LEMMA ScheduleStaysFresh ==
    ASSUME SoleInv, Operators = {}, [Next]_vars
    PROVE  ScheduleIsFresh'
<1>0. IInv /\ ScheduleIsFresh /\ pc \in [Tasks -> Step] /\ request \in Request
      /\ status \in [Tasks -> Ledger!TaskStatus \cup {"absent"}]
  BY DEF SoleInv, IInv, TypeOK, Ledger!TypeOK
<1>t. request.op = "submit" => request.task \in Tasks
  BY <1>0 DEF Request, NoRequest
<1>no. request' = NoRequest => ScheduleIsFresh'
  BY DEF ScheduleIsFresh, NoRequest
\* The task of the request is left alone.
<1>same. ASSUME UNCHANGED request,
                \A t \in Tasks : pc'[t] = "lost" =>
                    /\ pc[t] = "lost" /\ status'[t] = status[t]
                    /\ AttemptsOf(t)' = AttemptsOf(t)
         PROVE  ScheduleIsFresh'
  <2>1. CASE request.op # "submit"
    BY <1>same, <2>1 DEF ScheduleIsFresh
  <2>2. CASE request.op = "submit"
    <3>1. PICK t \in Tasks : t = request.task
      BY <1>t, <2>2
    <3>2. AttemptsOf(request.task)' = AttemptsOf(t)'
      BY <1>same, <3>1 DEF AttemptsOf
    <3> QED
      BY <1>0, <1>same, <3>1, <3>2 DEF ScheduleIsFresh
  <2> QED
    BY <2>1, <2>2
<1> USE DEF ledger, worker, control
<1>1. CASE UNCHANGED vars
  BY <1>1, <1>same DEF vars, AttemptsOf
<1>2. ASSUME NEW t \in Tasks, WorkerStep(t) PROVE ScheduleIsFresh'
  <2>0. pc'[t] # "lost" /\ UNCHANGED request
    <3>1. UNCHANGED request
      BY <1>0, <1>2, WorkersAreLocal DEF WorkerLocal
    <3>2. \A s : Goto(t, s) => pc'[t] = s
      BY <1>0 DEF Goto
    <3>3. pc'[t] # "lost"
      BY <1>2, <3>2 DEF WorkerStep, BeginRun, PlanFails, CancelBeforeStart, MoveToRunning,
         StartRun, PrepareFails, CheckBeforeLaunch, Launch, RecordProcess,
         WritePrompt, WaitIsCancelled, WaitFails, WaitReturns, Teardown, AfterTeardown, FinishRun,
         EndAttempt, CloseRun, CancelOwnAttempt, CancelOwnTask, FailAttempt, FailTask,
         Rescue, RescueAttempt, RescueTask
    <3> QED
      BY <3>1, <3>3
  <2>1. \A u \in Tasks : u # t => pc'[u] = pc[u] /\ status'[u] = status[u]
    BY <1>0, <1>2, WorkersAreLocal, WorkerMoves DEF WorkerLocal
  <2>2. \A u \in Tasks : u # t => AttemptsOf(u)' = AttemptsOf(u)
    BY <1>0, <1>2, BystandersAreQuiet DEF Quiet
  <2> QED
    BY <1>same, <2>0, <2>1, <2>2
<1>3. CASE RequestStep
  <2>1. ASSUME NEW t \in Tasks, SubmitTask(t) PROVE ScheduleIsFresh'
    <3>1. request' = [op |-> "submit", task |-> t, step |-> "attempts", seen |-> status'[t]]
      BY <2>1 DEF SubmitTask
    <3> QED
      BY <3>1 DEF ScheduleIsFresh
  <2>2. ASSUME NEW t \in Tasks, CancelRead(t) PROVE ScheduleIsFresh'
    BY <2>2 DEF CancelRead, ScheduleIsFresh
  <2>3. CASE SubmitAttempts
    <3>1. CASE request' = [request EXCEPT !.step = "schedule"] /\ request.seen = "queued"
               /\ AttemptsOf(request.task) = {}
      <4>1. /\ request'.op = "submit" /\ request'.seen = "queued"
            /\ request'.task = request.task /\ request'.step = "schedule"
            /\ request.op = "submit"
        BY <1>0, <2>3, <3>1 DEF SubmitAttempts, Asks, Request, NoRequest
      <4>2. PICK t \in Tasks : t = request.task
        BY <1>t, <4>1
      <4>3. AttemptsOf(request.task)' = AttemptsOf(t)' /\ AttemptsOf(t)' = AttemptsOf(t)
        BY <2>3, <4>1, <4>2 DEF AttemptsOf, SubmitAttempts
      <4>4. UNCHANGED <<pc, status>>
        BY <2>3 DEF SubmitAttempts
      <4> QED
        BY <1>0, <3>1, <4>1, <4>2, <4>3, <4>4 DEF ScheduleIsFresh
    <3> QED
      BY <2>3, <3>1, <1>no DEF SubmitAttempts
  <2>4. CASE CancelQueuedEvent
    <3>1. request'.op = "cancel"
      BY <1>0, <2>4 DEF CancelQueuedEvent, Asks, Request, NoRequest
    <3> QED
      BY <3>1 DEF ScheduleIsFresh
  <2>5. CASE SubmitSchedule \/ CancelQueued \/ CancelRunning
    BY <2>5, <1>no DEF SubmitSchedule, CancelQueued, CancelRunning
  <2> QED
    BY <1>3, <2>1, <2>2, <2>3, <2>4, <2>5 DEF RequestStep
<1>4. CASE GroupStep
  BY <1>4, <1>same DEF GroupStep, OrphansExit, LeaderExits, AttemptsOf
<1>5. CASE LifeStep
  <2>1. CASE Crash
    BY <2>1, <1>no DEF Crash
  <2>2. CASE CloseSignals \/ Exit \/ Restart
    BY <2>2, <1>same DEF CloseSignals, Exit, Restart, AttemptsOf
  <2>3. ASSUME NEW t \in Tasks, DropPending(t) PROVE ScheduleIsFresh'
    <3>1. \A u \in Tasks : pc'[u] \in {pc[u], "idle"}
      BY <1>0, <2>3 DEF DropPending, Goto
    <3> QED
      BY <2>3, <3>1, <1>same DEF DropPending, AttemptsOf
  <2> QED
    BY <1>5, <2>1, <2>2, <2>3 DEF LifeStep
<1>6. ~OperatorStep
  BY DEF OperatorStep
<1> QED
  BY <1>1, <1>2, <1>3, <1>4, <1>5, <1>6 DEF Next

\* A task that leaves running when nothing runs for it is no longer running.
LEMMA RunningIsLeft ==
    ASSUME IInv, NEW t \in Tasks, NEW target \in {"needs_review", "blocked", "failed"},
           Ledger!RunningAttempts(t) = {}, LeaveRunning(t, target)
    PROVE  status'[t] # "running" /\ UNCHANGED attempts
<1>0. status \in [Tasks -> Ledger!TaskStatus \cup {"absent"}]
  BY DEF IInv, TypeOK, Ledger!TypeOK
<1>1. CASE status[t] # "running"
  BY <1>1 DEF LeaveRunning, ledger
<1>2. CASE status[t] = "running"
  <2>1. Ledger!RunningImplementations(t) = {}
    BY DEF Ledger!RunningImplementations
  <2>2. Ledger!MayTransition(t, target)
    BY <1>2, <2>1 DEF Ledger!MayTransition, Ledger!ValidTransitions
  <2>3. Ledger!TransitionTask(Service, t, target)
    BY <1>2, <2>2 DEF LeaveRunning
  <2> QED
    BY <1>0, <2>3 DEF Ledger!TransitionTask, Ledger!MoveTask
<1> QED
  BY <1>1, <1>2

\* What is left of the groups of t, when its worker runs an attempt.
LEMMA ToldOfMine ==
    ASSUME IInv, NEW t \in Tasks, WorkerStep(t), pc[t] \in Running,
           Observable(mine[t])' => ending'[t] = "unverified"
    PROVE  Told(t)'
<1> SUFFICES ASSUME NEW a \in DOMAIN attempts', IsNewest(a, t)', Observable(a)'
             PROVE  ending'[t] = "unverified"
  BY DEF Told
<1>0. PICK m : m = mine[t]
  OBVIOUS
<1>1. IsNewest(m, t)' /\ mine'[t] = m /\ DOMAIN attempts' = DOMAIN attempts
  <2>1. /\ IsNewest(mine[t], t) /\ AttemptsOf(t)' = AttemptsOf(t) /\ mine'[t] = mine[t]
        /\ DOMAIN attempts' = DOMAIN attempts
    BY MineIsARow, MineStaysNewest
  <2> QED
    BY <1>0, <2>1 DEF IsNewest
<1>2. DOMAIN attempts \subseteq Nat
  BY Rows DEF IInv, TypeOK
<1>3. a = m
  BY <1>1, <1>2 DEF IsNewest, AttemptsOf
<1> QED
  BY <1>0, <1>1, <1>3 DEF Observable

\* With its attempt ended, nothing runs for the task of a worker.
LEMMA EndedMeansQuiet ==
    ASSUME IInv, NEW t \in Tasks, WorkerStep(t), pc[t] \in Running,
           attempts'[mine[t]].status # "running"
    PROVE  Ledger!RunningAttempts(t)' = {}
<1>1. AttemptsOf(t)' = AttemptsOf(t) /\ IsNewest(mine[t], t)
  BY MineStaysNewest, MineIsARow
<1>2. Ledger!RunningAttempts(t)' \subseteq Ledger!RunningAttempts(t)
  BY <1>1, RunningShrinks DEF Next
<1>3. \A a \in Ledger!RunningAttempts(t) : a = mine[t]
  <2>1. DOMAIN attempts \subseteq Nat
    BY Rows DEF IInv, TypeOK
  <2> QED
    BY <1>1, <2>1 DEF IInv, OnlyNewestRuns, IsNewest, AttemptsOf
<1> QED
  BY <1>2, <1>3 DEF Ledger!RunningAttempts

LEMMA WorkerHands ==
    ASSUME SoleInv, NEW t \in Tasks, WorkerStep(t)
    PROVE  Hands(t)'
<1>0. /\ IInv /\ Hands(t) /\ Holds(t) /\ pc \in [Tasks -> Step]
      /\ group \in [1..MaxAttempts -> GroupState] /\ ending \in [Tasks -> Ending]
      /\ status \in [Tasks -> Ledger!TaskStatus \cup {"absent"}]
  BY DEF SoleInv, IInv, TypeOK, Ledger!TypeOK
<1>g. \A s : Goto(t, s) => pc'[t] = s
  BY <1>0 DEF Goto
<1>e. \A how : EndAs(t, how) => ending'[t] = how
  BY <1>0 DEF EndAs
<1>obs. \A a : Observable(a)' <=> group'[a] \in {"led", "orphaned"}
  BY DEF Observable
\* A step that touches neither the rows, nor the groups, nor how the run ended.
<1>same. ASSUME UNCHANGED <<attempts, group, ending>>
         PROVE  /\ Ledger!RunningAttempts(t)' = Ledger!RunningAttempts(t)
                /\ Told(t) => Told(t)'
  BY <1>same DEF Ledger!RunningAttempts, Ledger!AttemptIds, Told, IsNewest, AttemptsOf,
     Observable
<1> USE DEF ledger
<1>1. CASE BeginRun(t) \/ PlanFails(t) \/ PrepareFails(t) \/ CheckBeforeLaunch(t)
           \/ Rescue(t)
  <2>1. /\ UNCHANGED <<attempts, group, ending, status>>
        /\ \/ pc[t] = "pending" /\ pc'[t] = "plan"
           \/ pc[t] \in {"plan", "prepare"} /\ pc'[t] = "rescue"
           \/ pc[t] = "prepare" /\ pc'[t] \in {"cancel", "launch"}
           \/ pc[t] = "rescue" /\ pc'[t] = "rescueTask"
                /\ Ledger!RunningAttempts(t) = {}
           \/ pc[t] = "rescue" /\ pc'[t] = "rescueAttempt"
                /\ Ledger!RunningAttempts(t) # {}
    BY <1>1, <1>g DEF BeginRun, PlanFails, PrepareFails, CheckBeforeLaunch, Rescue, At
  <2> QED
    BY <1>0, <1>same, <2>1 DEF Hands
<1>2. CASE CancelBeforeStart(t)
  <2>1. UNCHANGED <<attempts, group, ending>> /\ pc[t] = "plan"
    BY <1>2 DEF CancelBeforeStart, At, Ledger!CancelTask
  <2>2. \/ pc'[t] = "rescue"
        \/ pc'[t] = "idle" /\ status'[t] = "cancelled"
    BY <1>0, <1>2, <1>g DEF CancelBeforeStart, Ledger!CancelTask, Ledger!MoveTask
  <2> QED
    BY <1>0, <1>same, <2>1, <2>2 DEF Hands
<1>3. CASE MoveToRunning(t)
  <2>1. /\ UNCHANGED <<attempts, group, ending>>
        /\ pc[t] = "plan" /\ pc'[t] = "start"
    BY <1>3, <1>g DEF MoveToRunning, At, Ledger!TransitionTask
  <2> QED
    BY <1>0, <1>same, <2>1 DEF Hands
<1>4. CASE StartRun(t)
  <2>1. CASE pc'[t] = "rescue"
    <3>1. UNCHANGED <<attempts, group, ending>> /\ pc[t] = "start"
      BY <1>4, <1>g, <2>1 DEF StartRun, At
    <3> QED
      BY <1>0, <1>same, <2>1, <3>1 DEF Hands
  <2>2. CASE pc'[t] = "prepare"
    <3>1. Holds(t)' /\ GroupsFollowRows' /\ TypeOK'
      BY <1>0, WorkerHolds, GroupsKept, TypeKept DEF Next
    <3>2. IsNewest(mine[t], t)' /\ group'[mine'[t]] = "none"
      BY <2>2, <3>1 DEF Holds, Running
    <3>3. DOMAIN attempts' \subseteq Nat
      <4>1. Ledger!TypeOK' <=> LP!TypeOK'
        BY SameTypes, PTL
      <4>2. attempts' \in Seq(LP!Attempt)
        BY <3>1, <4>1 DEF LP!TypeOK, TypeOK
      <4> QED
        BY <4>2, LenProperties
    <3>4. Told(t)'
      <4> SUFFICES ASSUME NEW a \in DOMAIN attempts', IsNewest(a, t)'
                   PROVE  ~(group'[a] \in {"led", "orphaned"})
        BY <1>obs DEF Told
      <4>1. a = mine'[t]
        BY <3>2, <3>3 DEF IsNewest, AttemptsOf
      <4> QED
        BY <3>2, <4>1
    <3> QED
      BY <2>2, <3>4 DEF Hands
  <2> QED
    BY <1>4, <1>g, <2>1, <2>2 DEF StartRun
<1>5. CASE Launch(t)
  <2>1. CASE pc'[t] = "record"
    BY <2>1 DEF Hands
  <2>2. CASE pc'[t] = "fail"
    <3>1. pc[t] = "launch" /\ UNCHANGED group
      BY <1>5, <1>g, <2>2 DEF Launch, At
    <3>2. group'[mine[t]] = "none" /\ mine'[t] = mine[t]
      BY <1>0, <1>5, <3>1 DEF Holds, Launch
    <3>3. Told(t)'
      BY <1>0, <1>5, <3>1, <3>2, ToldOfMine DEF Running, Observable
    <3> QED
      BY <2>2, <3>3 DEF Hands
  <2> QED
    BY <1>5, <1>g, <2>1, <2>2 DEF Launch
<1>6. CASE RecordProcess(t) \/ WritePrompt(t) \/ WaitIsCancelled(t) \/ WaitFails(t)
  <2>1. pc'[t] \in {"prompt", "wait", "teardown"}
    BY <1>6, <1>g DEF RecordProcess, WritePrompt, WaitIsCancelled, WaitFails
  <2> QED
    BY <2>1 DEF Hands
<1>7. CASE WaitReturns(t)
  <2>1. CASE pc'[t] = "teardown"
    BY <2>1 DEF Hands
  <2>2. CASE pc'[t] \in {"late", "fail"}
    <3>1. pc[t] = "wait" /\ group'[mine[t]] = "gone" /\ mine'[t] = mine[t]
      BY <1>7, <1>g, <2>2 DEF WaitReturns, At
    <3>2. Told(t)'
      BY <1>0, <3>1, ToldOfMine DEF Running, Observable
    <3> QED
      BY <2>2, <3>2 DEF Hands
  <2> QED
    BY <1>7, <1>g, <2>1, <2>2 DEF WaitReturns
<1>8. CASE Teardown(t)
  <2>0. pc[t] = "teardown" /\ mine'[t] = mine[t] /\ mine[t] \in 1..MaxAttempts
    BY <1>0, <1>8, MineIsARow DEF Teardown, At, Running
  <2>1. pc'[t] \in {"cancel", "fail"}
    BY <1>8, <1>g DEF Teardown, AfterTeardown
  <2>2. group'[mine[t]] = "gone" \/ ending'[t] = "unverified"
    BY <1>0, <1>8, <1>e, <2>0 DEF Teardown
  <2>3. Told(t)'
    BY <1>0, <2>0, <2>2, ToldOfMine DEF Running, Observable
  <2> QED
    BY <2>1, <2>3 DEF Hands
\* An attempt ends, or someone else has ended it.
<1>end. ASSUME pc[t] \in {"late", "cancel", "fail"}, UNCHANGED <<group, ending, mine>>,
               NEW result \in {"succeeded", "failed", "cancelled"},
               NEW next \in {"close", "cancelTask", "failTask"},
               EndAttempt(t, result, next)
        PROVE  Hands(t)'
  <2>1. Told(t) /\ pc[t] \in Running /\ mine[t] \in DOMAIN attempts
    BY <1>0, <1>end, MineIsARow DEF Hands, Running
  <2>2. Told(t)'
    <3>1. Observable(mine[t]) => ending[t] = "unverified"
      BY <1>0, <2>1, MineIsARow DEF Told
    <3> QED
      BY <1>0, <1>end, <2>1, <3>1, ToldOfMine DEF Observable
  <2>3. CASE pc'[t] = "rescue"
    BY <2>2, <2>3 DEF Hands
  <2>4. CASE pc'[t] = next
    <3>1. PICK e \in {"none", "some"} : Ledger!FinishAttempt(Service, mine[t], result, e)
      BY <1>end, <1>g, <2>4 DEF EndAttempt
    <3>2. attempts'[mine[t]].status # "running"
      BY <1>0, <2>1, <3>1, FinishEnds DEF IInv, TypeOK, RowEnds
    <3>3. Ledger!RunningAttempts(t)' = {}
      BY <1>0, <2>1, <3>2, EndedMeansQuiet
    <3> QED
      BY <2>2, <2>4, <3>3 DEF Hands
  <2> QED
    BY <1>end, <1>g, <2>3, <2>4 DEF EndAttempt
<1>9. CASE FinishRun(t)
  <2>1. CASE cancelSet[t]
    <3>1. UNCHANGED <<attempts, group, ending>> /\ pc[t] = "late" /\ pc'[t] = "cancel"
      BY <1>9, <1>g, <2>1 DEF FinishRun, At
    <3> QED
      BY <1>0, <1>same, <3>1 DEF Hands
  <2>2. CASE ~cancelSet[t]
    BY <1>9, <1>end, <2>2 DEF FinishRun, At
  <2> QED
    BY <2>1, <2>2
<1>10. CASE CancelOwnAttempt(t) \/ FailAttempt(t)
  BY <1>10, <1>end DEF CancelOwnAttempt, FailAttempt, At
<1>11. CASE CloseRun(t) \/ FailTask(t)
  <2>1. /\ pc[t] \in {"close", "failTask"} /\ pc'[t] \in {"idle", "rescue"}
        /\ UNCHANGED <<group, ending>>
    BY <1>11, <1>g DEF CloseRun, FailTask, At
  <2>2. Ledger!RunningAttempts(t) = {} /\ Told(t)
    BY <1>0, <2>1 DEF Hands
  <2>3. status'[t] # "running" /\ UNCHANGED attempts
    BY <1>0, <1>11, <2>2, RunningIsLeft DEF CloseRun, FailTask
  <2> QED
    BY <1>same, <2>1, <2>2, <2>3 DEF Hands
<1>12. CASE CancelOwnTask(t)
  <2>1. /\ pc[t] = "cancelTask" /\ UNCHANGED <<attempts, group, ending>>
    BY <1>12 DEF CancelOwnTask, At, Ledger!CancelTask
  <2>2. \/ pc'[t] = "rescue"
        \/ pc'[t] = "idle" /\ status'[t] = "cancelled"
    BY <1>0, <1>12, <1>g DEF CancelOwnTask, Ledger!CancelTask, Ledger!MoveTask
  <2> QED
    BY <1>0, <1>same, <2>1, <2>2 DEF Hands
<1>13. CASE RescueAttempt(t)
  <2>0. Ledger!RunningAttempts(t) # {} /\ Told(t) /\ UNCHANGED <<group, ending>>
    BY <1>0, <1>13 DEF RescueAttempt, At, Hands
  <2>1. PICK a \in Ledger!RunningAttempts(t) :
            Ledger!FinishAttempt(Service, a, "failed", "none") /\ pc'[t] = "rescueTask"
    BY <1>13, <1>g, <2>0 DEF RescueAttempt
  <2>2. a \in DOMAIN attempts
    BY DEF Ledger!RunningAttempts, Ledger!AttemptIds
  <2>3. RowEnds(a, "failed")
    BY <1>0, <2>1, <2>2, FinishEnds DEF IInv, TypeOK
  <2>4. AttemptsOf(t)' = AttemptsOf(t)
    BY <2>3 DEF RowEnds, AttemptsOf
  <2>5. Told(t)'
    BY <2>0, <2>4, ToldKept DEF Observable
  <2>6. \A b \in Ledger!RunningAttempts(t) : b = a
    <3>1. DOMAIN attempts \subseteq Nat
      BY <1>0, Rows DEF IInv, TypeOK
    <3> QED
      BY <1>0, <3>1 DEF IInv, OnlyNewestRuns, IsNewest, AttemptsOf
  <2>7. Ledger!RunningAttempts(t)' = {}
    <3>1. Ledger!RunningAttempts(t)' \subseteq Ledger!RunningAttempts(t)
      BY <1>0, <2>4, RunningShrinks DEF Next
    <3> QED
      BY <2>3, <2>6, <3>1 DEF RowEnds, Ledger!RunningAttempts
  <2> QED
    BY <2>1, <2>5, <2>7 DEF Hands
<1>14. CASE RescueTask(t)
  <2>1. /\ pc[t] = "rescueTask" /\ pc'[t] = "idle"
        /\ UNCHANGED <<attempts, group, ending>>
    BY <1>14, <1>g DEF RescueTask, At, Ledger!TransitionTask
  <2>2. Ledger!RunningAttempts(t) = {}
    BY <1>0, <2>1 DEF Hands
  <2>3. status'[t] # "running"
    <3>1. CASE status[t] \in {"queued", "running"}
      <4>1. Ledger!MayTransition(t, "failed")
        BY <2>2, <3>1 DEF Ledger!MayTransition, Ledger!ValidTransitions,
           Ledger!RunningImplementations
      <4> QED
        BY <1>0, <1>14, <3>1, <4>1 DEF RescueTask, Ledger!TransitionTask, Ledger!MoveTask
    <3>2. CASE status[t] \notin {"queued", "running"}
      BY <1>14, <3>2 DEF RescueTask
    <3> QED
      BY <3>1, <3>2
  <2> QED
    BY <1>0, <1>same, <2>1, <2>2, <2>3 DEF Hands
<1> QED
  BY <1>1, <1>2, <1>3, <1>4, <1>5, <1>6, <1>7, <1>8, <1>9, <1>10, <1>11, <1>12, <1>13, <1>14
  DEF WorkerStep

LEMMA SoleInvInit == Init => SoleInv
<1> SUFFICES ASSUME Init PROVE SoleInv
  OBVIOUS
<1>1. IInv
  BY IInvInit
<1>2. DOMAIN attempts = {} /\ ScheduleIsFresh
  BY DEF Init, Ledger!Init, ScheduleIsFresh, NoRequest
<1>3. \A t \in Tasks : Hands(t)
  BY <1>2 DEF Init, Ledger!Init, Hands, Told, Ledger!RunningAttempts, Ledger!AttemptIds
<1> QED
  BY <1>1, <1>2, <1>3 DEF SoleInv

LEMMA SoleInvNext == Operators = {} => (SoleInv /\ [Next]_vars => SoleInv')
<1> SUFFICES ASSUME Operators = {}, SoleInv, [Next]_vars PROVE SoleInv'
  OBVIOUS
<1>1. IInv' /\ ScheduleIsFresh'
  BY IInvNext, ScheduleStaysFresh DEF SoleInv
<1>2. \A t \in Tasks : Hands(t)'
  <2>1. CASE UNCHANGED vars
    BY <2>1 DEF vars, ledger, worker, SoleInv, Hands, Told, IsNewest, AttemptsOf,
       Observable, Ledger!RunningAttempts, Ledger!AttemptIds
  <2>2. CASE OtherStep
    BY <2>2, OthersKeepHands
  <2>3. ASSUME NEW t \in Tasks, WorkerStep(t), NEW u \in Tasks PROVE Hands(u)'
    <3>1. CASE u = t
      BY <2>3, <3>1, WorkerHands
    <3>2. CASE u # t
      <4>1. Hands(u) /\ IInv
        BY DEF SoleInv
      <4>2. /\ AttemptsOf(u)' = AttemptsOf(u) /\ pc'[u] = pc[u]
            /\ ending'[u] = ending[u] /\ status'[u] = status[u]
            /\ \A a \in AttemptsOf(u) : attempts'[a] = attempts[a] /\ group'[a] = group[a]
        BY <2>3, <3>2, <4>1, BystandersAreQuiet, WorkersAreLocal, WorkerMoves
        DEF Quiet, WorkerLocal
      <4> QED
        BY <4>1, <4>2, StillHands DEF Observable
    <3> QED
      BY <3>1, <3>2
  <2> QED
    BY <2>1, <2>2, <2>3, NextIsWorkerOrOther
<1> QED
  BY <1>1, <1>2 DEF SoleInv

-----------------------------------------------------------------------------
(* The results.                                                             *)

\* Every variable of the service holds a value of its type, and a worker past
\* its start has an attempt of its own task.
THEOREM TypeCorrect == Spec => []TypeOK
<1>1. IInv => TypeOK
  BY DEF IInv
<1> QED
  BY <1>1, Invariance, PTL

\* Whatever requests, workers, process groups, crashes and reconciliations do to
\* each other, the ledger sees its own operations only.
LEMMA ServiceUsesLedger == Spec => Ledger!Spec
<1>1. Init => Ledger!Init
  BY InitUsesLedger
<1>2. IInv /\ [Next]_vars => [Ledger!Next]_(Ledger!vars)
  BY StepUsesLedger
<1> QED
  BY <1>1, <1>2, Invariance, PTL DEF Spec, Ledger!Spec

\* So the invariants of the ledger hold of the service ...
THEOREM LedgerInvariants ==
    Spec => [](Ledger!AuditIsCurrent /\ Ledger!OneRunningPerItem /\ Ledger!QuietWhenStopped)
<1>1. Spec => LP!Spec
  BY ServiceUsesLedger, SameSpec, PTL DEF Ledger!Spec, LP!Spec
<1>2. LP!Spec => []LP!IInv
  BY LedgerBounds, LP!Invariance
<1>3. LP!IInv => Ledger!AuditIsCurrent /\ Ledger!OneRunningPerItem /\ Ledger!QuietWhenStopped
  BY SameInvariants DEF LP!IInv
<1> QED
  BY <1>1, <1>2, <1>3, PTL

\* ... and so does what it promises of every step: no crash, cancel or rescue
\* takes an outcome back.
THEOREM OutcomesStayFinal == Spec => Ledger!OutcomesAreFinal
<1>1. Spec => LP!Spec
  BY ServiceUsesLedger, SameSpec, PTL DEF Ledger!Spec, LP!Spec
<1>2. LP!Spec => LP!OutcomesAreFinal
  BY LedgerBounds, LP!Finality
<1> QED
  BY <1>1, <1>2, SameFinality, PTL

\* An attempt recorded as cancelled has left nothing running, and work offered
\* for review has succeeded last.
THEOREM EarnedOutcome == Spec => []OutcomeIsEarned
<1>1. IInv => OutcomeIsEarned
  BY DEF IInv
<1> QED
  BY <1>1, Invariance, PTL

\* Without an operator, a worker that is done has handed its work over.
THEOREM HandOver == Operators = {} => (Spec => []DoneMeansHandedOver)
<1>1. SoleInv => DoneMeansHandedOver
  BY DEF SoleInv, Hands, Told, DoneMeansHandedOver, At
<1>2. CASE Operators = {}
  <2>1. SoleInv /\ [Next]_vars => SoleInv'
    BY <1>2, SoleInvNext
  <2> QED
    BY <1>1, <2>1, SoleInvInit, PTL DEF Spec
<1> QED
  BY <1>2
=============================================================================
