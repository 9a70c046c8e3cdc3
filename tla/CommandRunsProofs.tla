--------------------------- MODULE CommandRunsProofs ---------------------------
(* Theorems about CommandRuns, for any commands, work items, children and   *)
(* bounds: every step of a command and of a coordinator's tools is a step   *)
(* of the ledger, a review that the policy allowed can be recorded, a       *)
(* decision covers its targets, and commands that are given one after       *)
(* another leave nothing running.                                           *)
EXTENDS CommandRuns, FiniteSetTheorems, SequenceTheorems, TLAPS

-----------------------------------------------------------------------------
(* The ledger of the commands is the ledger the theorems are about.         *)

LP == INSTANCE TaskLedgerProofs WITH
    Tasks <- {Task}, Clients <- Runs \X {"run", "tool"},
    WorkItems <- Items \cup {"primary", "coordinator", "review"},
    Providers <- Builders \cup Reviewers \cup {"anthropic", "openai", "operator"}

\* The two instances of the ledger are one.
LEMMA SameTypes == LP!TypeOK <=> Ledger!TypeOK
  BY DEF Ledger!TaskStatus, LP!TaskStatus, Ledger!AttemptStatus,
         LP!AttemptStatus, Ledger!AttemptKind, LP!AttemptKind,
         Ledger!Verdict, LP!Verdict, Ledger!Evidence, LP!Evidence,
         Ledger!Summary, LP!Summary, Ledger!Attempt, LP!Attempt,
         Ledger!Review, LP!Review, Ledger!Event, LP!Event, Ledger!NoCall,
         LP!NoCall, Ledger!ReviewCall, LP!ReviewCall, Ledger!CompleteCall,
         LP!CompleteCall, Ledger!ReconcileCall, LP!ReconcileCall,
         Ledger!SettleCall, LP!SettleCall, Ledger!Call, LP!Call,
         Ledger!AttemptIds, LP!AttemptIds, Ledger!TypeOK, LP!TypeOK

LEMMA SameSpec ==
    /\ LP!Init <=> Ledger!Init
    /\ [LP!Next]_(LP!vars) <=> [Ledger!Next]_(Ledger!vars)
<1>1. LP!Init <=> Ledger!Init
  BY DEF Ledger!Init, LP!Init, Ledger!NoCall, LP!NoCall
<1>2. LP!Next <=> Ledger!Next
  BY DEF Ledger!TaskStatus, LP!TaskStatus, Ledger!AttemptStatus,
         LP!AttemptStatus, Ledger!AttemptKind, LP!AttemptKind,
         Ledger!Verdict, LP!Verdict, Ledger!Evidence, LP!Evidence,
         Ledger!Summary, LP!Summary, Ledger!Attempt, LP!Attempt,
         Ledger!Review, LP!Review, Ledger!Event, LP!Event,
         Ledger!ValidTransitions, LP!ValidTransitions, Ledger!NoCall,
         LP!NoCall, Ledger!ReviewCall, LP!ReviewCall, Ledger!CompleteCall,
         LP!CompleteCall, Ledger!ReconcileCall, LP!ReconcileCall,
         Ledger!SettleCall, LP!SettleCall, Ledger!Call, LP!Call,
         Ledger!AttemptIds, LP!AttemptIds, Ledger!ReviewIds, LP!ReviewIds,
         Ledger!RunningAttempts, LP!RunningAttempts, Ledger!Implementations,
         LP!Implementations, Ledger!RunningImplementations,
         LP!RunningImplementations, Ledger!LatestAttempts,
         LP!LatestAttempts, Ledger!ReviewsOf, LP!ReviewsOf,
         Ledger!IsLatestReview, LP!IsLatestReview, Ledger!Approves,
         LP!Approves, Ledger!Idle, LP!Idle,
         Ledger!Become, LP!Become, Ledger!Abandon, LP!Abandon,
         Ledger!MoveTask, LP!MoveTask, Ledger!CreateTask, LP!CreateTask,
         Ledger!MayTransition, LP!MayTransition, Ledger!TransitionTask,
         LP!TransitionTask, Ledger!MayCancel, LP!MayCancel,
         Ledger!CancelTask, LP!CancelTask, Ledger!WorkItemFree,
         LP!WorkItemFree, Ledger!StartAttempt, LP!StartAttempt,
         Ledger!FinishRow, LP!FinishRow, Ledger!FinishAttempt,
         LP!FinishAttempt, Ledger!SetAttemptProcess, LP!SetAttemptProcess,
         Ledger!ProcessExits, LP!ProcessExits, Ledger!MayReview,
         LP!MayReview, Ledger!BuildReview, LP!BuildReview,
         Ledger!InsertReview, LP!InsertReview, Ledger!AtComplete,
         LP!AtComplete, Ledger!CompleteBegin, LP!CompleteBegin,
         Ledger!CompleteNoneRunning, LP!CompleteNoneRunning,
         Ledger!CompleteLatest, LP!CompleteLatest, Ledger!CompleteCheck,
         LP!CompleteCheck, Ledger!CompleteCommit, LP!CompleteCommit,
         Ledger!Reason, LP!Reason, Ledger!Settling, LP!Settling,
         Ledger!ReconcileBegin, LP!ReconcileBegin, Ledger!AtRow, LP!AtRow,
         Ledger!NextRow, LP!NextRow, Ledger!ReconcileSkip, LP!ReconcileSkip,
         Ledger!SeenAlive, LP!SeenAlive, Ledger!ReconcileFail,
         LP!ReconcileFail, Ledger!AtSettle, LP!AtSettle, Ledger!SettleNext,
         LP!SettleNext, Ledger!SettleStatus, LP!SettleStatus,
         Ledger!SettleRunning, LP!SettleRunning, Ledger!SettleTransition,
         LP!SettleTransition, Ledger!Settle, LP!Settle, Ledger!TaskStep,
         LP!TaskStep, Ledger!AttemptStep, LP!AttemptStep, Ledger!ReviewStep,
         LP!ReviewStep, Ledger!CompleteStep, LP!CompleteStep,
         Ledger!ReconcileStep, LP!ReconcileStep, Ledger!ClientStep,
         LP!ClientStep, Ledger!Next, LP!Next, Ledger!ledger, LP!ledger
<1> QED
  BY <1>1, <1>2 DEF LP!vars, Ledger!vars

LEMMA SameInvariants ==
    /\ LP!AuditIsCurrent <=> Ledger!AuditIsCurrent
    /\ LP!OneRunningPerItem <=> Ledger!OneRunningPerItem
    /\ LP!QuietWhenStopped <=> Ledger!QuietWhenStopped
    /\ LP!ReviewsAreIndependent <=> Ledger!ReviewsAreIndependent
    /\ LP!CompletedHasApproval <=> Ledger!CompletedHasApproval
    /\ LP!OutcomesAreFinal <=> Ledger!OutcomesAreFinal
<1>1. LP!AuditIsCurrent <=> Ledger!AuditIsCurrent
  BY DEF LP!AuditIsCurrent, Ledger!AuditIsCurrent
<1>2. LP!OneRunningPerItem <=> Ledger!OneRunningPerItem
  BY DEF LP!OneRunningPerItem, Ledger!OneRunningPerItem,
         LP!RunningImplementations, Ledger!RunningImplementations,
         LP!RunningAttempts, Ledger!RunningAttempts,
         LP!Implementations, Ledger!Implementations,
         LP!AttemptIds, Ledger!AttemptIds
<1>3. LP!QuietWhenStopped <=> Ledger!QuietWhenStopped
  BY DEF LP!QuietWhenStopped, Ledger!QuietWhenStopped,
         LP!RunningImplementations, Ledger!RunningImplementations,
         LP!RunningAttempts, Ledger!RunningAttempts,
         LP!Implementations, Ledger!Implementations,
         LP!AttemptIds, Ledger!AttemptIds
<1>4. LP!ReviewsAreIndependent <=> Ledger!ReviewsAreIndependent
  BY DEF LP!ReviewsAreIndependent, Ledger!ReviewsAreIndependent,
         LP!Independent, Ledger!Independent, LP!ReviewIds, Ledger!ReviewIds,
         LP!Implementations, Ledger!Implementations,
         LP!AttemptIds, Ledger!AttemptIds
<1>5. LP!CompletedHasApproval <=> Ledger!CompletedHasApproval
  BY DEF LP!CompletedHasApproval, Ledger!CompletedHasApproval,
         LP!HasApproval, Ledger!HasApproval, LP!Approves, Ledger!Approves,
         LP!ReviewIds, Ledger!ReviewIds
<1>6. LP!OutcomesAreFinal <=> Ledger!OutcomesAreFinal
  BY DEF LP!OutcomesAreFinal, Ledger!OutcomesAreFinal, LP!vars, Ledger!vars,
         LP!AttemptIds, Ledger!AttemptIds, LP!ReviewIds, Ledger!ReviewIds
<1> QED
  BY <1>1, <1>2, <1>3, <1>4, <1>5, <1>6

\* The assumption of the ledger's theorems.
LEMMA LedgerBounds == LP!BoundsAssumption
  BY RunsAssumption DEF LP!BoundsAssumption

-----------------------------------------------------------------------------
(* The inductive invariant.                                                 *)

\* The steps of a run between Start and its end.
Begun == {"prepare", "launch", "record", "wait", "list", "children", "own", "look",
          "settle"}

\* Run r has recorded its verdict on attempt a.
Reviewed(r, a) ==
    \E q \in Ledger!ReviewsOf(a) :
        /\ reviews[q].provider = ProviderOf(r)
        /\ reviews[q].verdict = verdict[r]

\* What run r may rely on at each of its steps.
Placed(r) ==
    /\ pc[r] \in Begun => mine[r] \in DOMAIN attempts
    /\ pc[r] = "children" => todo[r] # {}
    /\ pc[r] = "review" =>
        /\ verdict[r] \in Ledger!Verdict
        /\ \A a \in targets[r] : a \in todo[r] \/ Reviewed(r, a)
    /\ pc[r] = "decide" => \A a \in targets[r] : Reviewed(r, a)
    /\ call[Host(r)].op = "review" =>
        /\ pc[r] = "review"
        /\ call[Host(r)].review.provider = ProviderOf(r)
        /\ call[Host(r)].review.verdict = verdict[r]

\* What the policy saw of an attempt that it let a child review.
SentHolds ==
    \A s \in sent :
        /\ attempts[s.attempt].kind = "implementation"
        /\ attempts[s.attempt].status = "succeeded"
        /\ attempts[s.attempt].provider # s.provider

IInv ==
    /\ TypeOK
    /\ \A r \in Runs : Placed(r)
    /\ SentHolds

-----------------------------------------------------------------------------
(* Every step is a step of the ledger, or leaves it alone.                  *)

LEMMA Rows ==
    ASSUME Ledger!TypeOK
    PROVE  /\ attempts \in Seq(LP!Attempt)
           /\ Len(attempts) \in Nat
           /\ DOMAIN attempts = 1..Len(attempts)
           /\ \A a \in DOMAIN attempts :
                /\ attempts[a].task = Task
                /\ attempts[a].status \in {"running", "succeeded", "failed", "cancelled"}
<1>1. attempts \in Seq(LP!Attempt)
  BY SameTypes DEF LP!TypeOK
<1>2. Len(attempts) \in Nat /\ DOMAIN attempts = 1..Len(attempts)
  BY <1>1, LenProperties
<1>3. \A a \in DOMAIN attempts : attempts[a] \in LP!Attempt
  BY <1>1, <1>2, ElementOfSeq
<1> QED
  BY <1>1, <1>2, <1>3 DEF LP!Attempt, LP!AttemptStatus

\* The first of some attempts is one of them: of the intervals from one that hold any
\* of them, take the smallest.
LEMMA FirstIsOne ==
    ASSUME NEW n \in Nat, NEW S, S \subseteq 1..n, S # {}
    PROVE  First(S) \in S /\ \A b \in S : First(S) <= b
<1> DEFINE Marks == {k \in 1..n : S \cap (1..k) # {}}
           Reach == {1..k : k \in Marks}
<1>1. Reach \subseteq SUBSET (1..n) /\ Reach # {}
  <2>1. PICK y \in S : TRUE
    OBVIOUS
  <2>2. y \in 1..y /\ y \in Marks
    OBVIOUS
  <2> QED
    BY <2>2
<1>2. IsFiniteSet(1..n)
  BY FS_Interval
<1>3. PICK D : D = 1..n
  OBVIOUS
<1>4. \E s \in Reach : \A t \in Reach : t \subseteq s => t = s
  <2> HIDE DEF Reach
  <2>1. IsFiniteSet(D) /\ Reach \subseteq SUBSET D
    BY <1>1, <1>2, <1>3
  <2>2. IsWellFoundedOn(StrictSubsetOrdering(D), SUBSET D)
    BY <2>1, FS_StrictSubsetOrderingWellFounded, FS_FiniteSubsetsOfFinite
  <2>3. \E s \in Reach : \A t \in Reach : <<t, s>> \notin StrictSubsetOrdering(D)
    BY <1>1, <2>1, <2>2, WFMin
  <2> QED
    BY <2>1, <2>3 DEF StrictSubsetOrdering
<1>5. PICK k \in Marks : \A t \in Reach : t \subseteq 1..k => t = 1..k
  BY <1>4
<1>6. PICK y \in S : y \in 1..k
  OBVIOUS
<1>7. ASSUME NEW b \in S
      PROVE  k <= b
  <2> SUFFICES ASSUME b < k PROVE FALSE
    OBVIOUS
  <2>1. b \in 1..n /\ b \in 1..b /\ 1..b \subseteq 1..k
    OBVIOUS
  <2>2. 1..b \in Reach
    BY <2>1
  <2>3. 1..b = 1..k
    BY <1>5, <2>1, <2>2
  <2> QED
    BY <2>3
<1>8. y = k
  BY <1>6, <1>7
<1>9. k \in S /\ \A b \in S : k <= b
  BY <1>7, <1>8
<1> QED
  BY <1>9 DEF First

\* Of the rows that a run has still to fail.
LEMMA FirstOfTodo ==
    ASSUME IInv, NEW r \in Runs, todo[r] # {}
    PROVE  First(todo[r]) \in todo[r] /\ First(todo[r]) \in DOMAIN attempts
<1>1. Len(attempts) \in Nat /\ DOMAIN attempts = 1..Len(attempts)
  BY Rows DEF IInv, TypeOK
<1>2. todo[r] \subseteq 1..Len(attempts)
  BY <1>1 DEF IInv, TypeOK
<1>3. PICK n \in Nat : n = Len(attempts)
  BY <1>1
<1>4. PICK S : S = todo[r]
  OBVIOUS
<1>5. First(S) \in S
  BY <1>2, <1>3, <1>4, FirstIsOne
<1> QED
  BY <1>1, <1>2, <1>4, <1>5

LEMMA StepUsesLedger ==
    ASSUME IInv, [Next]_vars
    PROVE  [Ledger!Next]_(Ledger!vars)
<1> USE DEF Ledger!AttemptIds
<1> DEFINE Uses == [Ledger!Next]_(Ledger!vars)
           Clients == Runs \X {"run", "tool"}
\* The operations that the commands and the tools call.
<1>same. ASSUME UNCHANGED <<ledger, live>> PROVE Uses
  BY <1>same DEF ledger, Ledger!vars
<1>task. ASSUME NEW c \in Clients,
                \/ Ledger!CreateTask(c, Task)
                \/ \E target \in Ledger!TaskStatus :
                        Ledger!TransitionTask(c, Task, target)
         PROVE  Uses
  <2>1. Ledger!TaskStep(c)
    BY <1>task DEF Ledger!TaskStep
  <2> QED
    BY <2>1 DEF Ledger!ClientStep, Ledger!Next
<1>move. ASSUME NEW c \in Clients, NEW target \in Ledger!TaskStatus, MoveTo(c, target)
         PROVE  Uses
  BY <1>move, <1>task, <1>same DEF MoveTo
<1>start. ASSUME NEW c \in Clients, NEW k \in Ledger!AttemptKind,
                 NEW i \in Items \cup {"primary", "coordinator", "review"},
                 NEW p \in Builders \cup Reviewers \cup {"anthropic", "openai", "operator"},
                 Ledger!StartAttempt(c, Task, k, i, p)
          PROVE  Uses
  <2>1. Ledger!AttemptStep(c)
    BY <1>start DEF Ledger!AttemptStep
  <2> QED
    BY <2>1 DEF Ledger!ClientStep, Ledger!Next
<1>row. ASSUME NEW c \in Clients, NEW a \in DOMAIN attempts,
               \/ Ledger!SetAttemptProcess(c, a)
               \/ \E result \in Ledger!AttemptStatus, e \in Ledger!Evidence :
                        Ledger!FinishAttempt(c, a, result, e)
        PROVE  Uses
  <2>1. Ledger!AttemptStep(c)
    BY <1>row DEF Ledger!AttemptStep
  <2> QED
    BY <2>1 DEF Ledger!ClientStep, Ledger!Next
<1>review. ASSUME NEW c \in Clients,
                  \/ Ledger!InsertReview(c)
                  \/ \E a \in DOMAIN attempts, v \in Ledger!Verdict, e \in Ledger!Evidence,
                        p \in Builders \cup Reviewers \cup {"anthropic", "openai", "operator"} :
                            Ledger!BuildReview(c, Task, a, p, v, e)
           PROVE  Uses
  <2>1. Ledger!ReviewStep(c)
    BY <1>review DEF Ledger!ReviewStep
  <2> QED
    BY <2>1 DEF Ledger!ClientStep, Ledger!Next
<1>complete. ASSUME NEW c \in Clients, Ledger!CompleteStep(c) PROVE Uses
  BY <1>complete DEF Ledger!ClientStep, Ledger!Next
<1>abandon. ASSUME NEW c \in Clients, Ledger!Abandon(c) PROVE Uses
  BY <1>abandon DEF Ledger!ClientStep, Ledger!Next
<1>exits. ASSUME NEW a, live' \in {live, live \ {a}}, UNCHANGED ledger
          PROVE  Uses
  <2>1. CASE live' = live
    BY <1>exits, <1>same, <2>1
  <2>2. CASE live' # live
    <3>0. live # live \ {a}
      BY <1>exits, <2>2
    <3>3. a \in live /\ live \subseteq DOMAIN attempts
      BY <3>0, Zenon DEF IInv, TypeOK, Ledger!TypeOK
    <3>1. a \in DOMAIN attempts
      BY <3>3
    <3>2. Ledger!ProcessExits(a)
      BY <1>exits, <2>2 DEF Ledger!ProcessExits, Ledger!ledger, ledger
    <3> QED
      BY <3>1, <3>2 DEF Ledger!Next
  <2> QED
    BY <2>1, <2>2
<1> SUFFICES Uses
  OBVIOUS
<1> HIDE DEF Uses
<1>0. \A r \in Runs : Host(r) \in Clients /\ Tool(r) \in Clients
  BY DEF Host, Tool
<1>s. /\ {"running", "needs_review", "blocked", "failed"} \subseteq Ledger!TaskStatus
      /\ {"succeeded", "failed"} \subseteq Ledger!AttemptStatus
      /\ {"none", "some"} \subseteq Ledger!Evidence
      /\ {"implementation", "coordinator"} \subseteq Ledger!AttemptKind
  BY DEF Ledger!TaskStatus, Ledger!AttemptStatus, Ledger!Evidence, Ledger!AttemptKind
<1> HIDE DEF Clients
\* The actions of a command.
<1>1. ASSUME NEW r \in Runs, Command(r) PROVE Uses
  <2>i. Host(r) \in Clients
    BY <1>0
  <2>1. CASE Create(r)
    BY <2>1, <2>i, <1>task DEF Create
  <2>2. CASE Plan(r) \/ PlanReview(r) \/ PlanPending(r) \/ Read(r) \/ Prepare(r)
             \/ Launch(r) \/ List(r) \/ Look(r)
    BY <2>2, <1>same DEF Plan, PlanReview, PlanPending, Read, Prepare, Launch, List, Look
  <2>3. ASSUME NEW a, NEW v, PlanOwner(r, a, v) PROVE Uses
    BY <2>3, <1>same DEF PlanOwner
  <2>4. CASE Move(r)
    BY <2>4, <2>i, <1>s, <1>move DEF Move
  <2>5. CASE Start(r)
    <3>1. /\ ItemOf(r) \in Items \cup {"primary", "coordinator", "review"}
          /\ ProviderOf(r) \in Builders \cup Reviewers \cup {"anthropic", "openai", "operator"}
      BY DEF ItemOf, ProviderOf
    <3>2. PICK k \in Ledger!AttemptKind :
                Ledger!StartAttempt(Host(r), Task, k, ItemOf(r), ProviderOf(r))
      BY <2>5, <1>s DEF Start
    <3> QED
      BY <2>i, <3>1, <3>2, <1>start
  <2>6. CASE Record(r)
    <3>1. mine[r] \in DOMAIN attempts
      BY <2>6 DEF Record, At, IInv, Placed, Begun
    <3> QED
      BY <2>6, <2>i, <3>1, <1>row DEF Record
  <2>7. ASSUME Exit(r) \/ TearDown(r) \/ SurvivorEnds(r) PROVE Uses
    <3>1. PICK a : a = mine[r]
      OBVIOUS
    <3>2. live' \in {live, live \ {a}} /\ UNCHANGED ledger
      BY <2>7, <3>1 DEF Exit, TearDown, Leave, SurvivorEnds
    <3> QED
      BY <3>2, <1>exits
  <2>8. CASE FailChild(r)
    <3>1. First(todo[r]) \in DOMAIN attempts
      BY <2>8, FirstOfTodo DEF FailChild, At, IInv, Placed
    <3>2. Ledger!FinishAttempt(Host(r), First(todo[r]), "failed", "none")
      BY <2>8 DEF FailChild
    <3> QED
      BY <2>i, <3>1, <3>2, <1>s, <1>row
  <2>9. CASE Own(r)
    <3>1. mine[r] \in DOMAIN attempts
      BY <2>9 DEF Own, At, IInv, Placed, Begun
    <3>2. PICK result \in Ledger!AttemptStatus :
                Ledger!FinishAttempt(Host(r), mine[r], result, "some")
      BY <2>9, <1>s DEF Own
    <3> QED
      BY <2>i, <3>1, <3>2, <1>s, <1>row
  <2>10. CASE Settle(r)
    <3>1. Outcome(r) \in Ledger!TaskStatus
      BY <1>s DEF Outcome
    <3> QED
      BY <2>10, <2>i, <3>1, <1>move DEF Settle
  <2>11. ASSUME NEW a \in DOMAIN attempts, BuildReview(r, a) PROVE Uses
    <3>1. ProviderOf(r) \in Builders \cup Reviewers \cup {"anthropic", "openai", "operator"}
      BY DEF ProviderOf
    <3>2. verdict[r] \in Ledger!Verdict
      BY <2>11 DEF BuildReview, At, IInv, Placed
    <3>3. Ledger!BuildReview(Host(r), Task, a, ProviderOf(r), verdict[r], "some")
      BY <2>11 DEF BuildReview
    <3> QED
      BY <2>i, <3>1, <3>2, <3>3, <1>s, <1>review
  <2>12. CASE InsertReview(r)
    BY <2>12, <2>i, <1>review DEF InsertReview
  <2>13. CASE Approve(r)
    BY <2>13, <2>i, <1>complete DEF Approve
  <2>14. CASE Reject(r)
    BY <2>14, <2>i, <1>s, <1>move DEF Reject
  <2>15. ASSUME Stop(r) PROVE Uses
    BY <2>15, <2>i, <1>abandon, <1>same DEF Stop
  <2>16. CASE End(r) \/ Raise(r) \/ Terminate(r) \/ SurvivorEnds(r)
    BY <2>16, <2>7, <2>15 DEF End, Raise, Terminate
  <2> QED
    BY <1>1, <2>1, <2>2, <2>3, <2>4, <2>5, <2>6, <2>8, <2>9, <2>10, <2>11, <2>12, <2>13,
       <2>14, <2>16 DEF Command
\* The actions of its coordinator's tools.
<1>2. ASSUME NEW r \in Runs, Agent(r) PROVE Uses
  <2>i. Tool(r) \in Clients
    BY <1>0
  <2>1. CASE ToolRead(r) \/ \E a \in DOMAIN attempts, p \in Reviewers : Dispatch(r, a, p)
    BY <2>1, <1>same DEF ToolRead, Dispatch
  <2>2. CASE ToolMove(r) \/ ToolApproved(r)
    BY <2>2, <2>i, <1>s, <1>move DEF ToolMove, ToolApproved
  <2>3. ASSUME NEW i \in Items, NEW p \in Builders, ToolStart(r, i, p) PROVE Uses
    <3>1. Ledger!StartAttempt(Tool(r), Task, "implementation", i, p)
      BY <2>3 DEF ToolStart
    <3> QED
      BY <2>i, <3>1, <1>s, <1>start
  <2>4. ASSUME NEW a \in DOMAIN attempts, NEW result \in Ledger!AttemptStatus,
               ToolFinish(r, a, result)
        PROVE  Uses
    <3>1. Ledger!FinishAttempt(Tool(r), a, result, "some")
      BY <2>4 DEF ToolFinish
    <3> QED
      BY <2>i, <3>1, <1>s, <1>row
  <2>5. ASSUME NEW a \in DOMAIN attempts, NEW p \in Reviewers, NEW v \in Ledger!Verdict,
               ToolReview(r, a, p, v)
        PROVE  Uses
    <3>1. Ledger!BuildReview(Tool(r), Task, a, p, v, "some")
      BY <2>5 DEF ToolReview
    <3> QED
      BY <2>i, <3>1, <1>s, <1>review
  <2>6. CASE ToolInsert(r)
    BY <2>6, <2>i, <1>review DEF ToolInsert
  <2>7. CASE ToolComplete(r)
    BY <2>7, <2>i, <1>s, <1>complete, <1>task DEF ToolComplete
  <2>8. CASE ToolRaises(r)
    BY <2>8, <2>i, <1>abandon, <1>same DEF ToolRaises
  <2> QED
    BY <1>2, <2>1, <2>2, <2>3, <2>4, <2>5, <2>6, <2>7, <2>8 DEF Agent
<1>3. CASE UNCHANGED vars
  BY <1>3, <1>same DEF vars
<1> QED
  BY <1>1, <1>2, <1>3 DEF Next

\* No row is lost, one that ended is frozen, and reviews stay as they are.
RowsKept ==
    /\ \A a \in DOMAIN attempts :
        /\ a \in DOMAIN attempts'
        /\ attempts'[a].kind = attempts[a].kind
        /\ attempts'[a].provider = attempts[a].provider
        /\ attempts[a].status # "running" => attempts'[a] = attempts[a]
    /\ \A q \in DOMAIN reviews : q \in DOMAIN reviews' /\ reviews'[q] = reviews[q]

LEMMA LedgerKept ==
    ASSUME IInv, [Next]_vars
    PROVE  Ledger!TypeOK' /\ RowsKept
<1>1. LP!TypeOK /\ [LP!Next]_(LP!vars)
  BY StepUsesLedger, SameSpec, SameTypes DEF IInv, TypeOK
<1>2. LP!TypeOK'
  BY <1>1, LedgerBounds, LP!TypeNext
<1>3. LP!TypeOK' <=> Ledger!TypeOK'
  BY SameTypes, PTL
<1>4. LP!AttemptsKept /\ LP!ReviewsKept
  BY <1>1, LedgerBounds, LP!RowsKept
<1> QED
  BY <1>2, <1>3, <1>4
  DEF RowsKept, LP!AttemptsKept, LP!AttemptIds, LP!SameWork, LP!ReviewsKept, LP!ReviewIds

-----------------------------------------------------------------------------
(* What one step does to the runs.                                          *)

\* The variables of the runs have their types after a step that keeps the rows.
ControlOK ==
    /\ pc \in [Runs -> Step]
    /\ mine \in [Runs -> {0} \cup DOMAIN attempts]
    /\ ending \in [Runs -> Ending]
    /\ todo \in [Runs -> SUBSET DOMAIN attempts]
    /\ targets \in [Runs -> SUBSET DOMAIN attempts]
    /\ verdict \in [Runs -> Ledger!Verdict \cup {"none"}]
    /\ process \in [Runs -> {"none", "live", "orphaned", "gone"}]
    /\ tool \in [Runs -> {"idle", "move", "start", "review", "approved"}]
    /\ sent \subseteq [attempt : DOMAIN attempts, provider : Reviewers]
    /\ strays \subseteq Runs
    /\ terminated \subseteq Interrupted

\* Run s is where it was.
Rests(s) ==
    /\ pc'[s] = pc[s] /\ mine'[s] = mine[s] /\ ending'[s] = ending[s]
    /\ todo'[s] = todo[s] /\ targets'[s] = targets[s] /\ verdict'[s] = verdict[s]
    /\ process'[s] = process[s]
    /\ call'[Host(s)] = call[Host(s)]

\* Operations of the ledger that have one step leave all calls alone; the others
\* change the call of their client only.
LEMMA CallsKept ==
    ASSUME NEW c, \/ Ledger!CreateTask(c, Task)
                  \/ \E target : Ledger!TransitionTask(c, Task, target) \/ MoveTo(c, target)
                  \/ \E k, i, p : Ledger!StartAttempt(c, Task, k, i, p)
                  \/ \E a : Ledger!SetAttemptProcess(c, a)
                  \/ \E a, result, e : Ledger!FinishAttempt(c, a, result, e)
    PROVE  call' = call
BY DEF Ledger!CreateTask, Ledger!TransitionTask, MoveTo, Ledger!StartAttempt,
   Ledger!SetAttemptProcess, Ledger!FinishAttempt, ledger

LEMMA CallMoves ==
    ASSUME Ledger!TypeOK, NEW c \in Runs \X {"run", "tool"},
           Ledger!InsertReview(c) \/ Ledger!CompleteStep(c) \/ Ledger!Abandon(c)
    PROVE  /\ call'[c].op \in {"none", "complete"}
           /\ \A d \in Runs \X {"run", "tool"} : d # c => call'[d] = call[d]
<1>0. call \in [Runs \X {"run", "tool"} -> LP!Call]
  BY SameTypes DEF LP!TypeOK
<1>1. ASSUME NEW k, k.op \in {"none", "complete"}, Ledger!Become(c, k)
      PROVE  /\ call'[c].op \in {"none", "complete"}
             /\ \A d \in Runs \X {"run", "tool"} : d # c => call'[d] = call[d]
  BY <1>0, <1>1 DEF Ledger!Become
<1>2. Ledger!NoCall.op = "none"
  BY DEF Ledger!NoCall
<1>3. CASE Ledger!InsertReview(c) \/ Ledger!Abandon(c) \/ Ledger!CompleteCommit(c)
  BY <1>1, <1>2, <1>3 DEF Ledger!InsertReview, Ledger!Abandon, Ledger!CompleteCommit
<1>4. ASSUME NEW t, Ledger!CompleteBegin(c, t)
      PROVE  /\ call'[c].op \in {"none", "complete"}
             /\ \A d \in Runs \X {"run", "tool"} : d # c => call'[d] = call[d]
  BY <1>1, <1>4 DEF Ledger!CompleteBegin
<1>5. call[c].op = "complete" => call[c] \in LP!CompleteCall
  BY <1>0, LedgerBounds, LP!CallByOp
<1>6. CASE Ledger!CompleteNoneRunning(c)
  <2>1. PICK k : k = [call[c] EXCEPT !.step = "latest"]
    OBVIOUS
  <2>2. Ledger!Become(c, k) /\ call[c].op = "complete"
    BY <1>6, <2>1 DEF Ledger!CompleteNoneRunning, Ledger!AtComplete
  <2>3. k.op = "complete"
    BY <1>5, <2>1, <2>2 DEF LP!CompleteCall
  <2> QED
    BY <1>1, <2>2, <2>3
<1>7. CASE Ledger!CompleteLatest(c)
  <2>1. PICK as, k : /\ k = [call[c] EXCEPT !.step = "reviews", !.todo = as]
                     /\ Ledger!Become(c, k)
    BY <1>7 DEF Ledger!CompleteLatest
  <2>2. call[c].op = "complete"
    BY <1>7 DEF Ledger!CompleteLatest, Ledger!AtComplete
  <2>3. k.op = "complete"
    BY <1>5, <2>1, <2>2 DEF LP!CompleteCall
  <2>4. Ledger!Become(c, k)
    BY <2>1
  <2> QED
    BY <1>1, <2>3, <2>4
<1>8. ASSUME NEW a, Ledger!CompleteCheck(c, a)
      PROVE  /\ call'[c].op \in {"none", "complete"}
             /\ \A d \in Runs \X {"run", "tool"} : d # c => call'[d] = call[d]
  <2>1. PICK as, k : /\ k = [call[c] EXCEPT !.todo = as]
                     /\ Ledger!Become(c, k)
    BY <1>8 DEF Ledger!CompleteCheck
  <2>2. call[c].op = "complete"
    BY <1>8 DEF Ledger!CompleteCheck, Ledger!AtComplete
  <2>3. k.op = "complete"
    BY <1>5, <2>1, <2>2 DEF LP!CompleteCall
  <2>4. Ledger!Become(c, k)
    BY <2>1
  <2> QED
    BY <1>1, <2>3, <2>4
<1> QED
  BY <1>3, <1>4, <1>6, <1>7, <1>8 DEF Ledger!CompleteStep

\* So it is for a call that begins a review.
LEMMA ReviewBuilt ==
    ASSUME Ledger!TypeOK, NEW c \in Runs \X {"run", "tool"},
           NEW a, NEW p, NEW v, NEW e, Ledger!BuildReview(c, Task, a, p, v, e)
    PROVE  /\ call'[c].op = "review"
           /\ call'[c].review.attempt = a
           /\ call'[c].review.provider = p
           /\ call'[c].review.verdict = v
           /\ \A d \in Runs \X {"run", "tool"} : d # c => call'[d] = call[d]
<1>0. call \in [Runs \X {"run", "tool"} -> LP!Call]
  BY SameTypes DEF LP!TypeOK
<1>1. PICK k : k = [op |-> "review",
                    review |-> [task |-> Task, attempt |-> a, provider |-> p, verdict |-> v,
                                evidence |-> IF v = "approve" THEN e ELSE "none",
                                at |-> clock + 1]]
  OBVIOUS
<1>2. /\ k.op = "review" /\ k.review.attempt = a /\ k.review.provider = p
      /\ k.review.verdict = v
  BY <1>1
<1>3. call' = [call EXCEPT ![c] = k]
  BY <1>1 DEF Ledger!BuildReview, Ledger!Become
<1> QED
  BY <1>0, <1>2, <1>3

\* And the review that is inserted is the one of the call.
LEMMA ReviewInserted ==
    ASSUME Ledger!TypeOK, NEW c \in Runs \X {"run", "tool"}, Ledger!InsertReview(c)
    PROVE  /\ call[c].op = "review"
           /\ \E q \in DOMAIN reviews' : reviews'[q] = call[c].review
<1>1. LP!TypeOK /\ LP!InsertReview(c)
  BY SameTypes
  DEF LP!InsertReview, Ledger!InsertReview, LP!Become, Ledger!Become, LP!NoCall, Ledger!NoCall
<1>2. /\ LP!ReviewIds' = LP!ReviewIds \cup {Len(reviews) + 1}
      /\ reviews'[Len(reviews) + 1] = call[c].review
  BY <1>1, LedgerBounds, LP!InsertReviewOK
<1>3. Len(reviews) + 1 \in DOMAIN reviews'
  BY <1>2 DEF LP!ReviewIds
<1> QED
  BY <1>2, <1>3 DEF Ledger!InsertReview

\* The row of a is ended, as result, and no other row changes.
RowEnds(a, result) ==
    /\ attempts[a].status = "running"
    /\ DOMAIN attempts' = DOMAIN attempts
    /\ attempts'[a].task = attempts[a].task
    /\ attempts'[a].status = result
    /\ \A b \in DOMAIN attempts : b # a => attempts'[b] = attempts[b]
    /\ UNCHANGED <<status, live, reviews, call>>

LEMMA FinishEnds ==
    ASSUME Ledger!TypeOK, NEW a \in DOMAIN attempts, NEW c,
           NEW result \in Ledger!AttemptStatus, NEW evidence \in Ledger!Evidence,
           Ledger!FinishAttempt(c, a, result, evidence)
    PROVE  RowEnds(a, result) /\ result # "running"
<1>1. PICK e \in {"none", "some"} : Ledger!FinishRow(a, result, "work", e)
  BY DEF Ledger!FinishAttempt, Ledger!Evidence
<1>2. /\ attempts \in Seq(LP!Attempt) /\ a \in LP!AttemptIds
      /\ result \in LP!AttemptStatus /\ "work" \in LP!Summary
      /\ e \in LP!Evidence
      /\ LP!FinishRow(a, result, "work", e)
  BY <1>1, Rows DEF LP!AttemptIds, LP!AttemptStatus, Ledger!AttemptStatus,
              LP!Summary, LP!Evidence, LP!FinishRow, Ledger!FinishRow
<1>3. /\ LP!AttemptIds' = LP!AttemptIds
      /\ \A b \in LP!AttemptIds : b # a => attempts'[b] = attempts[b]
      /\ attempts[a].status = "running"
      /\ LP!SameWork(attempts'[a], attempts[a])
      /\ attempts'[a].status = result
  BY <1>2, LedgerBounds, LP!FinishRowEffect
<1> QED
  BY <1>3 DEF RowEnds, LP!AttemptIds, LP!SameWork, Ledger!FinishAttempt

\* A row of the task is started.
RowStarts(n) ==
    /\ n \notin DOMAIN attempts
    /\ DOMAIN attempts' = DOMAIN attempts \cup {n}
    /\ attempts'[n].task = Task
    /\ attempts'[n].status = "running"
    /\ \A b \in DOMAIN attempts : attempts'[b] = attempts[b]
    /\ UNCHANGED <<status, live, reviews, call>>

LEMMA StartStarts ==
    ASSUME Ledger!TypeOK, NEW c \in Runs \X {"run", "tool"}, NEW k \in Ledger!AttemptKind,
           NEW i \in Items \cup {"primary", "coordinator", "review"},
           NEW p \in Builders \cup Reviewers \cup {"anthropic", "openai", "operator"},
           Ledger!StartAttempt(c, Task, k, i, p)
    PROVE  RowStarts(Len(attempts'))
<1> DEFINE n == Len(attempts) + 1
<1>1. /\ attempts \in Seq(LP!Attempt)
      /\ k \in LP!AttemptKind
      /\ LP!StartAttempt(c, Task, k, i, p)
  BY Rows DEF LP!AttemptKind, Ledger!AttemptKind, LP!StartAttempt, Ledger!StartAttempt,
              LP!Idle, Ledger!Idle, LP!NoCall, Ledger!NoCall,
              LP!WorkItemFree, Ledger!WorkItemFree,
              LP!RunningImplementations, Ledger!RunningImplementations,
              LP!RunningAttempts, Ledger!RunningAttempts,
              LP!Implementations, Ledger!Implementations,
              LP!AttemptIds, Ledger!AttemptIds
<1>2. /\ attempts' \in Seq(LP!Attempt)
      /\ LP!AttemptIds' = LP!AttemptIds \cup {n}
      /\ n \notin LP!AttemptIds
      /\ \A b \in LP!AttemptIds : attempts'[b] = attempts[b]
      /\ attempts'[n].task = Task
      /\ attempts'[n].status = "running"
  <2>1. Task \in {Task}
    OBVIOUS
  <2> QED
    BY <1>1, <2>1, LedgerBounds, LP!StartEffect
<1>3. Len(attempts') = n
  <2>1. /\ DOMAIN attempts' = 1..Len(attempts') /\ Len(attempts') \in Nat
        /\ DOMAIN attempts' = 1..n /\ n \in Nat
    <3>1. DOMAIN attempts' = 1..Len(attempts') /\ Len(attempts') \in Nat
      BY <1>2, LenProperties
    <3>2. Len(attempts) \in Nat /\ DOMAIN attempts = 1..Len(attempts)
      BY Rows
    <3>3. DOMAIN attempts' = (1..Len(attempts)) \cup {n}
      BY <1>2, <3>2 DEF LP!AttemptIds
    <3>4. (1..Len(attempts)) \cup {n} = 1..n
      BY <3>2
    <3>5. n \in Nat
      BY <3>2
    <3> HIDE DEF n
    <3> QED
      BY <3>1, <3>3, <3>4, <3>5, Zenon
  <2>2. \A j, m \in Nat : 1..j = 1..m => j = m
    OBVIOUS
  <2> HIDE DEF n
  <2>3. 1..Len(attempts') = 1..n
    BY <2>1, Zenon
  <2> QED
    BY <2>1, <2>2, <2>3, Zenon
<1> HIDE DEF n
<1>4. RowStarts(n)
  BY <1>2 DEF RowStarts, LP!AttemptIds, Ledger!StartAttempt
<1> QED
  BY <1>3, <1>4

-----------------------------------------------------------------------------
(* Each run keeps its place.                                                *)

LEMMA OthersPlaced ==
    ASSUME IInv, RowsKept, NEW s \in Runs, Rests(s)
    PROVE  Placed(s)'
<1>1. Placed(s)
  BY DEF IInv
<1>2. ASSUME NEW a, Reviewed(s, a) PROVE Reviewed(s, a)'
  <2>1. PICK q \in Ledger!ReviewsOf(a) :
            reviews[q].provider = ProviderOf(s) /\ reviews[q].verdict = verdict[s]
    BY <1>2 DEF Reviewed
  <2>2. q \in DOMAIN reviews' /\ reviews'[q] = reviews[q] /\ reviews[q].attempt = a
    BY DEF Ledger!ReviewsOf, Ledger!ReviewIds, RowsKept
  <2>3. q \in Ledger!ReviewsOf(a)'
    BY <2>2 DEF Ledger!ReviewsOf, Ledger!ReviewIds
  <2>4. ProviderOf(s)' = ProviderOf(s)
    BY DEF ProviderOf
  <2> QED
    BY <2>1, <2>2, <2>3, <2>4 DEF Reviewed, Rests
<1>3. DOMAIN attempts \subseteq DOMAIN attempts'
  BY DEF RowsKept
<1>4. ProviderOf(s)' = ProviderOf(s) /\ Host(s)' = Host(s)
  BY DEF ProviderOf, Host
<1> QED
  BY <1>1, <1>2, <1>3, <1>4 DEF Placed, Rests

\* What a step of the command of r is allowed to change.
Local(r) ==
    /\ UNCHANGED agent
    /\ \A s \in Runs : s # r => Rests(s)

LEMMA CommandStays ==
    ASSUME IInv, RowsKept, NEW r \in Runs, Command(r)
    PROVE  ControlOK' /\ Local(r) /\ Placed(r)'
<1> DEFINE Good == ControlOK' /\ Local(r) /\ Placed(r)'
           Clients == Runs \X {"run", "tool"}
<1>0. /\ Ledger!TypeOK /\ ControlOK /\ Placed(r)
      /\ DOMAIN attempts \subseteq DOMAIN attempts'
      /\ Host(r)' = Host(r) /\ ProviderOf(r)' = ProviderOf(r)
  BY DEF IInv, TypeOK, ControlOK, RowsKept, Host, ProviderOf
<1>1. /\ \A s \in Runs : Host(s) \in Clients /\ Tool(s) \in Clients
      /\ \A s \in Runs : s # r => Host(s) # Host(r)
  BY DEF Host, Tool
<1>2. ASSUME NEW a, Reviewed(r, a), verdict'[r] = verdict[r] PROVE Reviewed(r, a)'
  <2>1. PICK q \in Ledger!ReviewsOf(a) :
            reviews[q].provider = ProviderOf(r) /\ reviews[q].verdict = verdict[r]
    BY <1>2 DEF Reviewed
  <2>2. q \in DOMAIN reviews' /\ reviews'[q] = reviews[q] /\ reviews[q].attempt = a
    BY DEF Ledger!ReviewsOf, Ledger!ReviewIds, RowsKept
  <2>3. q \in Ledger!ReviewsOf(a)'
    BY <2>2 DEF Ledger!ReviewsOf, Ledger!ReviewIds
  <2> QED
    BY <1>0, <1>2, <2>1, <2>2, <2>3 DEF Reviewed
<1> SUFFICES Good
  OBVIOUS
<1> HIDE DEF Clients
\* Actions that move the run only, beside what they do to the rows.
<1>3. ASSUME NEW step \in Step \ {"review", "decide", "children"}, Goto(r, step),
             step \in Begun => mine[r] \in DOMAIN attempts,
             UNCHANGED <<plan, run, agent>>,
             \/ call' = call
             \/ /\ call'[Host(r)].op # "review"
                /\ \A d \in Runs \X {"run", "tool"} : d # Host(r) => call'[d] = call[d],
             call'[Host(r)].op # "review"
      PROVE  Good
  <2>1. ControlOK'
    BY <1>0, <1>3 DEF ControlOK, Goto, plan, run, agent
  <2>2. Local(r)
    BY <1>0, <1>1, <1>3 DEF ControlOK, Goto, plan, run, agent, Local, Rests, Clients
  <2>3. Placed(r)'
    BY <1>0, <1>3 DEF ControlOK, Goto, plan, run, agent, Placed
  <2> QED
    BY <2>1, <2>2, <2>3
<1>c. pc[r] # "review" => call[Host(r)].op # "review"
  BY <1>0 DEF Placed
<1>4. CASE Create(r)
  <2>1. Ledger!CreateTask(Host(r), Task) /\ UNCHANGED <<pc, plan, run, agent>> /\ pc[r] = "idle"
    BY <1>4 DEF Create, At
  <2>2. call' = call
    BY <2>1, CallsKept
  <2>3. Goto(r, "idle")
    BY <1>0, <2>1 DEF ControlOK, Goto
  <2> QED
    BY <1>3, <1>c, <2>1, <2>2, <2>3 DEF Step, Begun
<1>5. CASE Plan(r)
  <2>1. pc[r] = "idle" /\ Goto(r, "read") /\ UNCHANGED <<ledger, live, plan, run, agent>>
    BY <1>5 DEF Plan, At
  <2> QED
    BY <1>3, <1>c, <2>1 DEF ledger, Step, Begun
<1>6. CASE Read(r) \/ Prepare(r)
  <2>1. PICK step \in {"move", "start", "launch"} :
            /\ Goto(r, step) /\ pc[r] \in {"read", "prepare"}
            /\ step = "launch" => pc[r] = "prepare"
            /\ UNCHANGED <<ledger, live, plan, run, agent>>
    BY <1>6 DEF Read, Prepare, At
  <2>2. step = "launch" => mine[r] \in DOMAIN attempts
    BY <1>0, <2>1 DEF Placed, Begun
  <2> QED
    BY <1>3, <1>c, <2>1, <2>2 DEF ledger, Step, Begun
<1>7. CASE Move(r)
  <2>1. pc[r] = "move" /\ Goto(r, "start") /\ UNCHANGED <<plan, run, agent>>
        /\ MoveTo(Host(r), "running")
    BY <1>7 DEF Move, At
  <2>2. call' = call
    BY <2>1, CallsKept
  <2> QED
    BY <1>3, <1>c, <2>1, <2>2 DEF Step, Begun
<1>8. CASE Record(r)
  <2>1. pc[r] = "record" /\ Goto(r, "wait") /\ UNCHANGED <<plan, run, agent>>
        /\ Ledger!SetAttemptProcess(Host(r), mine[r])
    BY <1>8 DEF Record, At
  <2>2. call' = call
    BY <2>1, CallsKept
  <2>3. mine[r] \in DOMAIN attempts
    BY <1>0, <2>1 DEF Placed, Begun
  <2> QED
    BY <1>3, <1>c, <2>1, <2>2, <2>3 DEF Step, Begun
<1>9. CASE Own(r)
  <2>1. pc[r] = "own" /\ Goto(r, "look") /\ UNCHANGED <<plan, run, agent>>
        /\ \E result : Ledger!FinishAttempt(Host(r), mine[r], result, "some")
    BY <1>9 DEF Own, At
  <2>2. call' = call
    BY <2>1, CallsKept
  <2>3. mine[r] \in DOMAIN attempts
    BY <1>0, <2>1 DEF Placed, Begun
  <2> QED
    BY <1>3, <1>c, <2>1, <2>2, <2>3 DEF Step, Begun
<1>10. CASE Reject(r)
  <2>1. pc[r] = "decide" /\ Goto(r, "done") /\ UNCHANGED <<plan, run, agent>>
        /\ MoveTo(Host(r), "blocked")
    BY <1>10 DEF Reject, At
  <2>2. call' = call
    BY <2>1, CallsKept
  <2> QED
    BY <1>3, <1>c, <2>1, <2>2 DEF Step, Begun
\* Plans of reviews.
<1>11. CASE PlanReview(r) \/ PlanPending(r)
  <2>1. PICK step \in {"pending", "read"}, as \in SUBSET DOMAIN attempts :
            /\ Goto(r, step) /\ targets' = [targets EXCEPT ![r] = as]
            /\ pc[r] \in {"idle", "pending"}
            /\ UNCHANGED <<ledger, live, todo, verdict, run, agent>>
    <3>1. Ledger!LatestAttempts(Task) \subseteq DOMAIN attempts
      BY DEF Ledger!LatestAttempts, Ledger!Implementations, Ledger!AttemptIds
    <3>2. targets[r] \subseteq DOMAIN attempts
      BY <1>0 DEF ControlOK
    <3> QED
      BY <1>11, <3>1, <3>2 DEF PlanReview, PlanPending, At
  <2>2. ControlOK'
    BY <1>0, <2>1 DEF ControlOK, Goto, run, agent, Step, ledger
  <2>3. Local(r)
    BY <1>0, <2>1 DEF ControlOK, Goto, run, agent, Local, Rests, ledger
  <2>4. Placed(r)'
    BY <1>0, <1>c, <2>1 DEF ControlOK, Goto, run, Placed, ledger, Begun
  <2> QED
    BY <2>2, <2>3, <2>4
<1>12. ASSUME NEW a \in DOMAIN attempts, NEW v \in Ledger!Verdict, PlanOwner(r, a, v)
       PROVE  Good
  <2>1. /\ Goto(r, "review") /\ targets' = [targets EXCEPT ![r] = {a}] /\ pc[r] = "idle"
        /\ todo' = [todo EXCEPT ![r] = {a}] /\ verdict' = [verdict EXCEPT ![r] = v]
        /\ UNCHANGED <<ledger, live, run, agent>>
    BY <1>12 DEF PlanOwner, At
  <2>2. ControlOK'
    BY <1>0, <2>1 DEF ControlOK, Goto, run, agent, Step, ledger
  <2>3. Local(r)
    BY <1>0, <2>1 DEF ControlOK, Goto, run, agent, Local, Rests, ledger
  <2>4. Placed(r)'
    BY <1>0, <1>c, <2>1 DEF ControlOK, Goto, run, Placed, ledger, Begun, Ledger!Verdict
  <2> QED
    BY <2>2, <2>3, <2>4
\* The attempt, its process and its children.
<1>13. CASE Start(r)
  <2>1. /\ Goto(r, "prepare") /\ mine' = [mine EXCEPT ![r] = Len(attempts')] /\ pc[r] = "start"
        /\ UNCHANGED <<plan, ending, process, terminated, agent>>
        /\ RowStarts(Len(attempts'))
    <3>1. /\ ItemOf(r) \in Items \cup {"primary", "coordinator", "review"}
          /\ ProviderOf(r) \in Builders \cup Reviewers \cup {"anthropic", "openai", "operator"}
      BY DEF ItemOf, ProviderOf
    <3>2. PICK k \in Ledger!AttemptKind :
                Ledger!StartAttempt(Host(r), Task, k, ItemOf(r), ProviderOf(r))
      BY <1>13 DEF Start, Ledger!AttemptKind
    <3>3. RowStarts(Len(attempts'))
      BY <1>0, <1>1, <3>1, <3>2, StartStarts DEF Clients
    <3> QED
      BY <1>13, <3>3 DEF Start, At
  <2>2. call' = call /\ Len(attempts') \in DOMAIN attempts'
    BY <2>1 DEF RowStarts
  <2>3. PICK n \in DOMAIN attempts' : n = Len(attempts')
    BY <2>2
  <2>4. mine' = [mine EXCEPT ![r] = n]
    BY <2>1, <2>3
  <2>5. ControlOK'
    BY <1>0, <2>1, <2>4 DEF ControlOK, Goto, plan, agent, Step
  <2>6. Local(r)
    BY <1>0, <2>1, <2>2, <2>4 DEF ControlOK, Goto, plan, agent, Local, Rests
  <2>7. Placed(r)'
    BY <1>0, <1>c, <2>1, <2>2, <2>4 DEF ControlOK, Goto, plan, Placed
  <2> QED
    BY <2>5, <2>6, <2>7
<1>14. CASE Launch(r)
  <2>1. /\ pc[r] = "launch" /\ Goto(r, "record") /\ process' = [process EXCEPT ![r] = "live"]
        /\ UNCHANGED <<ledger, live, plan, mine, ending, terminated, agent>>
    BY <1>14 DEF Launch, At
  <2>2. ControlOK'
    BY <1>0, <2>1 DEF ControlOK, Goto, plan, agent, Step, ledger
  <2>3. Local(r)
    BY <1>0, <2>1 DEF ControlOK, Goto, plan, agent, Local, Rests, ledger
  <2>4. Placed(r)'
    BY <1>0, <1>c, <2>1 DEF ControlOK, Goto, plan, Placed, ledger, Begun
  <2> QED
    BY <2>2, <2>3, <2>4
<1>15. ASSUME Exit(r) \/ TearDown(r), terminated' \subseteq Interrupted
       PROVE  Good
  <2>1. PICK how \in {"ok", "error", "blocked"}, left \in {"live", "orphaned", "gone"} :
        /\ pc[r] \in {"launch", "record", "wait"} /\ UNCHANGED <<ledger, plan, mine, agent>>
        /\ ending' = [ending EXCEPT ![r] = how]
        /\ process' = [process EXCEPT ![r] = left]
        /\ Goto(r, "list") \/ Goto(r, "own")
    <3>1. PICK how \in {"ok", "error", "blocked"} : \E left \in {"live", "orphaned", "gone"} :
                Leave(r, how, left) /\ pc[r] \in {"launch", "record", "wait"}
      BY <1>15 DEF Exit, TearDown, At
    <3> QED
      BY <3>1 DEF Leave
  <2>2. ControlOK'
    BY <1>0, <1>15, <2>1 DEF ControlOK, Goto, plan, agent, Step, Ending, ledger
  <2>3. Local(r)
    BY <1>0, <2>1 DEF ControlOK, Goto, plan, agent, Local, Rests, ledger
  <2>4. Placed(r)'
    BY <1>0, <1>c, <2>1 DEF ControlOK, Goto, plan, Placed, ledger, Begun
  <2> QED
    BY <2>2, <2>3, <2>4
<1>16. CASE List(r)
  <2>1. PICK others \in SUBSET DOMAIN attempts :
            /\ pc[r] = "list" /\ todo' = [todo EXCEPT ![r] = others]
            /\ \/ Goto(r, "own")
               \/ Goto(r, "children") /\ others # {}
            /\ UNCHANGED <<ledger, live, targets, verdict, run, agent>>
    BY <1>16 DEF List, At, Ledger!RunningAttempts, Ledger!AttemptIds
  <2>2. ControlOK'
    BY <1>0, <2>1 DEF ControlOK, Goto, run, agent, Step, ledger
  <2>3. Local(r)
    BY <1>0, <2>1 DEF ControlOK, Goto, run, agent, Local, Rests, ledger
  <2>4. Placed(r)'
    BY <1>0, <1>c, <2>1 DEF ControlOK, Goto, run, Placed, ledger, Begun
  <2> QED
    BY <2>2, <2>3, <2>4
<1>17. CASE FailChild(r)
  <2>a. PICK a : a = First(todo[r])
    OBVIOUS
  <2>h. PICK how \in Ending : how = IF ending[r] = "ok" THEN "error" ELSE ending[r]
    BY <1>0 DEF ControlOK, Ending
  <2>1. /\ pc[r] = "children" /\ todo' = [todo EXCEPT ![r] = todo[r] \ {a}]
        /\ ending' = [ending EXCEPT ![r] = how]
        /\ \/ Goto(r, "own")
           \/ Goto(r, "children") /\ todo[r] \ {a} # {}
        /\ UNCHANGED <<targets, verdict, mine, process, terminated, agent>>
        /\ Ledger!FinishAttempt(Host(r), a, "failed", "none")
    <3>1. todo[r] # {}
      BY <1>0, <1>17 DEF FailChild, At, Placed
    <3>2. Goto(r, "own") \/ (Goto(r, "children") /\ todo[r] \ {a} # {})
      BY <1>17, <3>1, <2>a DEF FailChild
    <3> QED
      BY <1>17, <3>2, <2>a, <2>h DEF FailChild, At
  <2>2. call' = call
    BY <2>1, CallsKept
  <2>3. todo[r] \ {a} \in SUBSET DOMAIN attempts'
    BY <1>0 DEF ControlOK
  <2>4. ControlOK'
    BY <1>0, <2>1, <2>3 DEF ControlOK, Goto, agent, Step
  <2>5. Local(r)
    BY <1>0, <2>1, <2>2 DEF ControlOK, Goto, agent, Local, Rests
  <2>6. Placed(r)'
    BY <1>0, <1>c, <2>1, <2>2 DEF ControlOK, Goto, Placed, Begun
  <2> QED
    BY <2>4, <2>5, <2>6
\* How the run goes on.
<1>18. CASE Look(r) \/ Settle(r)
  <2>1. /\ pc[r] \in {"look", "settle"} /\ UNCHANGED <<run, agent>>
        /\ \/ Conclude(r)
           \/ Goto(r, "settle") /\ UNCHANGED plan
    BY <1>18 DEF Look, Settle, At
  <2>2. call' = call
    <3>1. CASE Look(r)
      BY <3>1 DEF Look, ledger
    <3>2. CASE Settle(r)
      BY <3>2, CallsKept DEF Settle
    <3> QED
      BY <1>18, <3>1, <3>2
  <2>3. mine[r] \in DOMAIN attempts
    BY <1>0, <2>1 DEF Placed, Begun
  <2>4. CASE (Goto(r, "settle") \/ Goto(r, "done")) /\ UNCHANGED plan
    BY <1>3, <1>c, <2>1, <2>2, <2>3, <2>4 DEF Step, Begun
  <2>5. CASE /\ Goto(r, "review") /\ todo' = [todo EXCEPT ![r] = targets[r]]
             /\ \E v \in Ledger!Verdict : verdict' = [verdict EXCEPT ![r] = v]
             /\ UNCHANGED targets
    <3>0. targets[r] \in SUBSET DOMAIN attempts'
      BY <1>0 DEF ControlOK
    <3>1. ControlOK'
      BY <1>0, <2>1, <2>5, <3>0 DEF ControlOK, Goto, run, agent, Step
    <3>2. Local(r)
      BY <1>0, <2>1, <2>2, <2>5 DEF ControlOK, Goto, run, agent, Local, Rests
    <3>3. Placed(r)'
      BY <1>0, <1>c, <2>1, <2>2, <2>5 DEF ControlOK, Goto, run, Placed, Begun
    <3> QED
      BY <3>1, <3>2, <3>3
  <2> QED
    BY <2>1, <2>4, <2>5 DEF Conclude
\* Reviews.
<1>19. ASSUME NEW a \in DOMAIN attempts, BuildReview(r, a) PROVE Good
  <2>1. /\ pc[r] = "review" /\ UNCHANGED <<pc, plan, run, agent>>
        /\ Ledger!BuildReview(Host(r), Task, a, ProviderOf(r), verdict[r], "some")
    BY <1>19 DEF BuildReview, At
  <2>2. /\ call'[Host(r)].review.provider = ProviderOf(r)
        /\ call'[Host(r)].review.verdict = verdict[r]
        /\ \A d \in Clients : d # Host(r) => call'[d] = call[d]
    BY <1>0, <1>1, <2>1, ReviewBuilt DEF Clients
  <2>3. ControlOK'
    BY <1>0, <2>1 DEF ControlOK, plan, run, agent
  <2>4. Local(r)
    BY <1>1, <2>1, <2>2 DEF plan, run, Local, Rests
  <2>5. \A b : Reviewed(r, b) => Reviewed(r, b)'
    BY <1>2, <2>1 DEF plan
  <2>6. Placed(r)'
    BY <1>0, <2>1, <2>2, <2>5 DEF plan, run, Placed, Begun
  <2> QED
    BY <2>3, <2>4, <2>6
<1>20. CASE InsertReview(r)
  <2>1. /\ pc[r] = "review" /\ Ledger!InsertReview(Host(r))
        /\ todo' = [todo EXCEPT ![r] = Recorded(r)]
        /\ Goto(r, IF Recorded(r) = {} THEN "decide" ELSE "review")
        /\ UNCHANGED <<targets, verdict, run, agent>>
    BY <1>20 DEF InsertReview, At
  <2>2. /\ call'[Host(r)].op # "review"
        /\ \A d \in Clients : d # Host(r) => call'[d] = call[d]
    BY <1>0, <1>1, <2>1, CallMoves DEF Clients
  <2>3. PICK q \in DOMAIN reviews' : reviews'[q] = call[Host(r)].review
    BY <1>0, <1>1, <2>1, ReviewInserted DEF Clients
  <2>4. call[Host(r)].op = "review"
    BY <2>1 DEF Ledger!InsertReview
  <2>n. PICK new : new = call[Host(r)].review.attempt
    OBVIOUS
  <2>5. Reviewed(r, new)'
    <3>1. q \in Ledger!ReviewsOf(new)'
      BY <2>3, <2>n DEF Ledger!ReviewsOf, Ledger!ReviewIds
    <3>2. reviews'[q].provider = ProviderOf(r) /\ reviews'[q].verdict = verdict'[r]
      BY <1>0, <2>1, <2>3, <2>4 DEF Placed
    <3> QED
      BY <1>0, <3>1, <3>2 DEF Reviewed
  <2>6. \A a \in targets[r] : a \in Recorded(r) \/ Reviewed(r, a)'
    <3>1. \A a \in targets[r] : a \in todo[r] \/ Reviewed(r, a)
      BY <1>0, <2>1 DEF Placed
    <3>2. \A a : Reviewed(r, a) => Reviewed(r, a)'
      BY <1>2, <2>1
    <3> QED
      BY <2>5, <2>n, <3>1, <3>2 DEF Recorded
  <2>7. PICK rest \in SUBSET DOMAIN attempts' : rest = Recorded(r)
    BY <1>0 DEF ControlOK, Recorded
  <2>8. /\ todo' = [todo EXCEPT ![r] = rest]
        /\ \/ Goto(r, "decide") /\ rest = {}
           \/ Goto(r, "review")
        /\ \A a \in targets[r] : a \in rest \/ Reviewed(r, a)'
    BY <2>1, <2>6, <2>7
  <2>9. ControlOK'
    BY <1>0, <2>1, <2>8 DEF ControlOK, Goto, run, agent, Step
  <2>10. Local(r)
    BY <1>0, <1>1, <2>1, <2>2, <2>8 DEF ControlOK, Goto, run, Local, Rests
  <2>11. Placed(r)'
    BY <1>0, <2>1, <2>2, <2>8 DEF ControlOK, Goto, run, Placed, Begun
  <2> QED
    BY <2>9, <2>10, <2>11
<1>21. CASE Approve(r)
  <2>1. /\ pc[r] = "decide" /\ Ledger!CompleteStep(Host(r))
        /\ \/ Goto(r, "done")
           \/ Goto(r, "decide")
        /\ UNCHANGED <<plan, run, agent>>
    BY <1>21 DEF Approve, At
  <2>2. /\ call'[Host(r)].op # "review"
        /\ \A d \in Clients : d # Host(r) => call'[d] = call[d]
    BY <1>0, <1>1, <2>1, CallMoves DEF Clients
  <2>3. CASE Goto(r, "done")
    BY <1>3, <2>1, <2>2, <2>3 DEF Step, Begun, Clients
  <2>4. CASE Goto(r, "decide")
    <3>1. pc' = pc
      BY <1>0, <2>1, <2>4 DEF ControlOK, Goto
    <3>2. ControlOK'
      BY <1>0, <2>1, <3>1 DEF ControlOK, plan, run, agent
    <3>3. Local(r)
      BY <1>1, <2>1, <2>2, <3>1 DEF plan, run, Local, Rests
    <3>4. \A b : Reviewed(r, b) => Reviewed(r, b)'
      BY <1>2, <2>1 DEF plan
    <3>5. Placed(r)'
      BY <1>0, <2>1, <2>2, <3>1, <3>4 DEF plan, run, Placed, Begun
    <3> QED
      BY <3>2, <3>3, <3>5
  <2> QED
    BY <2>1, <2>3, <2>4
\* Exceptions and signals.
<1>22. ASSUME Stop(r), terminated' \subseteq Interrupted PROVE Good
  <2>1. Goto(r, "done") /\ UNCHANGED <<plan, mine, ending, process, agent>>
    BY <1>22 DEF Stop
  <2>2. /\ call'[Host(r)].op # "review"
        /\ \A d \in Clients : d # Host(r) => call'[d] = call[d]
    <3>1. CASE Ledger!Abandon(Host(r))
      BY <1>0, <1>1, <3>1, CallMoves DEF Clients
    <3>2. CASE Ledger!Idle(Host(r)) /\ UNCHANGED ledger
      BY <3>2 DEF Ledger!Idle, Ledger!NoCall, ledger
    <3> QED
      BY <1>22, <3>1, <3>2 DEF Stop
  <2>3. ControlOK'
    BY <1>0, <1>22, <2>1 DEF ControlOK, Goto, plan, agent, Step
  <2>4. Local(r)
    BY <1>0, <1>1, <2>1, <2>2 DEF ControlOK, Goto, plan, Local, Rests
  <2>5. Placed(r)'
    BY <1>0, <2>1, <2>2 DEF ControlOK, Goto, plan, Placed, Begun
  <2> QED
    BY <2>3, <2>4, <2>5
<1>23. CASE End(r) \/ Raise(r) \/ Terminate(r)
  <2>1. terminated' \subseteq Interrupted
    BY <1>0, <1>23 DEF End, Raise, Terminate, ControlOK
  <2> QED
    BY <1>15, <1>22, <1>23, <2>1 DEF End, Raise, Terminate
<1>24. CASE SurvivorEnds(r)
  <2>1. /\ process' = [process EXCEPT ![r] = "gone"]
        /\ UNCHANGED <<ledger, pc, plan, mine, ending, terminated, agent>>
    BY <1>24 DEF SurvivorEnds
  <2>2. ControlOK'
    BY <1>0, <2>1 DEF ControlOK, plan, agent, ledger
  <2>3. Local(r)
    BY <1>0, <2>1 DEF ControlOK, plan, agent, Local, Rests, ledger
  <2>4. Placed(r)'
    BY <1>0, <1>c, <2>1 DEF ControlOK, plan, Placed, Reviewed, Ledger!ReviewsOf, Ledger!ReviewIds, ledger
  <2> QED
    BY <2>2, <2>3, <2>4
<1> QED
  BY <1>4, <1>5, <1>6, <1>7, <1>8, <1>9, <1>10, <1>11, <1>12, <1>13, <1>14, <1>16, <1>17,
     <1>18, <1>19, <1>20, <1>21, <1>23, <1>24 DEF Command

\* A tool of a coordinator changes no run, and its own call only.
LEMMA AgentStays ==
    ASSUME IInv, RowsKept, NEW r \in Runs, Agent(r)
    PROVE  ControlOK' /\ SentHolds' /\ \A s \in Runs : Rests(s)
<1> DEFINE Calls == \A s \in Runs : call'[Host(s)] = call[Host(s)]
<1>0. /\ Ledger!TypeOK /\ ControlOK
      /\ DOMAIN attempts \subseteq DOMAIN attempts'
  BY DEF IInv, TypeOK, ControlOK, RowsKept
<1>1. /\ Tool(r) \in Runs \X {"run", "tool"}
      /\ \A s \in Runs : Host(s) \in Runs \X {"run", "tool"} /\ Host(s) # Tool(r)
  BY DEF Host, Tool
<1>2. ASSUME UNCHANGED sent PROVE SentHolds'
  <2>1. SentHolds /\ ControlOK
    BY <1>0 DEF IInv
  <2> QED
    BY <1>2, <2>1 DEF SentHolds, ControlOK, RowsKept
<1>3. ASSUME UNCHANGED <<pc, plan, run, sent>>, strays' \subseteq Runs,
             tool' = tool \/ \E step \in {"idle", "move", "start", "review", "approved"} : Then(r, step),
             Calls
      PROVE  ControlOK' /\ SentHolds' /\ \A s \in Runs : Rests(s)
  <2>1. ControlOK'
    BY <1>0, <1>3 DEF ControlOK, plan, run, Then
  <2>2. \A s \in Runs : Rests(s)
    BY <1>3 DEF plan, run, Rests
  <2> QED
    BY <1>2, <1>3, <2>1, <2>2
<1>4. ASSUME call' = call PROVE Calls
  BY <1>4
<1>w. Writes(r) \/ UNCHANGED strays => strays' \subseteq Runs
  BY <1>0 DEF Writes, ControlOK
<1>5. ASSUME \/ Ledger!InsertReview(Tool(r)) \/ Ledger!CompleteStep(Tool(r))
             \/ Ledger!Abandon(Tool(r))
      PROVE  Calls
  BY <1>0, <1>1, <1>5, CallMoves
<1> HIDE DEF Calls
<1>6. CASE ToolRead(r)
  <2>1. UNCHANGED <<ledger, pc, plan, run, sent, strays>> /\ \E step \in {"move", "start"} : Then(r, step)
    BY <1>6 DEF ToolRead
  <2> QED
    BY <1>3, <1>w, <1>4, <2>1 DEF ledger
<1>7. CASE ToolMove(r) \/ ToolApproved(r)
  <2>1. /\ UNCHANGED <<pc, plan, run, sent>> /\ Writes(r)
        /\ \E step \in {"idle", "start"} : Then(r, step)
        /\ \E target : MoveTo(Tool(r), target)
    BY <1>7 DEF ToolMove, ToolApproved
  <2>2. call' = call
    BY <2>1, CallsKept
  <2> QED
    BY <1>3, <1>w, <1>4, <2>1, <2>2
<1>8. ASSUME NEW i, NEW p, ToolStart(r, i, p)
      PROVE  ControlOK' /\ SentHolds' /\ \A s \in Runs : Rests(s)
  <2>1. /\ UNCHANGED <<pc, plan, run, sent>> /\ Writes(r) /\ Then(r, "idle")
        /\ Ledger!StartAttempt(Tool(r), Task, "implementation", i, p)
    BY <1>8 DEF ToolStart
  <2>2. call' = call
    BY <2>1, CallsKept
  <2> QED
    BY <1>3, <1>w, <1>4, <2>1, <2>2
<1>9. ASSUME NEW a, NEW result, ToolFinish(r, a, result)
      PROVE  ControlOK' /\ SentHolds' /\ \A s \in Runs : Rests(s)
  <2>1. /\ UNCHANGED <<pc, plan, run, tool, sent>> /\ Writes(r)
        /\ Ledger!FinishAttempt(Tool(r), a, result, "some")
    BY <1>9 DEF ToolFinish
  <2>2. call' = call
    BY <2>1, CallsKept
  <2> QED
    BY <1>3, <1>w, <1>4, <2>1, <2>2 
<1>10. ASSUME NEW a, NEW p, NEW v, ToolReview(r, a, p, v)
       PROVE  ControlOK' /\ SentHolds' /\ \A s \in Runs : Rests(s)
  <2>1. /\ UNCHANGED <<pc, plan, run, sent, strays>> /\ Then(r, "review")
        /\ Ledger!BuildReview(Tool(r), Task, a, p, v, "some")
    BY <1>10 DEF ToolReview
  <2>2. Calls
    BY <1>0, <1>1, <2>1, ReviewBuilt DEF Calls
  <2> QED
    BY <1>3, <1>w, <2>1, <2>2
<1>11. CASE ToolInsert(r)
  <2>1. /\ UNCHANGED <<pc, plan, run, sent, strays>> /\ Ledger!InsertReview(Tool(r))
        /\ \E step \in {"idle", "approved"} : Then(r, step)
    BY <1>11 DEF ToolInsert
  <2> QED
    BY <1>3, <1>w, <1>5, <2>1
<1>12. CASE ToolComplete(r)
  <2>1. /\ UNCHANGED <<pc, plan, run, tool, sent>> /\ Writes(r)
        /\ \/ Ledger!CompleteStep(Tool(r))
           \/ \E target : Ledger!TransitionTask(Tool(r), Task, target)
    BY <1>12 DEF ToolComplete
  <2>2. Calls
    BY <1>4, <1>5, <2>1, CallsKept
  <2> QED
    BY <1>3, <1>w, <2>1, <2>2 
<1>13. CASE ToolRaises(r)
  <2>1. /\ UNCHANGED <<pc, plan, run, sent, strays>> /\ Then(r, "idle")
        /\ Ledger!Abandon(Tool(r)) \/ UNCHANGED ledger
    BY <1>13 DEF ToolRaises
  <2>2. Calls
    BY <1>4, <1>5, <2>1 DEF ledger
  <2> QED
    BY <1>3, <1>w, <2>1, <2>2
<1>14. ASSUME NEW a \in DOMAIN attempts, NEW p \in Reviewers, Dispatch(r, a, p)
       PROVE  ControlOK' /\ SentHolds' /\ \A s \in Runs : Rests(s)
  <2>1. /\ UNCHANGED <<ledger, live, pc, plan, run, tool, strays>> /\ MayDispatch(a, p)
        /\ sent' = {[attempt |-> a, provider |-> p]}
    BY <1>14 DEF Dispatch
  <2>2. SentHolds'
    BY <2>1 DEF SentHolds, MayDispatch, ledger
  <2>3. ControlOK'
    BY <1>0, <2>1 DEF ControlOK, plan, run, ledger
  <2>4. \A s \in Runs : Rests(s)
    BY <2>1 DEF Rests, plan, run, ledger
  <2> QED
    BY <2>2, <2>3, <2>4
<1> QED
  BY <1>6, <1>7, <1>8, <1>9, <1>10, <1>11, <1>12, <1>13, <1>14 DEF Agent

-----------------------------------------------------------------------------
(* The invariant, and what follows from it.                                 *)

LEMMA IInvInit == Init => IInv
<1> SUFFICES ASSUME Init PROVE IInv
  OBVIOUS
<1>1. Ledger!TypeOK
  BY SameTypes, SameSpec, LedgerBounds, LP!TypeInit DEF Init
<1>2. /\ attempts = <<>> /\ reviews = <<>>
      /\ \A r \in Runs : call[Host(r)].op = "none"
  BY DEF Init, Ledger!Init, Ledger!NoCall, Host
<1>3. TypeOK
  BY <1>1 DEF TypeOK, Init, Step, Ending
<1>4. \A r \in Runs : Placed(r)
  BY <1>2 DEF Placed, Init, Begun
<1> QED
  BY <1>3, <1>4 DEF IInv, SentHolds, Init

LEMMA IInvNext == IInv /\ [Next]_vars => IInv'
<1> SUFFICES ASSUME IInv, [Next]_vars PROVE IInv'
  OBVIOUS
<1>1. Ledger!TypeOK' /\ RowsKept
  BY LedgerKept
<1>2. ASSUME ControlOK' PROVE TypeOK'
  BY <1>1, <1>2 DEF TypeOK, ControlOK
<1>3. ASSUME NEW r \in Runs, Command(r) PROVE IInv'
  <2>1. ControlOK' /\ Local(r) /\ Placed(r)'
    BY <1>1, <1>3, CommandStays
  <2>2. \A s \in Runs : s # r => Placed(s)'
    BY <1>1, <2>1, OthersPlaced DEF Local
  <2>3. SentHolds'
    BY <1>1, <2>1 DEF IInv, TypeOK, SentHolds, Local, agent, RowsKept
  <2> QED
    BY <1>2, <2>1, <2>2, <2>3 DEF IInv
<1>4. ASSUME NEW r \in Runs, Agent(r) PROVE IInv'
  <2>1. ControlOK' /\ SentHolds' /\ \A s \in Runs : Rests(s)
    BY <1>1, <1>4, AgentStays
  <2>2. \A s \in Runs : Placed(s)'
    BY <1>1, <2>1, OthersPlaced
  <2> QED
    BY <1>2, <2>1, <2>2 DEF IInv
<1>5. CASE UNCHANGED vars
  <2>1. ControlOK'
    BY <1>5 DEF IInv, TypeOK, ControlOK, vars, ledger, plan, run, agent
  <2>2. \A s \in Runs : Rests(s)
    BY <1>5 DEF Rests, vars, ledger, plan, run
  <2>3. \A s \in Runs : Placed(s)'
    BY <1>1, <2>2, OthersPlaced
  <2>4. SentHolds'
    BY <1>1, <1>5 DEF IInv, TypeOK, SentHolds, vars, agent, RowsKept
  <2> QED
    BY <1>2, <2>1, <2>3, <2>4 DEF IInv
<1> QED
  BY <1>3, <1>4, <1>5 DEF Next

\* The invariant of the commands: the types, what each run may rely on where it is in
\* its command, and what the policy saw when it let a child review an attempt.
THEOREM Invariance == Spec => []IInv
  BY IInvInit, IInvNext, PTL DEF Spec

\* Every variable keeps its type, the ledger's included, however the commands and the
\* tools of their coordinators interleave.
THEOREM TypeCorrect == Spec => []TypeOK
<1>1. IInv => TypeOK
  BY DEF IInv
<1> QED
  BY <1>1, Invariance, PTL

\* The commands and the tools use the ledger by its operations only, which the model has
\* by its form: the ledger's theorems hold of theirs.
LEMMA RunsUseLedger == Spec => Ledger!Spec
<1>1. Init => Ledger!Init
  BY DEF Init
<1>2. IInv /\ [Next]_vars => [Ledger!Next]_(Ledger!vars)
  BY StepUsesLedger
<1> QED
  BY <1>1, <1>2, Invariance, PTL DEF Spec, Ledger!Spec

\* So the ledger stays consistent while they run.
THEOREM LedgerInvariants ==
    Spec => [](/\ Ledger!AuditIsCurrent
               /\ Ledger!OneRunningPerItem
               /\ Ledger!QuietWhenStopped
               /\ Ledger!ReviewsAreIndependent
               /\ Ledger!CompletedHasApproval)
<1>1. Spec => LP!Spec
  BY RunsUseLedger, SameSpec, PTL DEF Ledger!Spec, LP!Spec
<1>2. LP!Spec => [](/\ LP!AuditIsCurrent
                    /\ LP!OneRunningPerItem
                    /\ LP!QuietWhenStopped
                    /\ LP!ReviewsAreIndependent
                    /\ LP!CompletedHasApproval)
  BY LedgerBounds, LP!AuditCurrency, LP!Exclusion, LP!Quiescence, LP!Independence,
     LP!Completion, PTL
<1> QED
  BY <1>1, <1>2, SameInvariants, PTL

\* And no step of a command or a tool changes an outcome or a review that is recorded.
THEOREM OutcomesStayFinal == Spec => Ledger!OutcomesAreFinal
<1>1. Spec => LP!Spec
  BY RunsUseLedger, SameSpec, PTL DEF Ledger!Spec, LP!Spec
<1>2. LP!Spec => LP!OutcomesAreFinal
  BY LedgerBounds, LP!Finality
<1> QED
  BY <1>1, <1>2, SameInvariants, PTL

\* attempt_before_dispatch and record_review agree at all times: the attempt that a
\* child was let through to review stays one that it may record a verdict on.
THEOREM AllowedReview == Spec => []AllowedReviewIsRecordable
<1>1. ASSUME IInv, NEW s \in sent
      PROVE  Ledger!MayReview(Task, s.attempt, s.provider, "approve", "some")
  <2>1. s.attempt \in DOMAIN attempts /\ attempts[s.attempt].task = Task
    BY <1>1, Rows DEF IInv, TypeOK
  <2> QED
    BY <1>1, <2>1 DEF IInv, SentHolds, Ledger!MayReview, Ledger!AttemptIds
<1>2. IInv => AllowedReviewIsRecordable
  BY <1>1 DEF AllowedReviewIsRecordable
<1> QED
  BY <1>2, Invariance, PTL

\* A review run decides on a task with its verdict on every attempt it set out to
\* review, whoever records reviews meanwhile.
THEOREM CoveredDecision == Spec => []DecisionCoversTargets
<1>1. IInv => DecisionCoversTargets
  BY DEF IInv, Placed, Reviewed, DecisionCoversTargets, At
<1> QED
  BY <1>1, Invariance, PTL

-----------------------------------------------------------------------------
(* Commands that are given one after another.  A command that ends fails    *)
(* whatever else runs on its task (OthersAreSpared), so two at once may     *)
(* refuse each other's last writes; the owner's review starts nothing, and  *)
(* may come at any time.                                                    *)

\* A run has begun and is not over; it is not either where a tool has written behind it.
Working(r) ==
    RuntimeOf[r] # "owner-review" /\ ~At(r, "idle") /\ ~Over(r)

OneAtATime == \A r, s \in Runs : Working(r) /\ Working(s) => r = s

Running == Ledger!RunningAttempts(Task)
Quiet == Running = {} /\ status[Task] # "running"

\* What runs when run r is where it is in its command.  A tool that writes after the
\* run has listed the children may start and finish what the run does not know of.
Tidy(r) ==
    /\ pc[r] \in {"idle", "pending", "read", "move", "start", "prepare", "launch"} =>
        process[r] = "none"
    /\ pc[r] \in {"idle", "pending", "read", "move", "start", "prepare", "launch", "record",
                  "wait"} => ending[r] = "none"
    /\ pc[r] \in {"pending", "read", "move"} => Quiet
    /\ pc[r] = "start" => Running = {}
    /\ pc[r] \in {"prepare", "launch", "record", "wait"} =>
        /\ mine[r] \in Running
        /\ ~IsCoordinator(r) => Running = {mine[r]}
    /\ r \notin strays =>
        /\ pc[r] \in {"list", "children"} => mine[r] \in Running
        /\ pc[r] = "children" => todo[r] = Running \ {mine[r]}
        /\ pc[r] = "own" => Running = {mine[r]}
        /\ pc[r] \in {"look", "settle"} => Running = {}
        /\ pc[r] \in {"review", "decide"} => Quiet

Reviews(r) == pc[r] \in {"idle", "review", "decide", "done"}

Alone ==
    /\ \A r \in Runs : IF RuntimeOf[r] = "owner-review" THEN Reviews(r) ELSE Tidy(r)
    /\ (\A r \in Runs : ~Working(r)) => Quiet

\* A step that starts and ends no attempt and wakes no task.
Calm == Running' = Running /\ (status'[Task] = "running" => status[Task] = "running")

\* What the operations of the ledger do to that.
RunningAreRows == Running = {a \in DOMAIN attempts : attempts[a].status = "running"}

LEMMA RunningRows == Ledger!TypeOK => RunningAreRows
  BY Rows DEF RunningAreRows, Running, Ledger!RunningAttempts, Ledger!AttemptIds

LEMMA RunningRowsNext == Ledger!TypeOK' => RunningAreRows'
  BY RunningRows, PTL

LEMMA FinishEmpties ==
    ASSUME Ledger!TypeOK, Ledger!TypeOK', NEW c, NEW a \in DOMAIN attempts,
           NEW result \in Ledger!AttemptStatus, NEW evidence \in Ledger!Evidence,
           Ledger!FinishAttempt(c, a, result, evidence)
    PROVE  Running' = Running \ {a} /\ status' = status /\ attempts[a].status = "running"
<1>1. RowEnds(a, result) /\ result # "running"
  BY FinishEnds
<1>2. RunningAreRows /\ RunningAreRows'
  BY RunningRows, RunningRowsNext
<1> QED
  BY <1>1, <1>2 DEF RunningAreRows, RowEnds

LEMMA StartFills ==
    ASSUME Ledger!TypeOK, Ledger!TypeOK', NEW c \in Runs \X {"run", "tool"},
           NEW k \in Ledger!AttemptKind,
           NEW i \in Items \cup {"primary", "coordinator", "review"},
           NEW p \in Builders \cup Reviewers \cup {"anthropic", "openai", "operator"},
           Ledger!StartAttempt(c, Task, k, i, p)
    PROVE  Running' = Running \cup {Len(attempts')} /\ status' = status
<1>1. RowStarts(Len(attempts'))
  BY StartStarts
<1>2. RunningAreRows /\ RunningAreRows'
  BY RunningRows, RunningRowsNext
<1>3. PICK n : n = Len(attempts')
  OBVIOUS
<1> QED
  BY <1>1, <1>2, <1>3 DEF RunningAreRows, RowStarts

LEMMA RecordIsCalm ==
    ASSUME Ledger!TypeOK, Ledger!TypeOK', NEW c \in Runs \X {"run", "tool"},
           NEW a \in DOMAIN attempts, Ledger!SetAttemptProcess(c, a)
    PROVE  Calm
<1>1. /\ attempts \in Seq(LP!Attempt) /\ a \in LP!AttemptIds
      /\ LP!SetAttemptProcess(c, a)
  BY Rows DEF LP!AttemptIds, LP!SetAttemptProcess, Ledger!SetAttemptProcess, LP!Idle,
              Ledger!Idle, LP!NoCall, Ledger!NoCall
<1>2. /\ LP!AttemptIds' = LP!AttemptIds
      /\ \A b \in LP!AttemptIds : b # a => attempts'[b] = attempts[b]
      /\ attempts[a].status = "running"
      /\ attempts'[a].status = "running"
  BY <1>1, LedgerBounds, LP!SetProcessEffect
<1>3. RunningAreRows /\ RunningAreRows'
  BY RunningRows, RunningRowsNext
<1> QED
  BY <1>2, <1>3 DEF RunningAreRows, LP!AttemptIds, Calm, Ledger!SetAttemptProcess

LEMMA MoveArrives ==
    ASSUME Ledger!TypeOK, NEW c, NEW target,
           MoveTo(c, target) \/ Ledger!TransitionTask(c, Task, target)
    PROVE  Running' = Running /\ status'[Task] = target
<1>1. status \in [{Task} -> LP!TaskStatus \cup {"absent"}]
  BY SameTypes DEF LP!TypeOK
<1>2. attempts' = attempts /\ status'[Task] = target
  BY <1>1 DEF MoveTo, Ledger!TransitionTask, Ledger!MoveTask, ledger
<1> QED
  BY <1>2 DEF Running, Ledger!RunningAttempts, Ledger!AttemptIds

LEMMA CreateIsCalm ==
    ASSUME Ledger!TypeOK, NEW c, Ledger!CreateTask(c, Task)
    PROVE  Calm
<1>1. status \in [{Task} -> LP!TaskStatus \cup {"absent"}]
  BY SameTypes DEF LP!TypeOK
<1>2. attempts' = attempts /\ status'[Task] = "queued"
  BY <1>1 DEF Ledger!CreateTask, Ledger!MoveTask
<1> QED
  BY <1>2 DEF Calm, Running, Ledger!RunningAttempts, Ledger!AttemptIds

LEMMA ReviewIsCalm ==
    ASSUME Ledger!TypeOK, NEW c,
           \/ \E a, p, v, e : Ledger!BuildReview(c, Task, a, p, v, e)
           \/ Ledger!InsertReview(c) \/ Ledger!CompleteStep(c) \/ Ledger!Abandon(c)
           \/ UNCHANGED ledger
    PROVE  Calm
<1>1. status \in [{Task} -> LP!TaskStatus \cup {"absent"}]
  BY SameTypes DEF LP!TypeOK
<1>2. attempts' = attempts /\ (status' = status \/ Ledger!CompleteCommit(c))
  BY DEF Ledger!BuildReview, Ledger!InsertReview, Ledger!CompleteStep, Ledger!Abandon,
         Ledger!CompleteBegin, Ledger!CompleteNoneRunning, Ledger!CompleteLatest,
         Ledger!CompleteCheck, Ledger!CompleteCommit, Ledger!ledger, ledger
<1>3. status'[Task] = "running" => status[Task] = "running"
  BY <1>1, <1>2 DEF Ledger!CompleteCommit, Ledger!MoveTask
<1> QED
  BY <1>2, <1>3 DEF Calm, Running, Ledger!RunningAttempts, Ledger!AttemptIds

\* The runs that a step leaves where they are.
LEMMA TidyRests ==
    ASSUME NEW s \in Runs, Tidy(s), Rests(s), s \in strays' <=> s \in strays,
           Calm \/ pc[s] \in {"idle", "done"}
    PROVE  Tidy(s)'
<1>1. IsCoordinator(s)' = IsCoordinator(s)
  BY DEF IsCoordinator
<1>2. CASE Calm
  <2>1. Running' = Running /\ (Quiet => Quiet')
    BY <1>2 DEF Calm, Quiet
  <2> QED
    BY <1>1, <2>1 DEF Tidy, Rests
<1>3. CASE pc[s] \in {"idle", "done"}
  BY <1>3 DEF Tidy, Rests
<1> QED
  BY <1>2, <1>3

\* The tools of a coordinator start and finish attempts while anything of its process
\* lives, and leave those of the commands alone.
Wrote(r) ==
    /\ RuntimeOf[r] = "omnigent" /\ process[r] \in Living
    /\ Writes(r)
    /\ mine[r] \in Running => mine[r] \in Running'

LEMMA AgentRuns ==
    ASSUME IInv, Ledger!TypeOK', NEW r \in Runs, Agent(r)
    PROVE  (Calm /\ UNCHANGED strays) \/ Wrote(r)
<1> DEFINE Good == (Calm /\ UNCHANGED strays) \/ Wrote(r)
<1>0. Ledger!TypeOK
  BY DEF IInv, TypeOK
<1>1. Tool(r) \in Runs \X {"run", "tool"}
  BY DEF Tool
<1>2. CASE \/ ToolRead(r)
           \/ \E a \in DOMAIN attempts, p \in Reviewers, v \in Ledger!Verdict :
                    ToolReview(r, a, p, v)
           \/ ToolInsert(r) \/ ToolRaises(r)
           \/ \E a \in DOMAIN attempts, p \in Reviewers : Dispatch(r, a, p)
  BY <1>0, <1>2, ReviewIsCalm DEF ToolRead, ToolReview, ToolInsert, ToolRaises, Dispatch
<1>3. CASE ToolMove(r) \/ ToolApproved(r)
  <2>1. /\ RuntimeOf[r] = "omnigent" /\ process[r] \in Living /\ Writes(r)
        /\ \E target : MoveTo(Tool(r), target)
    BY <1>3 DEF ToolMove, ToolApproved, Acts
  <2> QED
    BY <1>0, <2>1, MoveArrives DEF Wrote
<1>4. ASSUME NEW i \in Items, NEW p \in Builders, ToolStart(r, i, p) PROVE Good
  <2>1. /\ RuntimeOf[r] = "omnigent" /\ process[r] \in Living /\ Writes(r)
        /\ Ledger!StartAttempt(Tool(r), Task, "implementation", i, p)
    BY <1>4 DEF ToolStart, Acts
  <2>2. PICK k \in Ledger!AttemptKind : k = "implementation"
    BY DEF Ledger!AttemptKind
  <2>3. Running' = Running \cup {Len(attempts')}
    BY <1>0, <1>1, <2>1, <2>2, StartFills
  <2> QED
    BY <2>1, <2>3 DEF Wrote
<1>5. ASSUME NEW a \in DOMAIN attempts, NEW result \in Ledger!AttemptStatus,
             ToolFinish(r, a, result)
      PROVE  Good
  <2>1. /\ RuntimeOf[r] = "omnigent" /\ process[r] \in Living /\ Writes(r)
        /\ mine[r] # a
        /\ Ledger!FinishAttempt(Tool(r), a, result, "some")
    BY <1>5 DEF ToolFinish, Acts
  <2>2. Running' = Running \ {a}
    BY <1>0, <2>1, FinishEmpties DEF Ledger!Evidence
  <2> QED
    BY <2>1, <2>2 DEF Wrote
<1>6. CASE ToolComplete(r)
  <2>1. /\ RuntimeOf[r] = "omnigent" /\ process[r] \in Living /\ Writes(r)
        /\ \/ Ledger!CompleteStep(Tool(r))
           \/ \E target : Ledger!TransitionTask(Tool(r), Task, target)
    BY <1>6 DEF ToolComplete, Acts
  <2>2. mine[r] \in Running => mine[r] \in Running'
    BY <1>0, <2>1, MoveArrives, ReviewIsCalm DEF Calm
  <2> QED
    BY <2>1, <2>2 DEF Wrote
<1> QED
  BY <1>2, <1>3, <1>4, <1>5, <1>6 DEF Agent

\* The owner's review starts nothing.
LEMMA OwnerIsCalm ==
    ASSUME IInv, NEW r \in Runs, RuntimeOf[r] = "owner-review", Reviews(r), Command(r)
    PROVE  Calm /\ Reviews(r)'
<1>0. Ledger!TypeOK /\ pc \in [Runs -> Step]
  BY DEF IInv, TypeOK
<1>1. CASE Create(r)
  BY <1>0, <1>1, CreateIsCalm DEF Create, Reviews
<1>2. CASE \/ \E a \in DOMAIN attempts, v \in Ledger!Verdict : PlanOwner(r, a, v)
           \/ \E a \in DOMAIN attempts : BuildReview(r, a)
           \/ InsertReview(r) \/ Approve(r)
  <2>1. Calm
    BY <1>0, <1>2, ReviewIsCalm DEF PlanOwner, BuildReview, InsertReview, Approve
  <2>2. Reviews(r)'
    BY <1>0, <1>2 DEF PlanOwner, BuildReview, InsertReview, Approve, Goto, Reviews
  <2> QED
    BY <2>1, <2>2
<1>3. CASE Reject(r)
  <2>1. MoveTo(Host(r), "blocked") /\ Goto(r, "done")
    BY <1>3 DEF Reject
  <2>2. Calm
    BY <1>0, <2>1, MoveArrives DEF Calm
  <2> QED
    BY <1>0, <2>1, <2>2 DEF Goto, Reviews
<1>4. CASE Raise(r) \/ Terminate(r)
  <2>1. Stop(r)
    BY <1>4 DEF Raise, Terminate, Reviews
  <2>2. Ledger!Abandon(Host(r)) \/ UNCHANGED ledger
    BY <2>1 DEF Stop
  <2>3. Calm
    BY <1>0, <2>2, ReviewIsCalm
  <2> QED
    BY <1>0, <2>1, <2>3 DEF Stop, Goto, Reviews
<1>5. CASE SurvivorEnds(r)
  BY <1>0, <1>5, ReviewIsCalm DEF SurvivorEnds, Reviews
<1> QED
  BY <1>1, <1>2, <1>3, <1>4, <1>5
  DEF Command, Plan, PlanReview, PlanPending, Read, Move, Start, Prepare, Launch, Record,
      End, Exit, TearDown, List, FailChild, Own, Look, Settle, At, Reviews

\* Each command keeps what it started in order, and leaves nothing when it is over.
LEMMA CommandTidies ==
    ASSUME IInv, Ledger!TypeOK', NEW r \in Runs, RuntimeOf[r] # "owner-review",
           Tidy(r), Command(r), UNCHANGED strays,
           pc[r] = "idle" /\ pc'[r] # "idle" => Quiet
    PROVE  /\ Tidy(r)'
           /\ Calm \/ pc[r] \notin {"idle", "done"}
           /\ pc[r] # "idle" /\ ~Over(r) /\ Over(r)' => Quiet'
<1> DEFINE Good == /\ Tidy(r)'
                   /\ Calm \/ pc[r] \notin {"idle", "done"}
                   /\ pc[r] # "idle" /\ ~Over(r) /\ Over(r)' => Quiet'
           Clients == Runs \X {"run", "tool"}
           Same == /\ mine'[r] = mine[r] /\ ending'[r] = ending[r] /\ todo'[r] = todo[r]
                   /\ process'[r] = process[r]
<1>0. /\ Ledger!TypeOK /\ ControlOK /\ Placed(r) /\ IsCoordinator(r)' = IsCoordinator(r)
      /\ Host(r) \in Clients
      /\ \A step : Goto(r, step) => pc'[r] = step
  BY DEF IInv, TypeOK, ControlOK, IsCoordinator, Host, Goto
<1>q. Calm => Running' = Running /\ (Quiet => Quiet')
  BY DEF Calm, Quiet
<1>u. ASSUME UNCHANGED ledger PROVE Calm
  BY <1>0, <1>u, ReviewIsCalm
<1>e. pc'[r] # "done" => ~Over(r)'
  BY DEF Over, At
<1> SUFFICES Good
  OBVIOUS
<1> HIDE DEF Clients
\* To the process.
<1>1. CASE Create(r)
  <2>1. pc[r] = "idle" /\ pc' = pc /\ Same
    BY <1>1 DEF Create, At, plan, run
  <2>2. Calm
    BY <1>0, <1>1, CreateIsCalm DEF Create
  <2> QED
    BY <2>1, <2>2 DEF Tidy
<1>2. CASE Plan(r) \/ PlanReview(r) \/ PlanPending(r)
  <2>1. /\ pc[r] \in {"idle", "pending"} /\ pc'[r] \in {"pending", "read"}
        /\ Same /\ UNCHANGED ledger
    BY <1>0, <1>2 DEF Plan, PlanReview, PlanPending, At, plan, run
  <2>2. Calm /\ Quiet
    BY <1>u, <2>1 DEF Tidy
  <2> QED
    BY <1>q, <1>e, <2>1, <2>2 DEF Tidy
<1>3. CASE Read(r)
  <2>1. pc[r] = "read" /\ pc'[r] \in {"move", "start"} /\ Same /\ UNCHANGED ledger
    BY <1>0, <1>3 DEF Read, At, plan, run
  <2>2. Calm /\ Quiet
    BY <1>u, <2>1 DEF Tidy
  <2> QED
    BY <1>q, <1>e, <2>1, <2>2 DEF Tidy, Quiet
<1>4. CASE Move(r)
  <2>1. pc[r] = "move" /\ pc'[r] = "start" /\ Same /\ MoveTo(Host(r), "running")
    BY <1>0, <1>4 DEF Move, At, plan, run
  <2>2. Running' = {}
    BY <1>0, <2>1, MoveArrives DEF Tidy, Quiet
  <2> QED
    BY <1>e, <2>1, <2>2 DEF Tidy
<1>5. CASE Start(r)
  <2>1. /\ pc[r] = "start" /\ pc'[r] = "prepare" /\ mine'[r] = Len(attempts')
        /\ UNCHANGED <<plan, ending, process>>
    BY <1>0, <1>5 DEF Start, At, ControlOK
  <2>2. Running' = {Len(attempts')}
    <3>1. /\ ItemOf(r) \in Items \cup {"primary", "coordinator", "review"}
          /\ ProviderOf(r) \in Builders \cup Reviewers \cup {"anthropic", "openai", "operator"}
      BY DEF ItemOf, ProviderOf
    <3>2. PICK k \in Ledger!AttemptKind :
                Ledger!StartAttempt(Host(r), Task, k, ItemOf(r), ProviderOf(r))
      BY <1>5 DEF Start, Ledger!AttemptKind
    <3>3. Running' = Running \cup {Len(attempts')}
      BY <1>0, <3>1, <3>2, StartFills DEF Clients
    <3>4. Running = {}
      BY <2>1 DEF Tidy
    <3> QED
      BY <3>3, <3>4
  <2> QED
    BY <1>e, <2>1, <2>2 DEF Tidy
<1>6. CASE Prepare(r)
  <2>1. pc[r] = "prepare" /\ pc'[r] = "launch" /\ Same /\ UNCHANGED ledger
    BY <1>0, <1>6 DEF Prepare, At, plan, run
  <2> QED
    BY <1>0, <1>q, <1>u, <1>e, <2>1 DEF Tidy
<1>7. CASE Launch(r)
  <2>1. /\ pc[r] = "launch" /\ pc'[r] = "record" /\ UNCHANGED <<ledger, mine, ending>>
        /\ process'[r] = "live"
    BY <1>0, <1>7 DEF Launch, At, ControlOK
  <2> QED
    BY <1>0, <1>q, <1>u, <1>e, <2>1 DEF Tidy
<1>8. CASE Record(r)
  <2>1. pc[r] = "record" /\ pc'[r] = "wait" /\ Same /\ mine[r] \in DOMAIN attempts
        /\ Ledger!SetAttemptProcess(Host(r), mine[r])
    BY <1>0, <1>8 DEF Record, At, plan, run, Placed, Begun
  <2>2. Calm
    BY <1>0, <2>1, RecordIsCalm DEF Clients
  <2> QED
    BY <1>0, <1>q, <1>e, <2>1, <2>2 DEF Tidy
<1>9. ASSUME Exit(r) \/ TearDown(r) PROVE Good
  <2>1. /\ pc[r] \in {"launch", "record", "wait"} /\ UNCHANGED <<ledger, mine>>
        /\ pc'[r] = IF IsCoordinator(r) THEN "list" ELSE "own"
    BY <1>0, <1>9 DEF Exit, TearDown, Leave, At
  <2> QED
    BY <1>0, <1>q, <1>u, <1>e, <2>1 DEF Tidy
\* From its process to its outcome.
<1>10. CASE List(r)
  <2>1. /\ pc[r] = "list" /\ UNCHANGED <<ledger, mine, process>>
        /\ todo'[r] = Running \ {mine[r]}
        /\ pc'[r] = IF Running \ {mine[r]} = {} THEN "own" ELSE "children"
    BY <1>0, <1>10 DEF List, At, ControlOK, run, Running
  <2> QED
    BY <1>0, <1>q, <1>u, <1>e, <2>1 DEF Tidy
<1>11. CASE FailChild(r)
  <2>1. PICK a : a = First(todo[r])
    OBVIOUS
  <2>2. /\ pc[r] = "children" /\ UNCHANGED <<mine, process>> /\ todo'[r] = todo[r] \ {a}
        /\ pc'[r] = IF todo[r] = {a} THEN "own" ELSE "children"
        /\ Ledger!FinishAttempt(Host(r), a, "failed", "none")
    BY <1>0, <1>11, <2>1 DEF FailChild, At, ControlOK
  <2>3. a \in todo[r] /\ a \in DOMAIN attempts
    BY <1>0, <2>1, <2>2, FirstOfTodo DEF Placed
  <2>4. Running' = Running \ {a}
    BY <1>0, <2>2, <2>3, FinishEmpties DEF Ledger!AttemptStatus, Ledger!Evidence
  <2>5. CASE r \in strays
    BY <1>e, <2>2, <2>5 DEF Tidy
  <2>6. CASE r \notin strays
    <3>1. mine[r] \in Running /\ todo[r] = Running \ {mine[r]}
      BY <2>2, <2>6 DEF Tidy
    <3>2. /\ mine'[r] \in Running' /\ todo'[r] = Running' \ {mine'[r]}
          /\ todo[r] = {a} => Running' = {mine'[r]}
      BY <2>2, <2>3, <2>4, <3>1
    <3> QED
      BY <1>e, <2>2, <3>2 DEF Tidy
  <2> QED
    BY <2>5, <2>6
<1>12. CASE Own(r)
  <2>1. pc[r] = "own" /\ pc'[r] = "look" /\ Same /\ mine[r] \in DOMAIN attempts
    BY <1>0, <1>12 DEF Own, At, plan, run, Placed, Begun
  <2>2. Running' = Running \ {mine[r]}
    <3>1. PICK result \in Ledger!AttemptStatus :
                Ledger!FinishAttempt(Host(r), mine[r], result, "some")
      BY <1>12 DEF Own, Ledger!AttemptStatus
    <3> QED
      BY <1>0, <2>1, <3>1, FinishEmpties DEF Ledger!Evidence
  <2>3. r \notin strays => Running' = {}
    BY <2>1, <2>2 DEF Tidy
  <2> QED
    BY <1>e, <2>1, <2>3 DEF Tidy
<1>13. ASSUME pc[r] \in {"look", "settle"}, process' = process, Conclude(r),
              r \notin strays => Quiet'
       PROVE  Good
  <2>1. pc'[r] \in {"review", "done"}
    BY <1>0, <1>13 DEF Conclude
  <2> QED
    BY <1>13, <2>1 DEF Tidy, Over
<1>14. CASE Look(r)
  <2>1. pc[r] = "look" /\ UNCHANGED <<ledger, run>>
    BY <1>14 DEF Look, At
  <2>2. r \notin strays => Running' = {}
    BY <1>q, <1>u, <2>1 DEF Tidy
  <2>3. CASE status[Task] = "running"
    <3>1. pc'[r] = "settle"
      BY <1>0, <1>14, <2>3 DEF Look
    <3> QED
      BY <1>e, <2>1, <2>2, <3>1 DEF Tidy, run
  <2>4. CASE status[Task] # "running"
    <3>1. Conclude(r)
      BY <1>14, <2>4 DEF Look
    <3>2. r \notin strays => Quiet'
      BY <2>1, <2>2, <2>4 DEF Quiet, ledger
    <3> QED
      BY <1>13, <2>1, <3>1, <3>2 DEF run
  <2> QED
    BY <2>3, <2>4
<1>15. CASE Settle(r)
  <2>1. pc[r] = "settle" /\ UNCHANGED run /\ Conclude(r) /\ MoveTo(Host(r), Outcome(r))
    BY <1>15 DEF Settle, At
  <2>2. Running' = Running /\ status'[Task] = Outcome(r)
    <3>1. PICK target : target = Outcome(r)
      OBVIOUS
    <3> QED
      BY <1>0, <2>1, <3>1, MoveArrives
  <2>3. status'[Task] # "running"
    BY <2>2 DEF Outcome
  <2>4. r \notin strays => Quiet'
    BY <2>1, <2>2, <2>3 DEF Tidy, Quiet
  <2> QED
    BY <1>13, <2>1, <2>4 DEF run
\* Reviews.
<1>16. CASE (\E a \in DOMAIN attempts : BuildReview(r, a)) \/ InsertReview(r) \/ Approve(r)
            \/ Reject(r)
  <2>1. /\ pc[r] \in {"review", "decide"} /\ process' = process
        /\ pc'[r] \in {"review", "decide", "done"}
    BY <1>0, <1>16 DEF BuildReview, InsertReview, Approve, Reject, At, run
  <2>2. Calm
    <3>1. CASE Reject(r)
      BY <1>0, <3>1, MoveArrives DEF Reject, Calm
    <3>2. CASE (\E a \in DOMAIN attempts : BuildReview(r, a)) \/ InsertReview(r) \/ Approve(r)
      BY <1>0, <3>2, ReviewIsCalm DEF BuildReview, InsertReview, Approve
    <3> QED
      BY <1>16, <3>1, <3>2
  <2>3. r \notin strays => Quiet'
    BY <1>q, <2>1, <2>2 DEF Tidy
  <2> QED
    BY <2>1, <2>3 DEF Tidy, Over
\* Exceptions and signals.
<1>17. ASSUME Stop(r), pc[r] \notin {"idle", "done"},
              \/ r \in terminated'
              \/ ending[r] = "none"
              \/ r \notin strays => Quiet
       PROVE  Good
  <2>1. pc'[r] = "done" /\ Same
    BY <1>0, <1>17 DEF Stop, plan
  <2>2. Ledger!Abandon(Host(r)) \/ UNCHANGED ledger
    BY <1>17 DEF Stop
  <2>3. Calm
    BY <1>0, <2>2, ReviewIsCalm
  <2>4. Over(r)' => Quiet'
    BY <1>q, <1>17, <2>1, <2>3 DEF Over
  <2> QED
    BY <2>1, <2>3, <2>4 DEF Tidy
<1>18. CASE Raise(r)
  <2>1. Stop(r)
    BY <1>18 DEF Raise
  <2>2. CASE pc[r] \in {"pending", "move", "start", "prepare"}
    BY <1>17, <2>1, <2>2 DEF Tidy
  <2>3. CASE pc[r] \in {"review", "decide"}
    BY <1>17, <2>1, <2>3 DEF Tidy
  <2>4. CASE Refused(r)
    <3>1. RunningAreRows
      BY <1>0, RunningRows
    <3>2. CASE At(r, "children") /\ attempts[First(todo[r])].status # "running"
      <4>1. First(todo[r]) \in todo[r]
        BY <1>0, <3>2, FirstOfTodo DEF Placed, At
      <4>2. r \in strays
        BY <3>1, <3>2, <4>1 DEF Tidy, At, RunningAreRows
      <4> QED
        BY <1>17, <2>1, <3>2, <4>2 DEF At
    <3>3. CASE At(r, "own") /\ attempts[mine[r]].status # "running"
      <4>1. r \in strays
        BY <3>1, <3>3 DEF Tidy, At, RunningAreRows
      <4> QED
        BY <1>17, <2>1, <3>3, <4>1 DEF At
    <3>4. CASE At(r, "settle") /\ ~Movable(Outcome(r))
      <4>1. ASSUME r \notin strays PROVE Quiet
        <5>1. Running = {} /\ Ledger!RunningImplementations(Task) = {}
          BY <3>4, <4>1 DEF Tidy, At, Running, Ledger!RunningImplementations
        <5>2. Outcome(r) \in {"needs_review", "blocked", "failed"}
          BY DEF Outcome
        <5>3. status[Task] = "running" => Ledger!MayTransition(Task, Outcome(r))
          BY <5>1, <5>2 DEF Ledger!MayTransition, Ledger!ValidTransitions
        <5> QED
          BY <3>4, <5>1, <5>3 DEF Movable, Quiet
      <4> QED
        BY <1>17, <2>1, <3>4, <4>1 DEF At
    <3> QED
      BY <2>4, <3>2, <3>3, <3>4 DEF Refused
  <2> QED
    BY <1>18, <2>2, <2>3, <2>4 DEF Raise
<1>19. CASE Terminate(r)
  <2>1. r \in terminated' /\ pc[r] \notin {"idle", "done"}
    BY <1>19 DEF Terminate
  <2> QED
    BY <1>9, <1>17, <1>19, <2>1 DEF Terminate
<1>20. CASE End(r)
  BY <1>9, <1>20 DEF End
<1>22. CASE SurvivorEnds(r)
  <2>1. /\ ending[r] # "none"
        /\ UNCHANGED <<ledger, pc, mine, ending, todo, terminated>>
    BY <1>22 DEF SurvivorEnds, plan
  <2>2. Calm
    BY <1>u, <2>1
  <2>3. Over(r)' => Over(r)
    BY <2>1 DEF Over, At
  <2> QED
    BY <1>q, <2>1, <2>2, <2>3 DEF Tidy
<1>21. ASSUME NEW a, NEW v, PlanOwner(r, a, v) PROVE FALSE
  BY <1>21 DEF PlanOwner
<1> QED
  BY <1>1, <1>2, <1>3, <1>4, <1>5, <1>6, <1>7, <1>8, <1>10, <1>11, <1>12, <1>14, <1>15,
     <1>16, <1>18, <1>19, <1>20, <1>21, <1>22 DEF Command

LEMMA AloneNext ==
    ASSUME IInv, Alone, [Next]_vars, OneAtATime, OneAtATime'
    PROVE  Alone'
<1> DEFINE Placing == \A s \in Runs :
                IF RuntimeOf[s] = "owner-review" THEN Reviews(s)' ELSE Tidy(s)'
<1>0. Ledger!TypeOK' /\ RowsKept /\ ControlOK
  BY LedgerKept DEF IInv, TypeOK, ControlOK
<1>1. ASSUME NEW s \in Runs, Rests(s), s \in strays' <=> s \in strays, Calm \/ ~Working(s)
      PROVE  IF RuntimeOf[s] = "owner-review" THEN Reviews(s)' ELSE Tidy(s)'
  <2>1. CASE RuntimeOf[s] = "owner-review"
    BY <1>1, <2>1 DEF Alone, Rests, Reviews
  <2>2. CASE RuntimeOf[s] # "owner-review"
    <3>1. Calm \/ pc[s] \in {"idle", "done"}
      BY <1>1, <2>2 DEF Working, Over, At
    <3> QED
      BY <1>1, <2>2, <3>1, TidyRests DEF Alone
  <2> QED
    BY <2>1, <2>2
\* A run that rests is as far as it was, unless a signal or a tool of it says otherwise.
<1>2. ASSUME NEW s \in Runs, Rests(s), s \in terminated' <=> s \in terminated,
             s \in strays' <=> s \in strays
      PROVE  Working(s)' <=> Working(s)
  BY <1>2 DEF Rests, Working, Over, At
<1>3. ASSUME Calm, \A s \in Runs : Working(s)' <=> Working(s), Placing
      PROVE  Alone'
  <2>1. (\A s \in Runs : ~Working(s)') => Quiet'
    BY <1>3 DEF Alone, Calm, Quiet
  <2> QED
    BY <1>3, <2>1 DEF Alone
<1>4. ASSUME NEW r \in Runs, Command(r) PROVE Alone'
  <2>1. \A s \in Runs : s # r => Rests(s)
    BY <1>0, <1>4, CommandStays DEF Local
  <2>2. \A s \in Runs : s # r => (s \in terminated' <=> s \in terminated)
    BY <1>4
    DEF Command, Create, Plan, PlanReview, PlanPending, PlanOwner, Read, Move, Start,
        Prepare, Launch, Record, End, List, FailChild, Own, Look, Settle, BuildReview,
        InsertReview, Approve, Reject, Raise, Terminate, SurvivorEnds, run
  <2>c. UNCHANGED strays
    BY <1>0, <1>4, CommandStays DEF Local, agent
  <2>3. \A s \in Runs : s # r => (Working(s)' <=> Working(s))
    BY <1>2, <2>1, <2>2, <2>c
  <2>4. CASE RuntimeOf[r] = "owner-review"
    <3>1. Calm /\ Reviews(r)'
      BY <1>4, <2>4, OwnerIsCalm DEF Alone
    <3>2. ~Working(r)' /\ ~Working(r)
      BY <2>4 DEF Working
    <3>3. Placing
      BY <1>1, <2>1, <2>4, <2>c, <3>1
    <3> QED
      BY <1>3, <2>3, <3>1, <3>2, <3>3
  <2>5. CASE RuntimeOf[r] # "owner-review"
    <3>1. ASSUME pc[r] = "idle", pc'[r] # "idle" PROVE Quiet
      <4>1. pc'[r] # "done"
        BY <1>0, <1>4, <3>1
        DEF Command, Create, Plan, PlanReview, PlanPending, PlanOwner, Read, Move, Start,
            Prepare, Launch, Record, End, Exit, TearDown, List, FailChild, Own, Look,
            Settle, BuildReview, InsertReview, Approve, Reject, Raise, Refused, Terminate,
            SurvivorEnds, At, Goto, ControlOK
      <4>2. Working(r)' /\ ~Working(r)
        BY <2>5, <3>1, <4>1 DEF Working, Over, At
      <4>3. \A s \in Runs : ~Working(s)
        BY <2>3, <4>2 DEF OneAtATime
      <4> QED
        BY <4>3 DEF Alone
    <3>2. /\ Tidy(r)'
          /\ Calm \/ pc[r] \notin {"idle", "done"}
          /\ pc[r] # "idle" /\ ~Over(r) /\ Over(r)' => Quiet'
      BY <1>0, <1>4, <2>5, <2>c, <3>1, CommandTidies DEF Alone
    <3>3. CASE Working(r)
      <4>1. \A s \in Runs : s # r => ~Working(s)
        BY <3>3 DEF OneAtATime
      <4>2. Placing
        BY <1>1, <2>1, <2>5, <2>c, <3>2, <4>1
      <4>3. ~Working(r)' => Quiet'
        <5>1. pc[r] # "idle" /\ pc'[r] # "idle"
          <6>1. pc[r] # "idle"
            BY <3>3 DEF Working, At
          <6> QED
            BY <1>0, <1>4, <6>1
            DEF Command, Create, Plan, PlanReview, PlanPending, PlanOwner, Read, Move, Start,
                Prepare, Launch, Record, End, Exit, TearDown, Leave, List, FailChild, Own,
                Look, Settle, Conclude, BuildReview, InsertReview, Approve, Reject, Raise,
                Refused, Stop, Terminate, SurvivorEnds, At, Goto, ControlOK
        <5> QED
          BY <2>5, <3>2, <3>3, <5>1 DEF Working, At
      <4> QED
        BY <4>2, <4>3 DEF Alone
    <3>4. CASE ~Working(r)
      <4>1. Calm
        BY <2>5, <3>2, <3>4 DEF Working, Over, At
      <4>2. Placing
        BY <1>1, <2>1, <2>5, <2>c, <3>2, <4>1
      <4>3. (\A s \in Runs : ~Working(s)') => Quiet'
        BY <2>3, <3>4, <4>1 DEF Alone, Calm, Quiet
      <4> QED
        BY <4>2, <4>3 DEF Alone
    <3> QED
      BY <3>3, <3>4
  <2> QED
    BY <2>4, <2>5
<1>5. ASSUME NEW r \in Runs, Agent(r) PROVE Alone'
  <2>1. \A s \in Runs : Rests(s)
    BY <1>0, <1>5, AgentStays
  <2>2. UNCHANGED terminated
    BY <1>5
    DEF Agent, ToolRead, ToolMove, ToolStart, ToolFinish, ToolReview, ToolInsert,
        ToolApproved, ToolComplete, ToolRaises, Dispatch, run
  <2>3. ASSUME NEW s \in Runs, s \in strays' <=> s \in strays
        PROVE  Working(s)' <=> Working(s)
    BY <1>2, <2>1, <2>2, <2>3
  <2>4. CASE Calm /\ UNCHANGED strays
    <3>1. Placing
      BY <1>1, <2>1, <2>4
    <3> QED
      BY <1>3, <2>3, <2>4, <3>1
  <2>5. CASE Wrote(r)
    <3>1. Tidy(r)
      BY <2>5 DEF Alone, Wrote
    <3>2. pc[r] \notin {"idle", "pending", "read", "move", "start", "prepare", "launch"}
      BY <2>5, <3>1 DEF Tidy, Wrote, Living
    <3>3. /\ strays' = IF pc[r] \in {"record", "wait", "list"} THEN strays
                                                            ELSE strays \cup {r}
          /\ \A s \in Runs : s # r => (s \in strays' <=> s \in strays)
      BY <2>5, <3>2 DEF Wrote, Writes
    <3>4. Working(r)'
      BY <1>0, <2>1, <2>5, <3>2, <3>3 DEF Working, Over, At, Wrote, Rests
    <3>5. \A s \in Runs : s # r => ~Working(s)
      BY <2>3, <3>3, <3>4 DEF OneAtATime
    <3>6. Tidy(r)'
      BY <2>1, <2>5, <3>1, <3>2, <3>3 DEF Tidy, Rests, IsCoordinator, Wrote
    <3>7. Placing
      BY <1>1, <2>1, <2>5, <3>3, <3>5, <3>6 DEF Wrote
    <3> QED
      BY <3>4, <3>7 DEF Alone
  <2> QED
    BY <1>0, <1>5, <2>4, <2>5, AgentRuns
<1>6. CASE UNCHANGED vars
  <2>1. \A s \in Runs : Rests(s)
    BY <1>6 DEF Rests, vars, ledger, plan, run
  <2>2. UNCHANGED strays /\ \A s \in Runs : Working(s)' <=> Working(s)
    BY <1>2, <1>6, <2>1 DEF vars, run, agent
  <2>3. Calm
    BY <1>6 DEF Calm, vars, ledger, Running, Ledger!RunningAttempts, Ledger!AttemptIds
  <2>4. Placing
    BY <1>1, <2>1, <2>2, <2>3
  <2> QED
    BY <1>3, <2>2, <2>3, <2>4
<1> QED
  BY <1>4, <1>5, <1>6 DEF Next

LEMMA AloneInit == Init => Alone
<1> SUFFICES ASSUME Init PROVE Alone
  OBVIOUS
<1>1. attempts = <<>> /\ status[Task] = "absent"
  BY DEF Init, Ledger!Init
<1>2. Running = {}
  BY <1>1 DEF Running, Ledger!RunningAttempts, Ledger!AttemptIds
<1> QED
  BY <1>1, <1>2 DEF Alone, Tidy, Reviews, Quiet, Init

\* Where commands are given one after another, the owner's reviews at any time, an ended
\* command that no signal terminated leaves no attempt running and no task that waits for
\* one: however its process ended and wherever an exception came in its try statement,
\* whatever its tools had started, and whatever is left of it, so long as that writes no
\* more once the command has listed the children.
THEOREM NothingIsLeft ==
    Spec /\ []OneAtATime => []EndedRunsLeaveNothingRunning
<1>1. IInv /\ Alone /\ [Next]_vars /\ OneAtATime /\ OneAtATime' => Alone'
  BY AloneNext
<1>2. Alone => EndedRunsLeaveNothingRunning
  BY DEF Alone, Working, Quiet, Running, EndedRunsLeaveNothingRunning
<1> QED
  BY <1>1, <1>2, AloneInit, Invariance, PTL DEF Spec
=============================================================================
