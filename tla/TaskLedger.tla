------------------------------ MODULE TaskLedger ------------------------------
(***************************************************************************)
(* The task ledger of Agent OS (src/agent_os/store.py): the SQLite tables  *)
(* tasks, attempts, reviews and task_events, and the operations the CLI,   *)
(* the runners, the coordinator tools and the HTTP service call on them.   *)
(*                                                                         *)
(* Every process opens its own connections, so calls of different clients  *)
(* interleave.  An operation that decides and writes inside one BEGIN      *)
(* IMMEDIATE transaction, or whose only write is a compare-and-swap on     *)
(* what it read, is one atomic action.  The operations that read outside   *)
(* the transaction that writes (record_review, complete_task,              *)
(* reconcile_stale_attempts) take one step per read or write; call[c]      *)
(* holds what client c remembers in between.                               *)
(*                                                                         *)
(* A refused call (ValueError, KeyError, RuntimeError) rolls back: it is   *)
(* an action that is not enabled, or a step that only returns.             *)
(***************************************************************************)
EXTENDS Naturals, Sequences, FiniteSets

CONSTANTS
    Tasks,        \* task ids
    Clients,      \* processes that use the ledger (CLI, runner, HTTP service)
    WorkItems,    \* names a task's work is divided under
    Providers,    \* intelligence providers recorded for attempts and reviews
    MaxAttempts,  \* bound on the rows of attempts
    MaxReviews    \* bound on the reviews built

ASSUME BoundsAssumption ==
    /\ MaxAttempts \in Nat
    /\ MaxReviews \in Nat

VARIABLES
    status,    \* status[t]: tasks.status, "absent" before the row exists
    attempts,  \* the rows of attempts, in the order they started
    reviews,   \* the rows of reviews, in the order they were committed
    audit,     \* audit[t]: the newest task.created or task.transitioned event
    live,      \* attempts whose recorded process is alive
    clock,     \* created_at stamps given out to reviews so far
    call       \* call[c]: the operation client c is in the middle of

ledger == <<status, attempts, reviews, audit>>
vars == <<status, attempts, reviews, audit, live, clock, call>>

-----------------------------------------------------------------------------
(* Records.                                                                *)

TaskStatus ==
    {"queued", "running", "needs_review", "blocked", "completed", "failed",
     "cancelled"}
AttemptStatus == {"running", "succeeded", "failed", "cancelled"}
AttemptKind == {"implementation", "coordinator"}
Verdict == {"approve", "request_changes"}
Evidence == {"none", "some"}   \* whether the list of evidence is empty

\* A summary tells apart what the idempotent replay of finish_attempt compares:
\* none yet, work reported by a runner, or which reconciliation.
Summary == {"", "work", "forced", "stale"}

Attempt ==
    [task : Tasks, kind : AttemptKind, item : WorkItems, provider : Providers,
     status : AttemptStatus, summary : Summary,
     evidence : Evidence, pid : {"null", "set"}]

\* A review row; at orders reviews as created_at does.
Review ==
    [task : Tasks, attempt : Nat, provider : Providers, verdict : Verdict,
     evidence : Evidence, at : Nat]

\* An event of task_events about the status; creation comes from "absent".
Event == [from : TaskStatus \cup {"absent"}, to : TaskStatus \cup {"absent"}]

\* The statuses a task may move to; completed and cancelled are closed.
ValidTransitions ==
    [queued       |-> {"running", "blocked", "failed", "cancelled"},
     running      |-> {"needs_review", "blocked", "failed", "cancelled"},
     needs_review |-> {"running", "blocked", "failed"},
     blocked      |-> {"queued", "running", "failed"},
     failed       |-> {"queued", "running"},
     completed    |-> {},
     cancelled    |-> {}]

\* What a client remembers between the steps of one operation.
NoCall == [op |-> "none"]
ReviewCall == [op : {"review"}, review : Review]
CompleteCall ==
    [op : {"complete"}, task : Tasks, step : {"running", "latest", "reviews"},
     todo : SUBSET Nat]
ReconcileCall ==
    [op : {"reconcile"}, force : BOOLEAN, todo : SUBSET Nat, pids : SUBSET Nat,
     affected : SUBSET Tasks]
SettleCall ==
    [op : {"settle"}, task : Tasks, step : {"status", "running", "transition"},
     rest : SUBSET Tasks, affected : SUBSET Tasks]
Call == {NoCall} \cup ReviewCall \cup CompleteCall \cup ReconcileCall
            \cup SettleCall

-----------------------------------------------------------------------------
(* Queries.                                                                *)

AttemptIds == DOMAIN attempts
ReviewIds == DOMAIN reviews

RunningAttempts(t) ==
    {a \in AttemptIds : attempts[a].task = t /\ attempts[a].status = "running"}

Implementations(t) ==
    {a \in AttemptIds :
        attempts[a].task = t /\ attempts[a].kind = "implementation"}

RunningImplementations(t) == RunningAttempts(t) \cap Implementations(t)

\* The newest implementation attempt of every work item of t.
LatestAttempts(t) ==
    {a \in Implementations(t) :
        \A b \in Implementations(t) :
            attempts[b].item = attempts[a].item => b <= a}

ReviewsOf(a) == {r \in ReviewIds : reviews[r].attempt = a}

\* Review r is the one ORDER BY created_at DESC LIMIT 1 returns for attempt a.
IsLatestReview(r, a) ==
    /\ r \in ReviewsOf(a)
    /\ \A q \in ReviewsOf(a) : reviews[q].at <= reviews[r].at

\* Review r closes the gate for the attempt it names.
Approves(r) ==
    /\ reviews[r].verdict = "approve"
    /\ reviews[r].evidence = "some"
    /\ reviews[r].provider # attempts[reviews[r].attempt].provider

\* The gate of complete_task, evaluated in one state.
GateHolds(t) ==
    /\ RunningImplementations(t) = {}
    /\ LatestAttempts(t) # {}
    /\ \A a \in LatestAttempts(t) :
        /\ attempts[a].status = "succeeded"
        /\ \E r \in ReviewIds : IsLatestReview(r, a) /\ Approves(r)

-----------------------------------------------------------------------------
(* Clients.                                                                *)

Idle(c) == call[c] = NoCall
Become(c, k) == call' = [call EXCEPT ![c] = k]

\* A client process is killed, or a step it is about to take raises: the open
\* transaction rolls back and nothing later happens.
Abandon(c) ==
    /\ ~Idle(c)
    /\ Become(c, NoCall)
    /\ UNCHANGED <<ledger, live, clock>>

-----------------------------------------------------------------------------
(* Tasks.                                                                  *)

\* Variants, named for the line they lose, show which property needs the line.

\* UPDATE tasks ... AND status = from, and the event in the same transaction.
MoveTask(t, from, to) ==
    /\ status[t] = from
    /\ status' = [status EXCEPT ![t] = to]
    /\ audit' = [audit EXCEPT ![t] = [from |-> from, to |-> to]]

\* create_task: the primary key makes a second creation a replay.
CreateTask(c, t) ==
    /\ Idle(c)
    /\ MoveTask(t, "absent", "queued")
    /\ UNCHANGED <<attempts, reviews, live, clock, call>>

MayTransitionWhileBuilding(t, target) ==
    /\ status[t] # "absent"
    /\ target \in ValidTransitions[status[t]]

\* What transition() checks before it moves an existing task to target.
MayTransition(t, target) ==
    /\ status[t] # "absent"
    /\ target \in ValidTransitions[status[t]]
    /\ target \in {"blocked", "failed"} => RunningImplementations(t) = {}

\* transition(): the generic move; closing has operations of its own.
TransitionTask(c, t, target) ==
    /\ Idle(c)
    /\ target \notin {"completed", "cancelled"}
    /\ MayTransition(t, target)
    /\ MoveTask(t, status[t], target)
    /\ UNCHANGED <<attempts, reviews, live, clock, call>>

\* cancel_task: queued work, or a running task with no running attempt at all.
MayCancel(t) ==
    /\ status[t] \in {"queued", "running"}
    /\ RunningAttempts(t) = {}

CancelTask(c, t) ==
    /\ Idle(c)
    /\ MayCancel(t)
    /\ MoveTask(t, status[t], "cancelled")
    /\ UNCHANGED <<attempts, reviews, live, clock, call>>

-----------------------------------------------------------------------------
(* Attempts.                                                               *)

WorkItemFreeWithoutIndex(t, k, i) == TRUE

\* The partial unique index: one running implementation per work item.
WorkItemFree(t, k, i) ==
    k = "implementation" =>
        \A a \in RunningImplementations(t) : attempts[a].item # i

StartAttempt(c, t, k, i, p) ==
    /\ Idle(c)
    /\ Len(attempts) < MaxAttempts
    /\ status[t] = "running"
    /\ WorkItemFree(t, k, i)
    /\ attempts' = Append(attempts,
            [task |-> t, kind |-> k, item |-> i, provider |-> p,
             status |-> "running", summary |-> "", evidence |-> "none",
             pid |-> "null"])
    /\ UNCHANGED <<status, reviews, audit, live, clock, call>>

FinishRowKeepingPid(a, result, summary, evidence) ==
    /\ attempts[a].status = "running"
    /\ attempts' = [attempts EXCEPT
            ![a].status = result, ![a].summary = summary, ![a].evidence = evidence]

FinishRowWithoutCompare(a, result, summary, evidence) ==
    attempts' = [attempts EXCEPT
        ![a].status = result, ![a].summary = summary,
        ![a].evidence = evidence, ![a].pid = "null"]

\* UPDATE attempts ... pid = NULL WHERE id = a AND status = 'running'.
FinishRow(a, result, summary, evidence) ==
    /\ attempts[a].status = "running"
    /\ attempts' = [attempts EXCEPT
            ![a].status = result, ![a].summary = summary,
            ![a].evidence = evidence, ![a].pid = "null"]

\* finish_attempt by whoever did the work.  Repeating it changes nothing.  The
\* evidence of an attempt that did not succeed is not told apart.
FinishAttempt(c, a, result, evidence) ==
    /\ Idle(c)
    /\ result # "running"
    /\ result = "succeeded" => evidence = "some"
    /\ FinishRow(a, result, "work",
                 IF result = "succeeded" THEN evidence ELSE "none")
    /\ UNCHANGED <<status, reviews, audit, live, clock, call>>

\* set_attempt_process, right after the launch; a runner calls it once.
SetAttemptProcess(c, a) ==
    /\ Idle(c)
    /\ attempts[a].status = "running"
    /\ attempts[a].pid = "null"
    /\ attempts' = [attempts EXCEPT ![a].pid = "set"]
    /\ live' = live \cup {a}
    /\ UNCHANGED <<status, reviews, audit, clock, call>>

\* The recorded process ends; the ledger is not told.
ProcessExits(a) ==
    /\ live' = live \ {a}
    /\ live' # live
    /\ UNCHANGED <<ledger, clock, call>>

-----------------------------------------------------------------------------
(* record_review: everything is validated and stamped before the insert.   *)

MayReviewUnfinished(t, a, p, v, e) ==
    /\ attempts[a].task = t
    /\ attempts[a].kind = "implementation"
    /\ attempts[a].provider # p
    /\ v = "approve" => e = "some"

\* What record_review requires of the attempt and of the reviewer's identity.
MayReview(t, a, p, v, e) ==
    /\ attempts[a].task = t
    /\ attempts[a].kind = "implementation"
    /\ attempts[a].status = "succeeded"
    /\ attempts[a].provider # p
    /\ v = "approve" => e = "some"

\* The verdict "blocked" closes no gate either: "request_changes" stands for it,
\* and what evidence came with it is not told apart.
BuildReview(c, t, a, p, v, e) ==
    /\ Idle(c)
    /\ status[t] # "absent"
    /\ clock < MaxReviews
    /\ MayReview(t, a, p, v, e)
    /\ clock' = clock + 1
    /\ Become(c, [op |-> "review",
                  review |-> [task |-> t, attempt |-> a, provider |-> p,
                              verdict |-> v,
                              evidence |-> IF v = "approve" THEN e ELSE "none",
                              at |-> clock + 1]])
    /\ UNCHANGED <<ledger, live>>

InsertReview(c) ==
    /\ call[c].op = "review"
    /\ reviews' = Append(reviews, call[c].review)
    /\ Become(c, NoCall)
    /\ UNCHANGED <<status, attempts, audit, live, clock>>

-----------------------------------------------------------------------------
(* complete_task: SELECT after SELECT in autocommit, then one transaction. *)

AtComplete(c, step) == call[c].op = "complete" /\ call[c].step = step

CompleteBegin(c, t) ==
    /\ Idle(c)
    /\ status[t] = "needs_review"
    /\ Become(c, [op |-> "complete", task |-> t, step |-> "running",
                  todo |-> {}])
    /\ UNCHANGED <<ledger, live, clock>>

CompleteNoneRunning(c) ==
    /\ AtComplete(c, "running")
    /\ RunningImplementations(call[c].task) = {}
    /\ Become(c, [call[c] EXCEPT !.step = "latest"])
    /\ UNCHANGED <<ledger, live, clock>>

CompleteLatestEvenWithout(c) ==
    /\ AtComplete(c, "latest")
    /\ LET latest == LatestAttempts(call[c].task)
       IN  /\ \A a \in latest : attempts[a].status = "succeeded"
           /\ Become(c, [call[c] EXCEPT !.step = "reviews", !.todo = latest])
    /\ UNCHANGED <<ledger, live, clock>>

\* The loop reads each status from this snapshot, so a latest attempt that did
\* not succeed refuses the call now or later, to the same effect.
CompleteLatest(c) ==
    /\ AtComplete(c, "latest")
    /\ LET latest == LatestAttempts(call[c].task)
       IN  /\ latest # {}
           /\ \A a \in latest : attempts[a].status = "succeeded"
           /\ Become(c, [call[c] EXCEPT !.step = "reviews", !.todo = latest])
    /\ UNCHANGED <<ledger, live, clock>>

CompleteCheckAnyReview(c, a) ==
    /\ AtComplete(c, "reviews")
    /\ a \in call[c].todo
    /\ \E r \in ReviewsOf(a) : Approves(r)
    /\ Become(c, [call[c] EXCEPT !.todo = @ \ {a}])
    /\ UNCHANGED <<ledger, live, clock>>

\* One attempt of the snapshot: its newest review is read now.
CompleteCheck(c, a) ==
    /\ AtComplete(c, "reviews")
    /\ a \in call[c].todo
    /\ \E r \in ReviewIds : IsLatestReview(r, a) /\ Approves(r)
    /\ Become(c, [call[c] EXCEPT !.todo = @ \ {a}])
    /\ UNCHANGED <<ledger, live, clock>>

CompleteCommitWithoutCompare(c) ==
    /\ AtComplete(c, "reviews")
    /\ call[c].todo = {}
    /\ status' = [status EXCEPT ![call[c].task] = "completed"]
    /\ audit' = [audit EXCEPT ![call[c].task] =
                    [from |-> "needs_review", to |-> "completed"]]
    /\ Become(c, NoCall)
    /\ UNCHANGED <<attempts, reviews, live, clock>>

\* The compare-and-swap is on the status alone.
CompleteCommit(c) ==
    /\ AtComplete(c, "reviews")
    /\ call[c].todo = {}
    /\ MoveTask(call[c].task, "needs_review", "completed")
    /\ Become(c, NoCall)
    /\ UNCHANGED <<attempts, reviews, live, clock>>

-----------------------------------------------------------------------------
(* reconcile_stale_attempts: rows and their pids are read once, then each  *)
(* attempt and each affected task is handled in transactions of its own.   *)

Reason(force) == IF force THEN "forced" ELSE "stale"

\* The calls that go through the tasks of rest, in the order a set iterates.
Settling(rest, affected) ==
    IF rest = {} THEN {NoCall}
    ELSE {[op |-> "settle", task |-> t, step |-> "status",
           rest |-> rest \ {t}, affected |-> affected] : t \in rest}

ReconcileBegin(c, force) ==
    LET rows == {a \in AttemptIds : attempts[a].status = "running"}
    IN  /\ Idle(c)
        /\ rows # {}
        /\ Become(c, [op |-> "reconcile", force |-> force, todo |-> rows,
                      pids |-> {a \in rows : attempts[a].pid = "set"},
                      affected |-> {}])
        /\ UNCHANGED <<ledger, live, clock>>

\* Attempt a is the next row of the snapshot.
AtRow(c, a) ==
    /\ call[c].op = "reconcile"
    /\ a \in call[c].todo
    /\ \A b \in call[c].todo : a <= b

\* Client c is done with row a; affected are the tasks it must settle.
NextRow(c, a, affected) ==
    LET rest == call[c].todo \ {a}
    IN  IF rest = {}
        THEN \E k \in Settling(affected, affected) : Become(c, k)
        ELSE Become(c, [call[c] EXCEPT !.todo = rest, !.affected = affected])

\* The attempt is young, or a process answers to the pid the snapshot holds
\* (the attempt's own, or one that was given its number since).
ReconcileSkip(c, a) ==
    /\ AtRow(c, a)
    /\ ~call[c].force
    /\ NextRow(c, a, call[c].affected)
    /\ UNCHANGED <<ledger, live, clock>>

SeenAliveNever(c, a) == FALSE

\* _pid_alive of the snapshot's pid.
SeenAlive(c, a) == a \in call[c].pids /\ a \in live

\* The attempt is failed; one that a reconciliation for the same reason failed
\* in the meantime is replayed.  Any other end raises (Abandon).
ReconcileFail(c, a) ==
    /\ AtRow(c, a)
    /\ call[c].force \/ ~SeenAlive(c, a)
    /\ \/ FinishRow(a, "failed", Reason(call[c].force), "none")
       \/ /\ attempts[a].status = "failed"
          /\ attempts[a].summary = Reason(call[c].force)
          /\ UNCHANGED attempts
    /\ NextRow(c, a, call[c].affected \cup {attempts[a].task})
    /\ UNCHANGED <<status, reviews, audit, live, clock>>

AtSettle(c, step) == call[c].op = "settle" /\ call[c].step = step
SettleNext(c) ==
    \E k \in Settling(call[c].rest, call[c].affected) : Become(c, k)

\* get_task: only a running task is settled.
SettleStatus(c) ==
    /\ AtSettle(c, "status")
    /\ IF status[call[c].task] = "running"
       THEN Become(c, [call[c] EXCEPT !.step = "running"])
       ELSE SettleNext(c)
    /\ UNCHANGED <<ledger, live, clock>>

SettleRunningAnyRow(c) ==
    /\ AtSettle(c, "running")
    /\ IF {a \in AttemptIds : attempts[a].task = call[c].task} = {}
       THEN Become(c, [call[c] EXCEPT !.step = "transition"])
       ELSE SettleNext(c)
    /\ UNCHANGED <<ledger, live, clock>>

\* A task with another running attempt, of any kind, is left alone.
SettleRunning(c) ==
    /\ AtSettle(c, "running")
    /\ IF RunningAttempts(call[c].task) = {}
       THEN Become(c, [call[c] EXCEPT !.step = "transition"])
       ELSE SettleNext(c)
    /\ UNCHANGED <<ledger, live, clock>>

\* transition(FAILED), which validates the status the task has by now.
SettleTransition(c) ==
    LET t == call[c].task
    IN  /\ AtSettle(c, "transition")
        /\ \/ /\ MayTransition(t, "failed")
              /\ MoveTask(t, status[t], "failed")
           \/ /\ status[t] = "failed"
              /\ UNCHANGED <<status, audit>>
        /\ SettleNext(c)
        /\ UNCHANGED <<attempts, reviews, live, clock>>

Settle(c) == SettleStatus(c) \/ SettleRunning(c) \/ SettleTransition(c)

-----------------------------------------------------------------------------
Init ==
    /\ status = [t \in Tasks |-> "absent"]
    /\ attempts = <<>>
    /\ reviews = <<>>
    /\ audit = [t \in Tasks |-> [from |-> "absent", to |-> "absent"]]
    /\ live = {}
    /\ clock = 0
    /\ call = [c \in Clients |-> NoCall]

TaskStep(c) ==
    \E t \in Tasks :
        \/ CreateTask(c, t)
        \/ \E target \in TaskStatus : TransitionTask(c, t, target)
        \/ CancelTask(c, t)

AttemptStep(c) ==
    \/ \E t \in Tasks, k \in AttemptKind, i \in WorkItems, p \in Providers :
            StartAttempt(c, t, k, i, p)
    \/ \E a \in AttemptIds :
        \/ \E result \in AttemptStatus, e \in Evidence :
                FinishAttempt(c, a, result, e)
        \/ SetAttemptProcess(c, a)

ReviewStep(c) ==
    \/ \E t \in Tasks, a \in AttemptIds, p \in Providers, v \in Verdict,
          e \in Evidence : BuildReview(c, t, a, p, v, e)
    \/ InsertReview(c)

CompleteStep(c) ==
    \/ \E t \in Tasks : CompleteBegin(c, t)
    \/ CompleteNoneRunning(c)
    \/ CompleteLatest(c)
    \/ \E a \in AttemptIds : CompleteCheck(c, a)
    \/ CompleteCommit(c)

ReconcileStep(c) ==
    \/ \E force \in BOOLEAN : ReconcileBegin(c, force)
    \/ \E a \in AttemptIds : ReconcileSkip(c, a) \/ ReconcileFail(c, a)
    \/ Settle(c)

ClientStep(c) ==
    \/ TaskStep(c)
    \/ AttemptStep(c)
    \/ ReviewStep(c)
    \/ CompleteStep(c)
    \/ ReconcileStep(c)
    \/ Abandon(c)

Next ==
    \/ \E c \in Clients : ClientStep(c)
    \/ \E a \in AttemptIds : ProcessExits(a)

Spec == Init /\ [][Next]_vars

-----------------------------------------------------------------------------
(* Properties.                                                             *)

\* Every column holds a value of its type, and only a running attempt has a
\* pid: finish_attempt clears it in the update that ends the attempt.
TypeOK ==
    /\ status \in [Tasks -> TaskStatus \cup {"absent"}]
    /\ attempts \in Seq(Attempt)
    /\ reviews \in Seq(Review)
    /\ audit \in [Tasks -> Event]
    /\ live \subseteq AttemptIds
    /\ clock \in Nat
    /\ call \in [Clients -> Call]
    /\ \A a \in AttemptIds : attempts[a].pid = "set" => attempts[a].status = "running"

\* The newest event of every task says where its row is now ...
AuditIsCurrent == \A t \in Tasks : audit[t].to = status[t]

\* ... and every event continues the one before it along a valid edge, so the
\* audit trail is the history of the row, whoever else wrote between the read
\* and the write of an operation.
AuditIsHistory ==
    [][\A t \in Tasks : audit'[t] # audit[t] =>
        /\ audit'[t].from = audit[t].to
        /\ \/ audit[t].to = "absent" /\ audit'[t].to = "queued"
           \/ audit'[t].to \in ValidTransitions[audit[t].to]
           \/ audit[t].to = "needs_review" /\ audit'[t].to = "completed"]_vars

\* Two builders never hold the same work item of a task at the same time.
OneRunningPerItem ==
    \A t \in Tasks : \A a, b \in RunningImplementations(t) :
        attempts[a].item = attempts[b].item => a = b

\* No implementation runs for a task the ledger shows as waiting, blocked,
\* failed or cancelled, and nothing at all runs for a cancelled one, although
\* attempts start and tasks move in transactions of different clients.
QuietWhenStopped ==
    \A t \in Tasks :
        /\ status[t] \in {"absent", "queued", "blocked", "failed", "cancelled"}
            => RunningImplementations(t) = {}
        /\ status[t] \in {"absent", "cancelled"} => RunningAttempts(t) = {}

\* Review data r is evidence from another provider about a finished attempt.
Independent(r) ==
    /\ r.attempt \in Implementations(r.task)
    /\ attempts[r.attempt].status = "succeeded"
    /\ attempts[r.attempt].evidence = "some"
    /\ r.provider # attempts[r.attempt].provider
    /\ r.verdict = "approve" => r.evidence = "some"

\* Every review in the ledger names a successful implementation attempt of its
\* own task, made by another provider, although record_review checks this
\* before the transaction that inserts the row.
ReviewsAreIndependent == \A r \in ReviewIds : Independent(reviews[r])

\* Some implementation attempt of t succeeded and was approved independently.
HasApproval(t) ==
    \E r \in ReviewIds :
        /\ reviews[r].task = t
        /\ Approves(r)
        /\ attempts[reviews[r].attempt].status = "succeeded"

\* Whatever races with complete_task, a completed task has evidence.
CompletedHasApproval ==
    \A t \in Tasks : status[t] = "completed" => HasApproval(t)

\* What a client read before its writing transaction is still true when it acts
\* on it: the attempt a review was validated against is still such an attempt,
\* and once every snapshotted attempt is checked the task has an approval.
RememberedFactsHold ==
    \A c \in Clients :
        /\ call[c].op = "review" => Independent(call[c].review)
        /\ AtComplete(c, "reviews") =>
            /\ \A a \in call[c].todo :
                a \in AttemptIds /\ attempts[a].task = call[c].task
            /\ call[c].todo = {} => HasApproval(call[c].task)

\* A finished attempt and a closed task never change again, no row is ever
\* removed or reordered, and reviews are never rewritten: a late finisher, a
\* reconciliation or a late canceller cannot take an outcome back.
OutcomesAreFinal ==
    [][ /\ \A t \in Tasks :
            status[t] \in {"completed", "cancelled"} => status'[t] = status[t]
        /\ \A a \in AttemptIds :
            /\ a \in DOMAIN attempts'
            /\ attempts[a].status # "running" => attempts'[a] = attempts[a]
        /\ \A r \in ReviewIds : r \in DOMAIN reviews' /\ reviews'[r] = reviews[r]
      ]_vars

\* Task t is shown as running and nothing runs for it.
Stranded(t) == status[t] = "running" /\ RunningAttempts(t) = {}

\* A reconciliation never moves on from a task it settles while that task is
\* stranded: between its reads the task may be moved by others, but not left.
SettledTaskIsNotStranded ==
    [][\A c \in Clients, t \in Tasks :
        /\ call[c].op = "settle" /\ call[c].task = t
        /\ Settle(c)
        => \/ call'[c].op = "settle" /\ call'[c].task = t
           \/ ~Stranded(t)']_vars

\* architecture.md and threat-model.md: completion is one transaction that
\* requires evidence-backed approval for the latest attempt of every work item.
\* At the step that closes a task, its gate holds.
GateHoldsAtCompletion ==
    [][\A t \in Tasks :
        status[t] # "completed" /\ status'[t] = "completed" => GateHolds(t)]_vars

\* test_reconcile_preserves_attempt_owned_by_live_process, whoever writes meanwhile: a
\* reconciliation that is not forced fails an attempt whose process it had on record when
\* it began only after that process is gone, and while it is still the one on record.
\* An owner that records its process after the pids were read may be failed alive.
LiveOwnerIsPreserved ==
    [][\A a \in AttemptIds :
        /\ attempts[a].status = "running"
        /\ attempts'[a].status = "failed"
        /\ attempts'[a].summary = "stale"
        => \E c \in Clients :
            /\ AtRow(c, a) /\ ~call[c].force
            /\ a \in call[c].pids => attempts[a].pid = "set" /\ a \notin live]_vars

-----------------------------------------------------------------------------
(* What the ledger shows of the gate: the newest implementation attempt of *)
(* a work item, and the newest review of that attempt.                     *)

FateOf(t) ==
    CASE status[t] = "absent" -> "none"
      [] status[t] \in {"completed", "cancelled"} -> status[t]
      [] OTHER -> "open"

AttemptStanding(a) ==
    CASE attempts[a].status = "running" -> "working"
      [] attempts[a].status \in {"failed", "cancelled"} -> "failed"
      [] attempts[a].status = "succeeded" /\ ReviewsOf(a) = {} -> "succeeded"
      [] attempts[a].status = "succeeded" /\ \E r \in ReviewIds : IsLatestReview(r, a) /\ Approves(r) -> "approved"
      [] OTHER -> "rejected"

StandingOf(t, i) ==
    LET newest == {a \in LatestAttempts(t) : attempts[a].item = i}
    IN  IF newest = {} THEN "none"
        ELSE AttemptStanding(CHOOSE a \in newest : TRUE)

Gate == INSTANCE ReviewGate WITH
    fate <- [t \in Tasks |-> FateOf(t)],
    standing <- [t \in Tasks |-> [i \in WorkItems |-> StandingOf(t, i)]]

\* A client that has the ledger to itself sees the review gate of ReviewGate.
ImplementsReviewGate == Gate!Spec
=============================================================================
