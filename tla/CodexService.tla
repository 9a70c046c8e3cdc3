---------------------------- MODULE CodexService ----------------------------
(***************************************************************************)
(* The local HTTP service (src/agent_os/http_service.py) and the direct    *)
(* Codex run its workers execute (run_task in src/agent_os/runner.py), on  *)
(* top of the task ledger.                                                 *)
(*                                                                         *)
(* Requests to submit and to cancel hold one lock, so there is at most one *)
(* of them at a time.  A worker thread of the pool runs one task, in its   *)
(* own steps, and owns a process group that steps by itself.  Both call    *)
(* the ledger, and operators may reconcile it from other processes.  The   *)
(* service may be closed, killed and started again; only the ledger and    *)
(* the process groups outlive it.                                          *)
(***************************************************************************)
EXTENDS Naturals, Sequences, FiniteSets

CONSTANTS
    Tasks,        \* work ids
    Service,      \* the service as a client of the ledger
    Operators,    \* processes that run "agent-os task reconcile"
    PoolSize,     \* threads of the ThreadPoolExecutor
    MaxAttempts   \* bound on the rows of attempts

ASSUME PoolAssumption == PoolSize \in Nat \ {0} /\ MaxAttempts \in Nat

VARIABLES
    status, attempts, reviews, audit, live, clock, call,  \* of TaskLedger
    phase,      \* of the service: "up", "closing" or "down"
    request,    \* the submit or cancel request that holds the lock
    pc,         \* pc[t]: where the worker of t is; see Step below
    mine,       \* mine[t]: the attempt the worker of t started
    ending,     \* ending[t]: how that attempt ended, as its evidence will say
    cancelSet,  \* cancelSet[t]: the cancel_event of the handle of t
    accepted,   \* accepted[t]: whether, and how early, a cancel of t returned 202
    group       \* group[a]: what is left of the process group of attempt a

Ledger == INSTANCE TaskLedger WITH
    Clients <- {Service} \cup Operators,
    WorkItems <- {"primary"}, Providers <- {"openai"}, MaxReviews <- 0

ledger == <<status, attempts, reviews, audit, clock, call>>
worker == <<pc, mine, ending, group>>
control == <<phase, request, cancelSet, accepted>>
vars == <<ledger, live, worker, control>>

\* "idle": no handle, or its future is done; "lost": the service died in a run.
Step == {"idle", "lost", "pending", "plan", "start", "prepare", "launch",
         "record", "prompt", "wait", "teardown", "late", "close", "cancel",
         "cancelTask", "fail", "failTask", "rescue", "rescueAttempt", "rescueTask"}
Ending == {"none", "ok", "error", "cancel", "survived", "unverified", "reader"}
GroupState == {"none", "led", "orphaned", "gone"}

NoRequest == [op |-> "none"]
Request ==
    {NoRequest}
    \cup [op : {"submit"}, task : Tasks, step : {"attempts", "schedule"},
          seen : Ledger!TaskStatus]
    \cup [op : {"cancel"}, task : Tasks, step : {"event", "queued", "running"}]

-----------------------------------------------------------------------------
At(t, step) == pc[t] = step
Goto(t, step) == pc' = [pc EXCEPT ![t] = step]
EndAs(t, how) == ending' = [ending EXCEPT ![t] = how]

\* A handle whose future is not done.
Owned(t) == pc[t] \notin {"idle", "lost"}

\* Threads of the pool at work.
Active == {t \in Tasks : Owned(t) /\ ~At(t, "pending")}

Observable(a) == group[a] \in {"led", "orphaned"}

AttemptsOf(t) == {a \in DOMAIN attempts : attempts[a].task = t}

-----------------------------------------------------------------------------
(* Requests.  A request that changes nothing and answers at once is left    *)
(* out.                                                                     *)

Asks(op, step) == request.op = op /\ request.step = step

SubmitTask(t) ==
    /\ phase = "up"
    /\ request = NoRequest
    /\ \/ Ledger!CreateTask(Service, t)
       \/ status[t] # "absent" /\ UNCHANGED <<ledger, live>>
    /\ request' = [op |-> "submit", task |-> t, step |-> "attempts",
                   seen |-> status'[t]]
    /\ UNCHANGED <<worker, phase, cancelSet, accepted>>

SubmitAttempts ==
    /\ Asks("submit", "attempts")
    /\ request' = IF request.seen = "queued" /\ AttemptsOf(request.task) = {}
                  THEN [request EXCEPT !.step = "schedule"]
                  ELSE NoRequest
    /\ UNCHANGED <<ledger, live, worker, phase, cancelSet, accepted>>

\* The handle is tested last, after what was read of the ledger.
SubmitSchedule ==
    LET t == request.task
    IN  /\ Asks("submit", "schedule")
        /\ request' = NoRequest
        /\ IF Owned(t)
           THEN UNCHANGED <<pc, cancelSet, accepted>>
           ELSE /\ Goto(t, "pending")
                /\ cancelSet' = [cancelSet EXCEPT ![t] = FALSE]
                /\ accepted' = [accepted EXCEPT ![t] = "no"]
        /\ UNCHANGED <<ledger, live, mine, ending, group, phase>>

CancelRead(t) ==
    /\ phase = "up"
    /\ request = NoRequest
    /\ status[t] \in {"queued", "running"}
    /\ request' = [op |-> "cancel", task |-> t,
                   step |-> IF status[t] = "queued" THEN "event" ELSE "running"]
    /\ UNCHANGED <<ledger, live, worker, phase, cancelSet, accepted>>

SignalCancel(t) == cancelSet' = [cancelSet EXCEPT ![t] = @ \/ Owned(t)]

\* request_cancel returned True.  The cancel is early if the worker of t has a
\* check of its cancel_event before it.
AcceptCancel(t) ==
    accepted' = [accepted EXCEPT ![t] =
        IF @ = "early" \/ pc[t] \in {"pending", "plan", "start", "prepare", "launch",
                                     "record", "prompt", "wait", "late"}
        THEN "early" ELSE "late"]

CancelQueuedEvent ==
    /\ Asks("cancel", "event")
    /\ SignalCancel(request.task)
    /\ request' = [request EXCEPT !.step = "queued"]
    /\ UNCHANGED <<ledger, live, worker, phase, accepted>>

\* cancel_task for work last seen queued; the worker may have moved it since.
CancelQueued ==
    LET t == request.task
    IN  /\ Asks("cancel", "queued")
        /\ \/ /\ Ledger!CancelTask(Service, t)
              /\ UNCHANGED accepted
           \/ /\ ~Ledger!MayCancel(t)
              /\ IF status[t] = "running" /\ Owned(t)
                 THEN AcceptCancel(t) ELSE UNCHANGED accepted
              /\ UNCHANGED <<ledger, live>>
        /\ request' = NoRequest
        /\ UNCHANGED <<worker, phase, cancelSet>>

CancelRunning ==
    LET t == request.task
    IN  /\ Asks("cancel", "running")
        /\ SignalCancel(t)
        /\ IF Owned(t) THEN AcceptCancel(t) ELSE UNCHANGED accepted
        /\ request' = NoRequest
        /\ UNCHANGED <<ledger, live, worker, phase>>

-----------------------------------------------------------------------------
(* The worker, up to the launch: run_task before its try statement.  A step *)
(* that raises goes to "rescue", the except clause of _execute.             *)

BeginRun(t) ==
    /\ At(t, "pending")
    /\ Cardinality(Active) < PoolSize
    /\ Goto(t, "plan")
    /\ UNCHANGED <<ledger, live, mine, ending, group, control>>

PlanFails(t) ==
    /\ At(t, "plan")
    /\ Goto(t, "rescue")
    /\ UNCHANGED <<ledger, live, mine, ending, group, control>>

CancelBeforeStart(t) ==
    /\ At(t, "plan")
    /\ cancelSet[t]
    /\ \/ Ledger!CancelTask(Service, t) /\ Goto(t, "idle")
       \/ ~Ledger!MayCancel(t) /\ Goto(t, "rescue") /\ UNCHANGED <<ledger, live>>
    /\ UNCHANGED <<mine, ending, group, control>>

MoveToRunning(t) ==
    /\ At(t, "plan")
    /\ ~cancelSet[t]
    /\ IF status[t] \in {"queued", "blocked", "needs_review", "failed"}
       THEN Ledger!TransitionTask(Service, t, "running")
       ELSE UNCHANGED <<ledger, live>>
    /\ Goto(t, "start")
    /\ UNCHANGED <<mine, ending, group, control>>

MayStart(t) ==
    /\ status[t] = "running"
    /\ Ledger!WorkItemFree(t, "implementation", "primary")

StartRun(t) ==
    /\ At(t, "start")
    /\ \/ /\ Ledger!StartAttempt(Service, t, "implementation", "primary", "openai")
          /\ mine' = [mine EXCEPT ![t] = Len(attempts')]
          /\ EndAs(t, "none")
          /\ Goto(t, "prepare")
       \/ /\ ~MayStart(t)
          /\ Goto(t, "rescue")
          /\ UNCHANGED <<ledger, live, mine, ending>>
    /\ UNCHANGED <<group, control>>

PrepareFailsUncaught(t) ==
    /\ At(t, "prepare")
    /\ Goto(t, "idle")
    /\ UNCHANGED <<ledger, live, mine, ending, group, control>>

\* The directories, the Codex home and the environment of the run.
PrepareFails(t) ==
    /\ At(t, "prepare")
    /\ Goto(t, "rescue")
    /\ UNCHANGED <<ledger, live, mine, ending, group, control>>

-----------------------------------------------------------------------------
(* The try statement: the process group, from launch to teardown.           *)

CheckBeforeLaunch(t) ==
    /\ At(t, "prepare")
    /\ Goto(t, IF cancelSet[t] THEN "cancel" ELSE "launch")
    /\ UNCHANGED <<ledger, live, mine, ending, group, control>>

Launch(t) ==
    /\ At(t, "launch")
    /\ \/ /\ group' = [group EXCEPT ![mine[t]] = "led"]
          /\ Goto(t, "record")
          /\ UNCHANGED ending
       \/ EndAs(t, "error") /\ Goto(t, "fail") /\ UNCHANGED group
    /\ UNCHANGED <<ledger, live, mine, control>>

\* set_attempt_process; it raises if the attempt was failed in the meantime.
RecordProcess(t) ==
    /\ At(t, "record")
    /\ \/ /\ Ledger!SetAttemptProcess(Service, mine[t])
          /\ Goto(t, "prompt")
          /\ UNCHANGED ending
       \/ /\ attempts[mine[t]].status # "running"
          /\ EndAs(t, "error")
          /\ Goto(t, "teardown")
          /\ UNCHANGED <<ledger, live>>
    /\ UNCHANGED <<mine, group, control>>

\* stdin.write: it returns when the processes of the group have taken the prompt, and
\* raises where they have closed their end of the pipe.
WritePrompt(t) ==
    /\ At(t, "prompt")
    /\ \/ Goto(t, "wait") /\ UNCHANGED ending
       \/ EndAs(t, "error") /\ Goto(t, "teardown")
    /\ UNCHANGED <<ledger, live, mine, group, control>>

\* The leader exits and is reaped, by its worker or, the service dead, by init.
LeaderExits(t, a) ==
    /\ attempts[a].task = t
    /\ group[a] = "led"
    /\ ~(pc[t] \in {"record", "prompt"} /\ a = mine[t])
    /\ \E left \in {"orphaned", "gone"} : group' = [group EXCEPT ![a] = left]
    /\ live' = live \ {a}
    /\ UNCHANGED <<ledger, pc, mine, ending, control>>

OrphansExit(a) ==
    /\ group[a] = "orphaned"
    /\ group' = [group EXCEPT ![a] = "gone"]
    /\ UNCHANGED <<ledger, live, pc, mine, ending, control>>

\* The loop of _wait_for_process finds its cancel_event set.
WaitIsCancelled(t) ==
    /\ At(t, "wait")
    /\ cancelSet[t]
    /\ EndAs(t, "cancel")
    /\ Goto(t, "teardown")
    /\ UNCHANGED <<ledger, live, mine, group, control>>

\* The deadline passes.
WaitFails(t) ==
    /\ At(t, "wait")
    /\ EndAs(t, "error")
    /\ Goto(t, "teardown")
    /\ UNCHANGED <<ledger, live, mine, group, control>>

\* The leader is reaped.  With the group absent the run ends with its exit code,
\* or raises because its reader did; a group that survives is torn down.
WaitReturns(t) ==
    /\ At(t, "wait")
    /\ group[mine[t]] # "led"
    /\ IF group[mine[t]] = "gone"
       THEN \/ Goto(t, "late") /\ \E how \in {"ok", "error"} : EndAs(t, how)
            \/ Goto(t, "fail") /\ EndAs(t, "error")
       ELSE Goto(t, "teardown") /\ EndAs(t, "survived")
    /\ UNCHANGED <<ledger, live, mine, group, control>>

\* Where a run goes whose group is proven absent.  A run being cancelled whose
\* reader is stuck or raised records a failure instead.
AfterTeardown(t) ==
    IF ending[t] = "cancel" \/ (ending[t] = "survived" /\ cancelSet[t])
    THEN \/ Goto(t, "cancel") /\ UNCHANGED ending
         \/ Goto(t, "fail") /\ \E how \in {"reader", "error"} : EndAs(t, how)
    ELSE /\ Goto(t, "fail")
         /\ UNCHANGED ending \/ EndAs(t, "error")

TeardownOnTrust(t) ==
    /\ At(t, "teardown")
    /\ group' \in {group, [group EXCEPT ![mine[t]] = "gone"]}
    /\ live' = IF group' = group THEN live ELSE live \ {mine[t]}
    /\ AfterTeardown(t)
    /\ UNCHANGED <<ledger, mine, control>>

\* _terminate_process: SIGTERM, SIGKILL, and the group is absent or it raises.
Teardown(t) ==
    /\ At(t, "teardown")
    /\ \/ /\ group' = [group EXCEPT ![mine[t]] = "gone"]
          /\ live' = live \ {mine[t]}
          /\ AfterTeardown(t)
       \/ /\ EndAs(t, "unverified")
          /\ Goto(t, "fail")
          /\ UNCHANGED <<group, live>>
    /\ UNCHANGED <<ledger, mine, control>>

-----------------------------------------------------------------------------
(* The outcome is written to the ledger: first the attempt, then the task.  *)
(* finish_attempt raises if someone else ended the attempt meanwhile.       *)

EndAttempt(t, result, next) ==
    LET evidence == IF result = "succeeded" THEN "some" ELSE "none"
    IN  \/ Ledger!FinishAttempt(Service, mine[t], result, evidence) /\ Goto(t, next)
        \/ /\ attempts[mine[t]].status # "running"
           /\ Goto(t, "rescue")
           /\ UNCHANGED <<ledger, live>>

\* The move run_task makes if the task is still running, and transition allows.
LeaveRunning(t, target) ==
    IF status[t] = "running" /\ Ledger!MayTransition(t, target)
    THEN Ledger!TransitionTask(Service, t, target)
    ELSE UNCHANGED <<ledger, live>>

FinishRunWithoutLook(t) ==
    /\ At(t, "late")
    /\ EndAttempt(t, IF ending[t] = "ok" THEN "succeeded" ELSE "failed", "close")
    /\ UNCHANGED <<mine, ending, group, control>>

\* The last looks at cancel_event, then the outcome of a run that returned.
FinishRun(t) ==
    /\ At(t, "late")
    /\ IF cancelSet[t]
       THEN Goto(t, "cancel") /\ UNCHANGED <<ledger, live>>
       ELSE EndAttempt(t, IF ending[t] = "ok" THEN "succeeded" ELSE "failed", "close")
    /\ UNCHANGED <<mine, ending, group, control>>

CloseRun(t) ==
    /\ At(t, "close")
    /\ LeaveRunning(t, IF ending[t] = "ok" THEN "needs_review" ELSE "failed")
    /\ Goto(t, "idle")
    /\ UNCHANGED <<mine, ending, group, control>>

\* _finish_cancelled_run.
CancelOwnAttempt(t) ==
    /\ At(t, "cancel")
    /\ EndAttempt(t, "cancelled", "cancelTask")
    /\ UNCHANGED <<mine, ending, group, control>>

CancelOwnTask(t) ==
    /\ At(t, "cancelTask")
    /\ \/ /\ status[t] = "running"
          /\ Ledger!CancelTask(Service, t)
          /\ Goto(t, "idle")
       \/ status[t] = "cancelled" /\ Goto(t, "idle") /\ UNCHANGED <<ledger, live>>
       \/ /\ status[t] # "cancelled"
          /\ ~(status[t] = "running" /\ Ledger!MayCancel(t))
          /\ Goto(t, "rescue")
          /\ UNCHANGED <<ledger, live>>
    /\ UNCHANGED <<mine, ending, group, control>>

\* The except clause of run_task.
FailAttempt(t) ==
    /\ At(t, "fail")
    /\ EndAttempt(t, "failed", "failTask")
    /\ UNCHANGED <<mine, ending, group, control>>

\* The cancellation exception a stuck reader is raised with is not an Exception
\* and passes through _execute.
FailTask(t) ==
    /\ At(t, "failTask")
    /\ LeaveRunning(t, IF ending[t] \in {"survived", "unverified"}
                       THEN "blocked" ELSE "failed")
    /\ Goto(t, IF ending[t] = "reader" THEN "idle" ELSE "rescue")
    /\ UNCHANGED <<mine, ending, group, control>>

\* The except clause of _execute: list the running attempts, fail them, then
\* fail a task left queued or running.
Rescue(t) ==
    /\ At(t, "rescue")
    /\ Goto(t, IF Ledger!RunningAttempts(t) = {} THEN "rescueTask"
                                                 ELSE "rescueAttempt")
    /\ UNCHANGED <<ledger, live, mine, ending, group, control>>

RescueAttempt(t) ==
    /\ At(t, "rescueAttempt")
    /\ \/ /\ \E a \in Ledger!RunningAttempts(t) :
                Ledger!FinishAttempt(Service, a, "failed", "none")
          /\ Goto(t, "rescueTask")
       \/ /\ Ledger!RunningAttempts(t) = {}
          /\ Goto(t, "idle")
          /\ UNCHANGED <<ledger, live>>
    /\ UNCHANGED <<mine, ending, group, control>>

RescueTaskIfRunning(t) ==
    /\ At(t, "rescueTask")
    /\ IF status[t] = "running" /\ Ledger!MayTransition(t, "failed")
       THEN Ledger!TransitionTask(Service, t, "failed")
       ELSE UNCHANGED <<ledger, live>>
    /\ Goto(t, "idle")
    /\ UNCHANGED <<mine, ending, group, control>>

RescueTask(t) ==
    /\ At(t, "rescueTask")
    /\ IF status[t] \in {"queued", "running"} /\ Ledger!MayTransition(t, "failed")
       THEN Ledger!TransitionTask(Service, t, "failed")
       ELSE UNCHANGED <<ledger, live>>
    /\ Goto(t, "idle")
    /\ UNCHANGED <<mine, ending, group, control>>

-----------------------------------------------------------------------------
(* The life of the service.                                                 *)

\* close(): every handle is signalled ...
CloseSignals ==
    /\ phase = "up"
    /\ request = NoRequest
    /\ phase' = "closing"
    /\ cancelSet' = [t \in Tasks |-> cancelSet[t] \/ Owned(t)]
    /\ UNCHANGED <<ledger, live, worker, request, accepted>>

\* ... shutdown(cancel_futures=True) drops what has not begun, and waits.
DropPending(t) ==
    /\ phase = "closing"
    /\ At(t, "pending")
    /\ Goto(t, "idle")
    /\ UNCHANGED <<ledger, live, mine, ending, group, control>>

Exit ==
    /\ phase = "closing"
    /\ \A t \in Tasks : ~Owned(t)
    /\ phase' = "down"
    /\ UNCHANGED <<ledger, live, worker, request, cancelSet, accepted>>

\* Killed: threads, handles and the lock are gone, process groups are not.
Crash ==
    /\ phase # "down"
    /\ phase' = "down"
    /\ request' = NoRequest
    /\ pc' = [t \in Tasks |-> IF t \in Active \/ At(t, "lost")
                            THEN "lost" ELSE "idle"]
    /\ cancelSet' = [t \in Tasks |-> FALSE]
    /\ accepted' = [t \in Tasks |-> "no"]
    /\ UNCHANGED <<ledger, live, mine, ending, group>>

Restart ==
    /\ phase = "down"
    /\ phase' = "up"
    /\ cancelSet' = [t \in Tasks |-> FALSE]
    /\ accepted' = [t \in Tasks |-> "no"]
    /\ UNCHANGED <<ledger, live, worker, request>>

-----------------------------------------------------------------------------
Init ==
    /\ Ledger!Init
    /\ phase = "up"
    /\ request = NoRequest
    /\ pc = [t \in Tasks |-> "idle"]
    /\ mine = [t \in Tasks |-> 0]
    /\ ending = [t \in Tasks |-> "none"]
    /\ cancelSet = [t \in Tasks |-> FALSE]
    /\ accepted = [t \in Tasks |-> "no"]
    /\ group = [a \in 1..MaxAttempts |-> "none"]

RequestStep ==
    \/ \E t \in Tasks : SubmitTask(t) \/ CancelRead(t)
    \/ SubmitAttempts \/ SubmitSchedule
    \/ CancelQueuedEvent \/ CancelQueued \/ CancelRunning

WorkerStep(t) ==
    \/ BeginRun(t) \/ PlanFails(t) \/ CancelBeforeStart(t) \/ MoveToRunning(t)
    \/ StartRun(t) \/ PrepareFails(t) \/ CheckBeforeLaunch(t) \/ Launch(t)
    \/ RecordProcess(t) \/ WritePrompt(t)
    \/ WaitIsCancelled(t) \/ WaitFails(t) \/ WaitReturns(t)
    \/ Teardown(t) \/ FinishRun(t) \/ CloseRun(t)
    \/ CancelOwnAttempt(t) \/ CancelOwnTask(t) \/ FailAttempt(t) \/ FailTask(t)
    \/ Rescue(t) \/ RescueAttempt(t) \/ RescueTask(t)

GroupStep ==
    \E a \in DOMAIN attempts :
        OrphansExit(a) \/ \E t \in Tasks : LeaderExits(t, a)

LifeStep ==
    \/ CloseSignals \/ Exit \/ Crash \/ Restart
    \/ \E t \in Tasks : DropPending(t)

OperatorStep ==
    /\ \E o \in Operators : Ledger!ReconcileStep(o) \/ Ledger!Abandon(o)
    /\ UNCHANGED <<worker, control>>

Next ==
    \/ RequestStep
    \/ \E t \in Tasks : WorkerStep(t)
    \/ GroupStep
    \/ LifeStep
    \/ OperatorStep

Spec == Init /\ [][Next]_vars

\* A thread of the pool that can step is scheduled, and its waits have deadlines, but
\* for the write of the prompt: Codex may never read it.  Nothing is assumed of
\* requests, process groups, operators or crashes.
FairSpec == Spec /\ \A t \in Tasks : WF_vars(~At(t, "prompt") /\ WorkerStep(t))

-----------------------------------------------------------------------------
(* Properties.                                                             *)

\* Every variable holds a value of its type; a worker past its start has an
\* attempt of its own task.
TypeOK ==
    /\ Ledger!TypeOK
    /\ phase \in {"up", "closing", "down"}
    /\ request \in Request
    /\ pc \in [Tasks -> Step]
    /\ mine \in [Tasks -> 0..MaxAttempts]
    /\ ending \in [Tasks -> Ending]
    /\ cancelSet \in [Tasks -> BOOLEAN]
    /\ accepted \in [Tasks -> {"no", "early", "late"}]
    /\ group \in [1..MaxAttempts -> GroupState]
    /\ \A t \in Tasks : mine[t] # 0 => mine[t] \in AttemptsOf(t)

\* The newest attempt of t.
IsNewest(a, t) == a \in AttemptsOf(t) /\ \A b \in AttemptsOf(t) : b <= a

\* http-service.md, "Cancel work": only a process group that reaches a terminal
\* state becomes cancelled.  Nothing of the last run of a cancelled task is left.
CancelledMeansGone ==
    \A t \in Tasks, a \in DOMAIN attempts :
        status[t] = "cancelled" /\ IsNewest(a, t) => ~Observable(a)

\* The worker keeps that promise: of an attempt it records as cancelled, on
\* whichever of its paths, nothing is left.
CancelledAttemptIsGone ==
    \A a \in DOMAIN attempts : attempts[a].status = "cancelled" => ~Observable(a)

\* A worker that is done has handed its work over: nothing of the task is shown
\* as running, and a process group that may be left is one the evidence of the
\* attempt tells the operator of.  Every exception of run_task, in any step,
\* must come out of _execute like that.
DoneMeansHandedOver ==
    \A t \in Tasks : At(t, "idle") =>
        /\ status[t] # "running"
        /\ Ledger!RunningAttempts(t) = {}
        /\ \A a \in DOMAIN attempts :
            IsNewest(a, t) /\ Observable(a) => ending[t] = "unverified"

\* Work is offered for review only after its last attempt succeeded, although a
\* reconciliation may fail the attempt, or the task, at any step of the worker.
ReviewableMeansSucceeded ==
    \A t \in Tasks, a \in DOMAIN attempts :
        status[t] = "needs_review" /\ IsNewest(a, t) =>
            attempts[a].status = "succeeded"

\* What a run ends as is earned by its last attempt, whoever reconciles or cancels
\* in between: cancelled by a process group that is gone, reviewable by a success.
OutcomeIsEarned == CancelledAttemptIsGone /\ ReviewableMeansSucceeded

\* An operator's reconciliation has ended the last run of t, and settles t or
\* leaves it to the next operator.
TakenOver(t) ==
    \E a \in DOMAIN attempts : IsNewest(a, t) /\ attempts[a].summary \in {"stale", "forced"}

\* The worker of t waits for ever for its process group to take the prompt, and so
\* does whatever waits for its thread.
Stuck(t) == []At(t, "prompt")

\* A worker that has begun settles the task, unless the service stops first, or an
\* operator takes its attempt over, whatever the two do to each other, or a prompt is
\* never taken: nothing else of a worker waits without a deadline.
Settled(t) == status[t] \notin {"queued", "running"}
WorkSettles ==
    \A t \in Tasks : Owned(t) ~>
        \/ ~Owned(t) /\ (Settled(t) \/ TakenOver(t))
        \/ phase # "up"
        \/ \E u \in Tasks : Stuck(u)

\* A cancel that is accepted while the run can still see it is honoured: the
\* task ends cancelled, or failed or blocked where the teardown or the run did.  It is
\* not seen while the prompt is being written.
EarlyCancelIsHonoured ==
    \A t \in Tasks : accepted[t] = "early" ~>
        \/ status[t] \in {"cancelled", "failed", "blocked"}
        \/ TakenOver(t)
        \/ phase # "up"
        \/ \E u \in Tasks : Stuck(u)
=============================================================================
