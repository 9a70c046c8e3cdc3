----------------------------- MODULE CommandRuns -----------------------------
(***************************************************************************)
(* The commands "agent-os run" and "agent-os review" (run_task in          *)
(* src/agent_os/runner.py, src/agent_os/cli.py) on one task, and the tools *)
(* and the dispatch policy of an Omnigent coordinator                      *)
(* (src/agent_os/tools.py, src/agent_os/policies.py).                      *)
(*                                                                         *)
(* Each run is a process of its own and takes its steps once.  One with    *)
(* runtime "omnigent" launches a coordinator, which calls the tools in any *)
(* order until it exits; "builder" stands for the runtimes that build by   *)
(* themselves, "codex-review" for the fallback reviewer, "owner-review"    *)
(* for the review command.  The direct Codex run is in CodexService.       *)
(***************************************************************************)
EXTENDS Naturals, Sequences, FiniteSets

CONSTANTS
    Task,         \* the task id
    Runs,         \* the commands started for it
    RuntimeOf,    \* the runtime of each
    Interrupted,  \* the runs that receive a SIGTERM, once
    Items,        \* work items the coordinator divides the task into
    Builders,     \* providers of its child builders
    Reviewers,    \* providers of its child reviewers
    MaxAttempts,  \* bound on the rows of attempts
    MaxReviews    \* bound on the reviews built

Runtimes == {"omnigent", "builder", "codex-review", "owner-review"}

\* Runs of one coordinating runtime give the attempts they fail one summary, and
\* finish_attempt takes the second for a replay: there is one of each.
ASSUME RunsAssumption ==
    /\ MaxAttempts \in Nat /\ MaxReviews \in Nat
    /\ RuntimeOf \in [Runs -> Runtimes]
    /\ Interrupted \subseteq Runs
    /\ \A r, s \in Runs :
        RuntimeOf[r] = RuntimeOf[s] /\ RuntimeOf[r] # "builder" => r = s

VARIABLES
    status, attempts, reviews, audit, live, clock, call,  \* of TaskLedger
    pc,          \* pc[r]: where run r is in its command
    mine,        \* mine[r]: the attempt it started, 0 before
    ending,      \* ending[r]: how its process ended
    todo,        \* todo[r]: attempts it has still to fail, or to review
    targets,     \* targets[r]: the attempts its review is about
    verdict,     \* verdict[r]: the verdict of that review
    process,     \* process[r]: what is left of the process it launched
    tool,        \* tool[r]: where the tool its coordinator called is
    strays,      \* the runs a tool of which wrote after they had listed its children
    sent,        \* one of the reviews the policy let a child be sent for
    terminated   \* the runs that received a SIGTERM

Host(r) == <<r, "run">>
Tool(r) == <<r, "tool">>

Ledger == INSTANCE TaskLedger WITH
    Tasks <- {Task}, Clients <- Runs \X {"run", "tool"},
    WorkItems <- Items \cup {"primary", "coordinator", "review"},
    Providers <- Builders \cup Reviewers \cup {"anthropic", "openai", "operator"}

ledger == <<status, attempts, reviews, audit, clock, call>>
plan == <<todo, targets, verdict>>
run == <<mine, ending, process, terminated>>
agent == <<tool, sent, strays>>
vars == <<ledger, live, pc, plan, run, agent>>

Step == {"idle", "pending", "read", "move", "start", "prepare", "launch",
         "record", "wait", "list", "children", "own", "look", "settle",
         "review", "decide", "done"}
Ending == {"none", "ok", "error", "blocked"}

-----------------------------------------------------------------------------
(* The identity a run acts under.                                          *)

IsCoordinatorNever(r) == FALSE
IsCoordinator(r) == RuntimeOf[r] \in {"omnigent", "codex-review"}
ItemOf(r) ==
    CASE RuntimeOf[r] = "omnigent" -> "coordinator"
      [] RuntimeOf[r] = "codex-review" -> "review"
      [] OTHER -> "primary"
ProviderOf(r) ==
    CASE RuntimeOf[r] = "codex-review" -> "openai"
      [] RuntimeOf[r] = "owner-review" -> "operator"
      [] OTHER -> "anthropic"

-----------------------------------------------------------------------------
At(r, step) == pc[r] = step
Goto(r, step) == pc' = [pc EXCEPT ![r] = step]

\* The first attempt of a list in the order they started.
First(s) == CHOOSE a \in s : \A b \in s : a <= b

\* transition(target), which is a replay where the task is there already.
MoveTo(c, target) ==
    \/ Ledger!TransitionTask(c, Task, target)
    \/ status[Task] = target /\ UNCHANGED <<ledger, live>>

Movable(target) == status[Task] = target \/ Ledger!MayTransition(Task, target)

\* "agent-os task create", before any of the runs.
Create(r) ==
    /\ At(r, "idle")
    /\ Ledger!CreateTask(Host(r), Task)
    /\ UNCHANGED <<pc, plan, run, agent>>

-----------------------------------------------------------------------------
(* Plans.  That of a builder or a coordinator reads nothing it acts on.     *)

Plan(r) ==
    /\ At(r, "idle")
    /\ status[Task] # "absent"
    /\ RuntimeOf[r] \in {"omnigent", "builder"}
    /\ Goto(r, "read")
    /\ UNCHANGED <<ledger, live, plan, run, agent>>

\* _review_targets: the newest attempt of every work item, all successful and
\* by another provider ...
PlanReview(r) ==
    LET latest == Ledger!LatestAttempts(Task)
    IN  /\ At(r, "idle")
        /\ RuntimeOf[r] = "codex-review"
        /\ latest # {}
        /\ \A a \in latest : /\ attempts[a].status = "succeeded"
                             /\ attempts[a].provider # ProviderOf(r)
        /\ targets' = [targets EXCEPT ![r] = latest]
        /\ Goto(r, "pending")
        /\ UNCHANGED <<ledger, live, todo, verdict, run, agent>>

\* ... and, by a query of its own, not reviewed yet.
PlanPending(r) ==
    LET unreviewed == {a \in targets[r] : Ledger!ReviewsOf(a) = {}}
    IN  /\ At(r, "pending")
        /\ unreviewed # {}
        /\ targets' = [targets EXCEPT ![r] = unreviewed]
        /\ Goto(r, "read")
        /\ UNCHANGED <<ledger, live, todo, verdict, run, agent>>

\* "agent-os review" names the attempt and the verdict.
PlanOwner(r, a, v) ==
    /\ At(r, "idle")
    /\ RuntimeOf[r] = "owner-review"
    /\ targets' = [targets EXCEPT ![r] = {a}]
    /\ todo' = [todo EXCEPT ![r] = {a}]
    /\ verdict' = [verdict EXCEPT ![r] = v]
    /\ Goto(r, "review")
    /\ UNCHANGED <<ledger, live, run, agent>>

-----------------------------------------------------------------------------
(* run_task until its process has ended.                                    *)

Read(r) ==
    /\ At(r, "read")
    /\ Goto(r, IF status[Task] \in {"queued", "blocked", "needs_review", "failed"}
               THEN "move" ELSE "start")
    /\ UNCHANGED <<ledger, live, plan, run, agent>>

Move(r) ==
    /\ At(r, "move")
    /\ MoveTo(Host(r), "running")
    /\ Goto(r, "start")
    /\ UNCHANGED <<plan, run, agent>>

Start(r) ==
    /\ At(r, "start")
    /\ Ledger!StartAttempt(Host(r), Task,
            IF IsCoordinator(r) THEN "coordinator" ELSE "implementation",
            ItemOf(r), ProviderOf(r))
    /\ mine' = [mine EXCEPT ![r] = Len(attempts')]
    /\ Goto(r, "prepare")
    /\ UNCHANGED <<plan, ending, process, terminated, agent>>

\* Directories, configuration and environment, before the try statement.
Prepare(r) ==
    /\ At(r, "prepare")
    /\ Goto(r, "launch")
    /\ UNCHANGED <<ledger, live, plan, run, agent>>

Launch(r) ==
    /\ At(r, "launch")
    /\ process' = [process EXCEPT ![r] = "live"]
    /\ Goto(r, "record")
    /\ UNCHANGED <<ledger, live, plan, mine, ending, terminated, agent>>

Record(r) ==
    /\ At(r, "record")
    /\ Ledger!SetAttemptProcess(Host(r), mine[r])
    /\ Goto(r, "wait")
    /\ UNCHANGED <<plan, run, agent>>

Living == {"live", "orphaned"}

\* The try statement is left.  The leader of what is "orphaned" has exited, and its
\* descendants have not.
Leave(r, how, left) ==
    /\ ending' = [ending EXCEPT ![r] = how]
    /\ process' = [process EXCEPT ![r] = left]
    /\ live' = IF left = "live" THEN live ELSE live \ {mine[r]}
    /\ Goto(r, IF IsCoordinator(r) THEN "list" ELSE "own")
    /\ UNCHANGED <<ledger, plan, mine, agent>>

\* The leader exits, with the code zero or another.  A review alone looks at the group
\* that its leader leaves; a coordinator or a builder may leave descendants behind.
Exit(r) ==
    /\ At(r, "wait")
    /\ \E how \in {"ok", "error"} :
        \/ Leave(r, how, "gone")
        \/ RuntimeOf[r] # "codex-review" /\ Leave(r, how, "orphaned")

\* An exception, or a review that outlives its leader: the group is torn down, or it
\* is "blocked", and what is left of it is not known.
TearDown(r) ==
    /\ pc[r] \in {"launch", "record", "wait"}
    /\ \/ Leave(r, "error", "gone")
       \/ /\ process[r] = "live"
          /\ \E left \in {"live", "orphaned", "gone"} : Leave(r, "blocked", left)

End(r) ==
    /\ Exit(r) \/ TearDown(r)
    /\ UNCHANGED terminated

-----------------------------------------------------------------------------
(* run_task after its process.                                              *)

\* _fail_running_child_attempts: every running attempt but its own is a child.
List(r) ==
    LET others == Ledger!RunningAttempts(Task) \ {mine[r]}
    IN  /\ At(r, "list")
        /\ todo' = [todo EXCEPT ![r] = others]
        /\ Goto(r, IF others = {} THEN "own" ELSE "children")
        /\ UNCHANGED <<ledger, live, targets, verdict, run, agent>>

FailChild(r) ==
    LET a == First(todo[r])
    IN  /\ At(r, "children")
        /\ Ledger!FinishAttempt(Host(r), a, "failed", "none")
        /\ todo' = [todo EXCEPT ![r] = @ \ {a}]
        /\ ending' = [ending EXCEPT ![r] = IF @ = "ok" THEN "error" ELSE @]
        /\ Goto(r, IF todo[r] = {a} THEN "own" ELSE "children")
        /\ UNCHANGED <<targets, verdict, mine, process, terminated, agent>>

Own(r) ==
    /\ At(r, "own")
    /\ Ledger!FinishAttempt(Host(r), mine[r],
            IF ending[r] = "ok" THEN "succeeded" ELSE "failed", "some")
    /\ Goto(r, "look")
    /\ UNCHANGED <<plan, run, agent>>

\* A review run that succeeded has a verdict to record.
Conclude(r) ==
    IF RuntimeOf[r] = "codex-review" /\ ending[r] = "ok"
    THEN /\ Goto(r, "review")
         /\ todo' = [todo EXCEPT ![r] = targets[r]]
         /\ \E v \in Ledger!Verdict : verdict' = [verdict EXCEPT ![r] = v]
         /\ UNCHANGED targets
    ELSE Goto(r, "done") /\ UNCHANGED plan

Look(r) ==
    /\ At(r, "look")
    /\ IF status[Task] = "running" THEN Goto(r, "settle") /\ UNCHANGED plan
                                   ELSE Conclude(r)
    /\ UNCHANGED <<ledger, live, run, agent>>

Outcome(r) ==
    CASE ending[r] = "ok" -> "needs_review"
      [] ending[r] = "blocked" -> "blocked"
      [] OTHER -> "failed"

Settle(r) ==
    /\ At(r, "settle")
    /\ MoveTo(Host(r), Outcome(r))
    /\ Conclude(r)
    /\ UNCHANGED <<run, agent>>

-----------------------------------------------------------------------------
(* _record_codex_review, and the review command, which does the same.       *)

BuildReview(r, a) ==
    /\ At(r, "review")
    /\ a \in todo[r]
    /\ Ledger!BuildReview(Host(r), Task, a, ProviderOf(r), verdict[r], "some")
    /\ UNCHANGED <<pc, plan, run, agent>>

RecordedFirstOnly(r) == {}

\* The targets still to be reviewed after the one that is being inserted.
Recorded(r) == todo[r] \ {call[Host(r)].review.attempt}

InsertReview(r) ==
    /\ At(r, "review")
    /\ Ledger!InsertReview(Host(r))
    /\ todo' = [todo EXCEPT ![r] = Recorded(r)]
    /\ Goto(r, IF Recorded(r) = {} THEN "decide" ELSE "review")
    /\ UNCHANGED <<targets, verdict, run, agent>>

Approve(r) ==
    /\ At(r, "decide")
    /\ verdict[r] = "approve"
    /\ Ledger!CompleteStep(Host(r))
    /\ Goto(r, IF call'[Host(r)] = Ledger!NoCall THEN "done" ELSE "decide")
    /\ UNCHANGED <<plan, run, agent>>

Reject(r) ==
    /\ At(r, "decide")
    /\ verdict[r] # "approve"
    /\ MoveTo(Host(r), "blocked")
    /\ Goto(r, "done")
    /\ UNCHANGED <<plan, run, agent>>

-----------------------------------------------------------------------------
(* Exceptions outside the try statement end the command.                    *)

Stop(r) ==
    /\ Goto(r, "done")
    /\ \/ Ledger!Abandon(Host(r))
       \/ Ledger!Idle(Host(r)) /\ UNCHANGED <<ledger, live>>
    /\ UNCHANGED <<plan, mine, ending, process, agent>>

\* Once its process has ended, a run stops only where the ledger refuses it.
Refused(r) ==
    \/ At(r, "children") /\ attempts[First(todo[r])].status # "running"
    \/ At(r, "own") /\ attempts[mine[r]].status # "running"
    \/ At(r, "settle") /\ ~Movable(Outcome(r))

Raise(r) ==
    /\ \/ pc[r] \in {"pending", "move", "start", "prepare", "review", "decide"}
       \/ Refused(r)
    /\ Stop(r)
    /\ UNCHANGED terminated

\* RuntimeTerminated is raised wherever the run is.
Terminate(r) ==
    /\ r \in Interrupted \ terminated
    /\ pc[r] \notin {"idle", "done"}
    /\ IF pc[r] \in {"launch", "record", "wait"}
       THEN TearDown(r)
       ELSE Stop(r)
    /\ terminated' = terminated \cup {r}

\* What outlived its command ends, by itself or by its operator.
SurvivorEnds(r) ==
    /\ ending[r] # "none"
    /\ process[r] \in Living
    /\ process' = [process EXCEPT ![r] = "gone"]
    /\ live' = live \ {mine[r]}
    /\ UNCHANGED <<ledger, pc, plan, mine, ending, terminated, agent>>

-----------------------------------------------------------------------------
(* The tools a coordinator calls, one at a time, as long as anything of its *)
(* process lives, also after its leader has exited.  It ends attempts of    *)
(* its children, not those of the commands.                                 *)

Acts(r, step) ==
    /\ RuntimeOf[r] = "omnigent"
    /\ process[r] \in Living
    /\ tool[r] = step
Then(r, step) == tool' = [tool EXCEPT ![r] = step]

\* A call that writes to the task or to its attempts.
Writes(r) ==
    strays' = IF pc[r] \in {"launch", "record", "wait", "list"} THEN strays
                                                             ELSE strays \cup {r}

\* tools.start_attempt: the task is read, moved if it waits, and built on.
ToolRead(r) ==
    /\ Acts(r, "idle")
    /\ Ledger!Idle(Tool(r))
    /\ Then(r, IF status[Task] \in {"queued", "needs_review", "blocked"}
               THEN "move" ELSE "start")
    /\ UNCHANGED <<ledger, live, pc, plan, run, sent, strays>>

ToolMove(r) ==
    /\ Acts(r, "move")
    /\ MoveTo(Tool(r), "running")
    /\ Then(r, "start")
    /\ Writes(r)
    /\ UNCHANGED <<pc, plan, run, sent>>

ToolStart(r, i, p) ==
    /\ Acts(r, "start")
    /\ Ledger!StartAttempt(Tool(r), Task, "implementation", i, p)
    /\ Then(r, "idle")
    /\ Writes(r)
    /\ UNCHANGED <<pc, plan, run, sent>>

ToolFinish(r, a, result) ==
    /\ Acts(r, "idle")
    /\ \A s \in Runs : mine[s] # a
    /\ Ledger!FinishAttempt(Tool(r), a, result, "some")
    /\ Writes(r)
    /\ UNCHANGED <<pc, plan, run, tool, sent>>

ToolReview(r, a, p, v) ==
    /\ Acts(r, "idle")
    /\ Ledger!BuildReview(Tool(r), Task, a, p, v, "some")
    /\ Then(r, "review")
    /\ UNCHANGED <<pc, plan, run, sent, strays>>

ToolInsert(r) ==
    /\ Acts(r, "review")
    /\ Ledger!InsertReview(Tool(r))
    /\ Then(r, IF call[Tool(r)].review.verdict = "approve" THEN "approved" ELSE "idle")
    /\ UNCHANGED <<pc, plan, run, sent, strays>>

ToolApproved(r) ==
    /\ Acts(r, "approved")
    /\ MoveTo(Tool(r), "needs_review")
    /\ Then(r, "idle")
    /\ Writes(r)
    /\ UNCHANGED <<pc, plan, run, sent>>

\* tools.complete_task: the gate of the ledger, or a blocked or failed outcome.
ToolComplete(r) ==
    /\ Acts(r, "idle")
    /\ \/ Ledger!CompleteStep(Tool(r))
       \/ \E target \in {"blocked", "failed"} :
            Ledger!TransitionTask(Tool(r), Task, target)
    /\ Writes(r)
    /\ UNCHANGED <<pc, plan, run, tool, sent>>

\* The call is refused, or ends with the process of its coordinator.
ToolRaises(r) ==
    /\ tool[r] # "idle" \/ ~Ledger!Idle(Tool(r))
    /\ \/ Ledger!Abandon(Tool(r))
       \/ Ledger!Idle(Tool(r)) /\ UNCHANGED <<ledger, live>>
    /\ Then(r, "idle")
    /\ UNCHANGED <<pc, plan, run, sent, strays>>

MayDispatchAnyAttempt(a, p) ==
    /\ attempts[a].kind = "implementation"
    /\ attempts[a].provider # p

\* policies.attempt_before_dispatch: whether a child of provider p may be sent to
\* review attempt a.  Sending one to build leaves nothing to compare with; one
\* review that was let through, whichever, is remembered.
MayDispatch(a, p) ==
    /\ attempts[a].kind = "implementation"
    /\ attempts[a].status = "succeeded"
    /\ attempts[a].provider # p

Dispatch(r, a, p) ==
    /\ Acts(r, "idle")
    /\ MayDispatch(a, p)
    /\ sent = {}
    /\ sent' = {[attempt |-> a, provider |-> p]}
    /\ UNCHANGED <<ledger, live, pc, plan, run, tool, strays>>

-----------------------------------------------------------------------------
Init ==
    /\ Ledger!Init
    /\ pc = [r \in Runs |-> "idle"]
    /\ mine = [r \in Runs |-> 0]
    /\ ending = [r \in Runs |-> "none"]
    /\ todo = [r \in Runs |-> {}]
    /\ targets = [r \in Runs |-> {}]
    /\ verdict = [r \in Runs |-> "none"]
    /\ process = [r \in Runs |-> "none"]
    /\ tool = [r \in Runs |-> "idle"]
    /\ sent = {}
    /\ strays = {}
    /\ terminated = {}

Command(r) ==
    \/ Create(r)
    \/ Plan(r) \/ PlanReview(r) \/ PlanPending(r)
    \/ \E a \in DOMAIN attempts, v \in Ledger!Verdict : PlanOwner(r, a, v)
    \/ Read(r) \/ Move(r) \/ Start(r) \/ Prepare(r) \/ Launch(r) \/ Record(r)
    \/ End(r)
    \/ List(r) \/ FailChild(r) \/ Own(r) \/ Look(r) \/ Settle(r)
    \/ \E a \in DOMAIN attempts : BuildReview(r, a)
    \/ InsertReview(r) \/ Approve(r) \/ Reject(r)
    \/ Raise(r) \/ Terminate(r) \/ SurvivorEnds(r)

Agent(r) ==
    \/ ToolRead(r) \/ ToolMove(r)
    \/ \E i \in Items, p \in Builders : ToolStart(r, i, p)
    \/ \E a \in DOMAIN attempts, result \in Ledger!AttemptStatus :
        ToolFinish(r, a, result)
    \/ \E a \in DOMAIN attempts, p \in Reviewers, v \in Ledger!Verdict :
        ToolReview(r, a, p, v)
    \/ ToolInsert(r) \/ ToolApproved(r) \/ ToolComplete(r) \/ ToolRaises(r)
    \/ \E a \in DOMAIN attempts, p \in Reviewers : Dispatch(r, a, p)

Next == \E r \in Runs : Command(r) \/ Agent(r)

Spec == Init /\ [][Next]_vars

-----------------------------------------------------------------------------
(* Properties.                                                             *)

\* Every variable holds a value of its type, the ledger's included.
TypeOK ==
    /\ Ledger!TypeOK
    /\ pc \in [Runs -> Step]
    /\ mine \in [Runs -> {0} \cup DOMAIN attempts]
    /\ ending \in [Runs -> Ending]
    /\ {todo, targets} \subseteq [Runs -> SUBSET DOMAIN attempts]
    /\ verdict \in [Runs -> Ledger!Verdict \cup {"none"}]
    /\ process \in [Runs -> {"none", "live", "orphaned", "gone"}]
    /\ tool \in [Runs -> {"idle", "move", "start", "review", "approved"}]
    /\ sent \subseteq [attempt : DOMAIN attempts, provider : Reviewers]
    /\ strays \subseteq Runs
    /\ terminated \subseteq Interrupted

\* A run that came out of its try statement and reached its end, and the tools of
\* whose coordinator have kept still since it listed the children; the review command
\* launches no process.
Over(r) ==
    /\ At(r, "done")
    /\ r \notin strays
    /\ RuntimeOf[r] # "owner-review" => ending[r] # "none" /\ r \notin terminated

\* However the processes of the commands ended, wherever their tools were when they
\* did, and whatever is left of them: once the commands are over, no attempt is
\* running, and no task waits for one.  A descendant of a coordinator that goes on
\* writing after the command has listed the children is left out: nothing in the code
\* closes what it starts.
EndedRunsLeaveNothingRunning ==
    /\ \E r \in Runs : Over(r)
    /\ \A r \in Runs : At(r, "idle") \/ Over(r)
    => Ledger!RunningAttempts(Task) = {} /\ status[Task] # "running"

\* The dispatch policy and record_review agree, whatever happens in between: a
\* review that a child was sent to make can be recorded.
AllowedReviewIsRecordable ==
    \A s \in sent :
        Ledger!MayReview(Task, s.attempt, s.provider, "approve", "some")

\* A review run blocks or completes the task only after it has recorded its
\* verdict on every attempt it set out to review.
DecisionCoversTargets ==
    \A r \in Runs : At(r, "decide") => \A a \in targets[r] :
        \E q \in Ledger!ReviewsOf(a) :
            /\ reviews[q].provider = ProviderOf(r)
            /\ reviews[q].verdict = verdict[r]

\* runner.py, _fail_running_child_attempts: close child attempts orphaned by a
\* terminal coordinator process.  An attempt whose own command is still with its
\* process is not failed by another command.
OthersAreSpared ==
    [][\A s \in Runs :
        /\ pc[s] \in {"launch", "record", "wait"}
        /\ attempts[mine[s]].status = "running"
        => attempts'[mine[s]].status = "running"]_vars
=============================================================================
