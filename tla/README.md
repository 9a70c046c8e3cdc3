# Agent OS in TLA+

A model of the parts of Agent OS (`src/agent_os`) in which ordering matters: the
SQLite task ledger, its migration and the compilation of the agent bundle, the local
HTTP service with the direct Codex runs it supervises and the answers it gives of
them, the process group and the files of one run, the commands that run and review a
task with the tools of their coordinators, and the conformance probe of a runtime.
TLC checks the modules on small instances; TLAPS proves every safety property that the
runs check for every instance, some of them under an assumption that is named below.

Paths below are relative to the repository; `store.py` means
`src/agent_os/store.py`, and so on.

## The system

| component | state | operations | talks to |
|---|---|---|---|
| task ledger (`store.py`, `models.py`) | tasks, attempts, reviews, events, in SQLite | create, transition, cancel, start/finish attempt, record pid, reconcile, record review, complete; initialise and migrate | every other component, from any number of processes |
| direct Codex run (`runner.py`, `run_task`) | one attempt and one process group | plan, start attempt, launch, wait, tear down, record the outcome | ledger, operating system |
| other runtimes (`runner.py`) | the same, without cancellation | Omnigent and Prime coordinators, OpenCode, Antigravity, codex-review | ledger; a coordinator's child agents call back through `tools.py` under `policies.py` |
| HTTP supervisor (`http_service.py`) | one handle (future, cancel event) per work id, a lock, a thread pool | submit, cancel, close | ledger, `run_task` |
| read routes (`http_service.py`) | none | status, evidence, artifacts: a response from several reads | ledger, transcripts and artifacts of runs |
| cost projection (`http_service.py`) | none | pure: usage of the attempts to one cost | status route |
| probe (`probe.py`) | a disposable workspace, a listener, a bare remote | provision, run one task, measure, report | `run_task`, ledger |
| identity and context (`execution.py`, `context.py`) | none | pure tables and text | ledger, runs |
| bundle (`specs.py`, `definitions.py`) | the files of the agent bundle | sync, check, validate | command line, Omnigent |
| command line (`cli.py`) | none | one command per call | all |

What is hard about it:

* **Concurrency.** Nothing but SQLite stands between the service, command-line
  runs, a coordinator's tools and operators. Some calls of the store are one
  `BEGIN IMMEDIATE` transaction (`transition`, `cancel_task`, `start_attempt`);
  others read in one statement and write in a later one (`complete_task`,
  `record_review`, `reconcile_stale_attempts`), because Python's `sqlite3` opens
  a transaction only at the first write.
* **Failure.** Every step of a run may raise; the process group may outlive its
  leader, and SIGKILL; the service may be killed at any point.
* **Ordering and timeouts.** Requests hold a lock that workers do not take;
  cancellation is an event that a run looks at in a few places; deadlines race
  with exits; the exceptions of a run replace one another on the way through two
  `try` statements and an `ExitStack`.
* **Reads that are not one.** A response, a listing of artifacts and a comparison of
  the bundle are put together from reads between which the work goes on.

What makes each component correct:

* ledger: completion only on independent, evidence-backed approval; one running
  attempt per work item; closed tasks are quiet; outcomes are final; the audit
  trail is the history; reconciliation strands no task that it settles, and spares the
  live owners it finds on record;
* Codex runs and supervisor: a worker hands its task over, whatever is raised; an
  accepted cancel is honoured; `cancelled` is only said of a process group that is gone;
* coordinators: a run ends with no child attempt running, and does not end the
  attempts of others;
* a run: what it claims of its process group is so, its temporary home and its
  transcript are wound up in time, and it ends once its prompt is taken;
* read routes: the parts of a response agree, later responses take nothing final
  back, and a listing is of the tree of its work item;
* cost projection: never claims more coverage than was observed;
* migration: a ledger in use has what its version promises, a newer one is never
  taken back, and opening it keeps working, whoever else opens it;
* bundle: an exit code of zero means the compiled bundle, and what is torn is
  repaired;
* probe: a boundary is called crossed exactly where the host saw it crossed; a broken
  target is never called blocked, and a refusal that was reported is one that was met or
  one that the runtime invented, never one that the probe made.

## Modules

| module | models |
|---|---|
| `TaskLedger` | the ledger and the calls that clients make of it |
| `ReviewGate` | abstract: what the ledger promises about completion, each call in one step |
| `CodexService` | supervisor, worker threads, `run_task` for Codex and process groups, over an instance of `TaskLedger` |
| `CommandRuns` | `agent-os run` and `agent-os review`, a coordinator's tools and its dispatch policy, over an instance of `TaskLedger` |
| `RunProcess` | the `try` statement of `run_task` and its handler, statement by statement, for one attempt of any runtime |
| `SupervisedRun` | abstract: what a run promises about the process group it launches |
| `SchemaMigration` | `TaskStore.initialize`, statement by statement, by several processes |
| `Setup` | `agent-os init` and `agent-os spec check` by several processes; extends `SchemaMigration` |
| `WorkView` | the status and evidence routes, read by read, over a ledger in motion; with an instance of `CostProjection` |
| `CostProjection` | `_cost_projection`, an operator over what one response has read |
| `ArtifactView` | the artifact route: scanning and reading a tree that its run is changing |
| `RuntimeProbe` | `agent-os probe`: runtime, listener and measurement side by side |
| `TaskLedgerProofs`, `ReviewGateProofs`, `CodexServiceProofs`, `CommandRunsProofs`, `RunProcessProofs`, `SetupProofs`, `WorkViewProofs`, `RuntimeProbeProofs` | theorems |
| `MCTaskLedger`, `MCCodexService`, `MCCommandRuns`, `MCRunProcess`, `MCSetup`, `MCWorkView`, `MCRuntimeProbe` | instances for TLC; `MCWorkView` puts `WorkView` and `ArtifactView` side by side |

### TaskLedger

`status`, `attempts`, `reviews` and `audit` are the four tables. Rows of
`attempts` and `reviews` are sequences in order of insertion; `audit[t]` keeps
the newest event of the status of a task. `live` is the set of attempts whose
recorded process exists (what `_pid_alive` reads), `clock` stamps `created_at`
of reviews, and `call[c]` is the call client `c` is in the middle of.

A call that runs in one transaction is one action (`TransitionTask`,
`CancelTask`, `StartAttempt`). `FinishAttempt` reads and then updates
`WHERE status = 'running'`; everything it decides on cannot change while the row
is running, so the two are one action. The other calls take a step for each
statement that may see a different database:

* `BuildReview` reads the attempt and stamps the review; `InsertReview` commits
  it. Reviews can be inserted out of the order of their stamps, and the newest
  review of an attempt is the one with the newest stamp.
* `CompleteBegin`, `CompleteNoneRunning`, `CompleteLatest`, `CompleteCheck` for
  each attempt, `CompleteCommit`. Only the status is compared at the commit.
* `ReconcileBegin` reads the running rows with their pids; `ReconcileSkip` or
  `ReconcileFail` for each; then for each affected task `SettleStatus`,
  `SettleRunning`, `SettleTransition`.

`Abandon` ends a call at any step, as an exception or a crash of the client
does. A call that raises before it writes anything changes nothing and is not a
step of its own. Ages are not modelled: a row may be older than any limit, so
only `force` and a live pid decide. Ids, text, timestamps of attempts, models and
transcripts are left out; of a summary only what its comparison in
`finish_attempt` can tell apart is kept, and of the evidence whether there is
any. Attempts of equal `started_at` are not modelled: insertion order stands for
the order of start.

### CodexService

`request` is the submit or cancel that holds the supervisor's lock, at the step it
has reached; `pc[t]` is where the worker of task `t` is, from `pending` in the pool
to `rescue`, the `except` clause of `_execute`; `cancelSet[t]` is its event;
`group[a]` is what exists of the process group of an attempt: led by its leader,
orphaned by it, or gone. `ending` and `accepted` remember what the evidence of an
attempt says and what a cancel was answered. Every step of `run_task` that may
raise has a branch that does, and goes where the exception goes. `lost` marks a run
whose service was killed. At `prompt` the worker writes the prompt to Codex
(runner.py:905): the write returns when the processes of the group have taken it, and may
never return.

Simplifications that do not change what is observed: `get_task` followed by
`transition` or `cancel_task` is one step, since the call re-reads the status and
the refused interleaving has the same effect; the two looks at `cancel_event` after
the run (runner.py:969 and 1131) are one, as nothing in between touches the ledger;
a teardown is one step with every outcome; a request that changes nothing and
answers at once is left out.

### CommandRuns

A run is one process of the command line and takes its steps once. `RuntimeOf` says
which: `omnigent` is a coordinator, `builder` stands for Prime Agent, OpenCode and
Antigravity, which differ in configuration and in the parsing of their output only,
`codex-review` is the fallback review, and `owner-review` the review command.
`pc[r]` is the line of `run_task` it has reached, `process[r]` what is left of the
process group it launched (led by the process, `orphaned` by it, or gone), `ending[r]` how its try statement was left, `todo[r]` the
children it has still to fail or the attempts it has still to review. `terminated`
are the runs that got a signal.

Each run has two clients of the ledger: `Host(r)`, the command, and `Tool(r)`, the
tools its coordinator calls, one at a time and in any order, as long as anything of its
process group lives: only a Codex run looks at the group that its leader leaves
(runner.py:943), so the descendants of a coordinator may go on, through the listing of the
children and beyond the end of the command. `strays` are the runs whose tools wrote to the
task after that listing. Every call of the store is an action of `TaskLedger`, so the tools of a
coordinator, a second command and a review interleave at the statements of the
store. `tool[r]` is where a tool is that makes more than one call. `sent` remembers
one review that the dispatch policy allowed, and every allowed review is remembered in
some behaviour; the policy's decision about building leaves no trace in any state and
is not modelled.

`Raise` ends a command where a step outside the try statement may raise. Once the
process has ended, the only such steps are calls that the ledger refuses.
`Terminate` is a SIGTERM or a SIGHUP, which becomes an exception wherever the run is:
within the try statement it takes the governed cleanup, elsewhere it ends the
command. SIGKILL of a command is not modelled; `reconcile_stale_attempts`, which is
there for it, is in `TaskLedger`. A coordinator's tools end attempts of its children,
not those of a command: nothing in `tools.py` keeps them from it, but the
coordinator's instructions name the attempts that it started. Runs with one
coordinating runtime give the attempts they fail the same summary, and the ledger
takes the second for a replay; `RunsAssumption` allows one of each.

### SchemaMigration

The state is what the statements of the migrations can tell apart: which tables hold
a version (`metas`), the version row, the changes of later versions that the tables
have (`applied`), and whether two attempts of a work item are running, which the
unique index of version 2 refuses. `todo[p]` is the script that process `p` has still
to execute. `executescript` runs outside a transaction, so each statement is a step
and `Crash` may come between any two. `Accepts` says which statements SQLite refuses.
A refused process, as one that is ready, may start over: every operation of the store
opens it anew.

### RuntimeProbe

`crossed` are the traces the host will find, `refused` what the sandbox did, `claims`
the report file as it stands. The runtime acts in any order and any number of times
until the run ends, and beyond that where it is `surviving`: a timeout may leave its
process group unverified. `ListenerDies` may happen at any time. The host takes
one step for the end of the run, the self-check, the loading of the claims, each of
the three measurements, and the exit code; `git` may fail in the last of them. The runtime
writes what it likes: a success it did not have, or an error that nothing caused. The host
takes any error text for a refusal (`probe.py:352`), so the model labels the text, for the
properties only, as a `refusal` where the runtime met one and `invented` where it did not.

### RunProcess and SupervisedRun

`CodexService` and `CommandRuns` take a launch, a wait or a teardown in a step or two,
with every outcome it may have; `RunProcess` is where those outcomes come from. `pc`
is the statement `run_task` has reached, `caller` the place `_terminate_process` was
called from, `err` the exception on its way. `Raise` is the way out of a statement:
through the inner `finally`, which joins the reader, or past it to the `ExitStack`
(`Unwind`), which closes the transcript and removes the temporary home, and on to the
handler. `Prompt` is no step of the host: the write to the stdin of Codex returns when the
processes take it. `evidence` is `teardown_evidence`, `leader` and `members` are the processes
themselves, which fork and exit as they like. A signal becomes an exception wherever
the command is; within `Popen` the child may exist already, and in the handler nothing
catches it. A process that has left the group is not a member of it any more, and may
still hold the pipe open, so the reader may stay `reading` for ever.

`SupervisedRun` has the group, the runtime's kind and the recorded outcome only:
what may be said of an attempt depends on what is left of its group.
`ImplementsSupervisedRun` maps the processes that the run knows of to it.

### Setup

Extends `SchemaMigration`: a process that has opened the ledger, and found it new or of
version 3, compiles the bundle, file by file. `file[f]` is what the file holds;
`write_text` truncates, so a file is `torn` from `Open` to `Write`, for a reader and
after a kill. `work[p]` is the step of `sync_specs`, `check_specs` or
`validate_bundle`, `left[p]` the files still to visit, `exit[p]` how the last command
ended. Nothing excludes two of these processes. A process never reads the ledger in
this part, so a kill here and a crash while the ledger is opened are actions of their
own. What Omnigent makes of a file that is not the generated one is either answer.

### WorkView, CostProjection and ArtifactView

The ledger of `WorkView` keeps what a response shows: status, usage and end of each
attempt, reviews, and the events that tell of them. A response is a sequence of reads,
each in its own connection (`ReadTask`, `ReadAttempts`, `ReadDocument` for each
transcript, `ReadReviews`, `ReadEvents`), and `Work` may take any step between two.
`shown` remembers what the last status response said; `kinds` tells coordinators, which
may be running when a task is closed, from implementations, which may not. The calls of the ledger are
single steps here; what is within them is `TaskLedger`'s.

`CostProjection` is instantiated with what a response has read. Amounts are tenths of a
cent, so that rounding to cents is seen; model names, tokens and usage per model are
left out.

In `ArtifactView` the run replaces entries of its tree by files, directories and links
between the scan and the reads of a listing. `handle` is the directory descriptor that
a read holds; `steady` remembers the names that were regular files all the time.

### ReviewGate

One fate per task and one standing per work item (`none`, `working`, `failed`,
`succeeded`, `approved`, `rejected`); `Complete` needs every work item that was
ever started to be approved. `TaskLedger!ImplementsReviewGate` maps the rows to it:
the standing of an item is the outcome of its newest attempt and the verdict of the
newest review of that.

## Runs

| run | instance | asks |
|---|---|---|
| `LedgerRace` | 2 clients, 1 task, 1 item, 2 attempts, 1 review | do the invariants of the ledger survive every interleaving of every call, and does a reconciliation spare live owners and strand no task it settles? |
| `LedgerSerial` | 1 client, 2 items, 2 attempts, 2 reviews | does the ledger, used by one client, implement the review gate? |
| `ServiceRun` | 1 task, 2 attempts, 1 reconciling operator, fairness | does a worker settle its task and honour an early cancel unless its prompt is never taken, is what it calls cancelled gone and what it offers succeeded? |
| `ServicePool` | 2 tasks, 1 thread | is a task handed over after any exception, in or out of the queue? |
| `CommandRun` | a coordinator with 2 items, then its owner's review or the fallback's, which may be terminated | does a command leave nothing running, whatever is left of its process, can each review that was allowed be recorded, and does a decision cover every target? |
| `RunProcess` | one run of each kind, 2 descendants, 2 lines, 2 signals, fairness | is what is claimed of the group so, are home, transcript and reader wound up in time, does the run end once its prompt is taken, and does it keep the promise of `SupervisedRun`? |
| `Setup` | 2 processes, versions 0 to 4, a bundle of 2 files that is absent, old or torn, kills, fairness | is a ledger in use migrated, never downgraded and opened again and again; does an exit code of zero mean a compiled bundle, and is that compiled again and again? |
| `WorkView` | 2 attempts, 3 transitions, 1 review, 2 amounts, 2 references; 3 files, one directory | is a cost accounted for, does a response agree with itself and with earlier ones, is a listing of its tree? |
| `ProbeRun` | two required boundaries, survivors | is `blocked` said of no broken target, is the report what happened, and does an exit code of zero cover up no crossing? |
| `GateRace`, `CancelRace`, `CommandSpare` | as above; in the last a builder beside the coordinator | statements of the documentation and of a comment that the code does not keep; see below |

Some properties have several parts, each named in its module: `OutcomeIsEarned` (what
is cancelled is gone, what is offered for review succeeded), `CostIsAccountedFor`
(`CentsAreBilled`, `EvidenceCoversCost`), `AnswerAgrees` (`OutcomeIsOfThisClosing`,
`DocumentsAreFinal`, `EventsExplainEvidence`), `LaterAnswersAgree`
(`DollarsNeverShrink`, `FinalAnswerStands`), `ListingIsOfTheTree`
(`LinksAreNeverFollowed`, `SteadyFilesAreListed`), `ForwardWithBackup` (`NoDowngrade`,
`BackupBegins`) and `RecordIsFinal` (`RecordedIsWoundUp`, `TranscriptIsFinal`).

Bounds. Two clients are enough for each race: every property relates one call in
progress to the steps of others, and one other client can take all of those. Two
attempts give an item a newer attempt than the one a call has read, and two items
give completion something to forget; two reviews give an attempt a newer verdict.
`LedgerRace` has one review, as a second multiplies its states beyond what is worth
waiting for: that two reviews commit out of the order of their stamps is in the model and
in the proofs, but no run exercises it.
`MaxAttempts` and `MaxReviews` cut `StartAttempt` and `BuildReview` only.
`CHECK_DEADLOCK FALSE` is used, except for the setup, because the system may
stop: completed and cancelled tasks are terminal, at the bounds nothing can be
started, and a command, a run or a probe ends.

* `CommandRuns` takes each run once; a coordinator and two children are three
  attempts, the fallback's is the fourth. `CommandRun` has a constraint, `OneReview`:
  a review is started when the coordinator's command is over, since what a coordinator
  can do to a review its tools can do as well, and a behaviour has the review of the
  owner or that of the fallback. `CommandSpare` has no constraint.
* `RunProcess`: two descendants let a group lose one and keep one; two lines are one
  before and one after any step; two signals are one that unwinds the run and one that
  meets its handler.
* `Setup`: two processes are one that reads or skips while the other writes; two files
  are one that is compiled and one still to do; one kill leaves one file torn. Only a
  ledger that was new or of version 3 goes on to the bundle (`InitOf`), and of version 4
  none can; what versions 1 and 2 add is over when the ledger is open.
* `WorkView`: two attempts tell one attempt, all and some of them apart; three
  transitions close a task, reopen it and close it again. Amounts sum to both sides of
  half a cent. Its constraint, `RouteBound`, varies what the asked route reads and
  leaves alone what it does not, reopens tasks for the status route only, varies costs in
  turn with retries and with a coordinator, gives the first attempt one of the references,
  which are alike, and allows one coordinator, which leaves no transcript. `ReadsNext`
  moves either the ledger or the tree of artifacts, which have no state in common.
* In `ServicePool` the bound may also stop a worker about to start; the run checks
  safety only. In `ServiceRun` a task starts at most once in a life of the service.

A constraint cuts behaviours, never steps of those it keeps.

Fairness is assumed in three modules.

* `CodexService`: weak fairness of the steps of each worker, but for the write of the
  prompt. A thread of the pool that can step is scheduled, and its waits (the process, the
  teardown, the reader) have deadlines. The write has none: `WorkSettles` and
  `EarlyCancelIsHonoured` hold unless a worker is `Stuck` there, and say so that nothing
  else lasts for ever. Nothing is assumed of requests, operators, process groups, crashes or
  restarts; liveness is asked of lives of the service that are not cut short, and of
  tasks whose attempt no operator has reconciled away (`TakenOver`).
* `RunProcess`: weak fairness of the run itself, with the same exception: `RunEnds` says
  that it ends or waits for its prompt to be taken. Nothing is assumed
  of the process group, the reader or whoever cancels or signals.
* `Setup`: weak fairness of each process that opens the ledger and of each that
  compiles or checks the bundle: both are sequential code that waits for nothing but the
  lock of a database whose transactions are single statements. Strong fairness of
  `Reopen`: an operator whose command ended runs one again, now and then `init`.

### What the code does not keep

* `GateRace`: `complete_task` is described as atomic (`store.py:761`,
  `docs/threat-model.md:68`). Its checks are not in the transaction of its update:
  with a second client, a `request_changes` recorded in between is ignored. What
  does hold, and is proved, is weaker: what each check saw stays true
  (`RememberedFactsHold`), so a completed task has an approval
  (`CompletedHasApproval`).
* `CancelRace`: a cancel that read the task as queued may record `cancelled` for a
  run whose teardown was not verified (`docs/http-service.md:92`).
* `CommandSpare`: a coordinator that ends fails every running attempt of the task, so
  also that of another command whose process is running, which no terminal coordinator has
  orphaned (`runner.py:1662`).

Some properties are stated with the exceptions that the code makes:

* `ForwardWithBackup`: a backup is begun before a migrated ledger changes, not finished.
  The file exists before its content, and a second process that sees it goes on.
* `ReadyMeansMigrated` leaves out the column of version 3 where the ledger was version
  1. While the table of the version is renamed, a second process takes the ledger for
  a new one and stamps it version 3.
* `StaysOpenable` is asked while nobody is killed. A ledger of version 1 whose migration
  is killed halfway repeats its ALTER statements and is refused.
* `BundleIsRepaired` says again and again, not for ever: two processes that run `init`
  over and over may each find the file torn that the other is writing. `ZeroMeansGenerated`
  leaves out a file that another process is writing, or was killed at, for the same reason.
* `ScratchOutlivesProcess`: `docs/data-handling.md:51` has the private `CODEX_HOME` last
  for the lifetime of the child, and `docs/architecture.md:165` has the plugin removed
  after it. The `ExitStack` is left before the handler terminates the group, so after a
  signal, after a teardown that was not verified, and where the pid or the prompt could
  not be written, the directory goes while the process is alive. A removal that fails
  leaves the directory.
* `ClaimsAreProven`: a signal within `Popen` leaves a child that the handler calls
  not launched.
* `DocumentsAreFinal` is about transcripts. The stderr document of an attempt is shown as
  far as it has got, and may grow.
* `EndedRunsLeaveNothingRunning` leaves out commands that a signal ends, or an exception
  outside the try statement of `run_task`, and a coordinator whose descendants write to the
  task after the command has listed the children (`strays`): nobody looks at the group that
  its leader leaves, and nothing closes what they start.
* `RunEnds`, `WorkSettles` and `EarlyCancelIsHonoured` leave out a prompt that is never
  taken. The write at `runner.py:905` has no deadline, the reader that would empty the
  output of Codex is not there yet, and a cancel is not looked at.
* `LiveOwnerIsPreserved` is about owners whose process was on record when the
  reconciliation began. One that records it later may be failed alive.
* `SettledTaskIsNotStranded` is about the tasks that a reconciliation settles. Where it
  raises in between (`Abandon`), the tasks of the rows it has failed are left running, and
  no later reconciliation finds them by those rows.
* `BlockedIsEarned` and `ZeroMeansHeld` name two cases in which nothing was refused: an
  error that the runtime invented, which the host cannot tell from another, and the network
  check where a runtime survived its timeout, since the listener may die after it was
  checked. `probe.py` says as much: only the host's own observation decides a crossing.
* No property forbids that a replay of `submit` schedules a second run of work that has
  ended between its tests (`http_service.py:201`).

## Proofs

Eight modules of theorems. Most properties are not inductive, so each module strengthens
them to an invariant that is. TLC found the properties, and most of the invariants, to
hold on small instances before they were proved. The modules of `CodexService` and
`CommandRuns` instantiate `TaskLedgerProofs`: a lemma has that every step is one of the
ledger, by the way they are written, and the rest is taken from its theorems.

### The ledger

`TaskLedgerProofs` proves, for every set of tasks, clients, work items and providers
and every bound, that the properties of `LedgerRace` hold, except the two about
reconciliation, which are in `ReviewGateProofs`. Its `IInv` says

* the types, including that a row of a call in progress exists;
* the audit trail of a task ends in its status;
* running attempts are exclusive, and a stopped task has none;
* reviews are of succeeded attempts of the same task, from another provider;
* what a call remembers is of a kind that never goes away: an attempt that has
  ended stays as it ended, a review stays, an attempt seen as succeeded and
  approved stays so. This is why completion, although it is not atomic, leaves
  an approval behind.

`AuditHistory` and `Finality` are action properties proved from it.
`SoleClientGate` proves, from the assumption that there is one client only, that
the gate holds as a whole at completion: the remembered facts then are all the
facts. The lemmas before the theorems state what each operation preserves.

`ReviewGateProofs` has what relates the ledger to more than itself.

* `SettlingIsThorough`: a reconciliation leaves no task stranded, with any number of
  clients, as each step of `Settle` decides on what it reads in one transaction.
* `OwnersAreSpared` proves `LiveOwnerIsPreserved`, for any number of clients: what a
  reconciliation has read of a pid stays on record as long as the attempt runs, as the
  pid of a running attempt is only ever set (`PidIsKept`, `SnapshotIsCurrent`), so a look at
  that process is a look at its owner.
* `SoleClientRefinesGate` assumes `SoleClient`, as the run `LedgerSerial` does: with a
  second client it is false. `SoleIInv` adds to the ledger's invariant that the attempt
  that runs for a work item is its newest, that a completed task has none, and that reviews
  lie in the order of their stamps; then the newest rows, from which `FateOf` and
  `StandingOf` are computed, change by one step of the gate at a time, and each statement
  of the store is that step or a stutter (`StepRefines`).

### The service

`CodexServiceProofs` proves, for any tasks, operators, size of the pool and number of
attempts, the types, the ledger's invariants and `OutcomesAreFinal`, and
`OutcomeIsEarned`. The ledger knows no process groups, so `IInv` relates them to the rows:
a worker past its start works on the newest attempt of its task; only that may be running;
what is known of its group at each step of `run_task` (`Holds`: none before the launch,
nothing to observe once the run claims so). A reconciliation may end that attempt at any
step, which is why `Holds` says less than one would expect.

`HandOver` proves `DoneMeansHandedOver` where there are no operators, as in `ServicePool`:
an operator's reconciliation between the rescue's listing and its write leaves the task
to the operator. `SoleInv` says which attempts and which status each step of a worker may
find (`Hands`), what its evidence tells of a group that is left (`Told`), and that a request
schedules only what it saw queued (`ScheduleIsFresh`).

### The commands

`CommandRunsProofs` proves, for any commands, children, work items and bounds
(`RunsAssumption`), the types, the ledger's invariants and `OutcomesAreFinal`,
`AllowedReviewIsRecordable` and `DecisionCoversTargets`. `IInv` has what a run may rely on
at each of its steps (`Placed`): its attempt exists; a target is recorded or still to be,
and a review that is built but not inserted carries the verdict of the run. Rows that have
ended and reviews never change (`RowsKept`, from the ledger's theorems), so what the policy
saw of an attempt still holds when the review is recorded (`SentHolds`).

`NothingIsLeft` proves `EndedRunsLeaveNothingRunning` from `OneAtATime`: of the commands
that launch a process, one at most has begun and is not over. The owner's review and any
number of tools interleave with it. This is what the run `CommandRun` has too; without it
the property is false, as a coordinator that ends fails the attempts of another
(`CommandSpare`), and the other's command then stops at a write that the ledger refuses.
`Alone` says for each step of a command what is running: nothing, its own attempt, or that
and the children it has still to fail (`Tidy`). What outlives the leader is no exception
until its tools write after the listing.

### A run

`RunProcessProofs` proves, for any number of descendants, lines and signals
(`BoundsAssumption`: they are natural numbers), the types, `ClaimsAreProven`,
`ScratchOutlivesProcess`, `RecordIsFinal`, and the refinement of `SupervisedRun`
(`KeepsPromise`). None of these is inductive: whether the handler may claim anything
depends on where the exception came from. `IInv` therefore follows it: what the run
knows before and after the launch (`BeforeLaunch`, `Knowledge`), who can cancel
(`Cancellation`), what is over where no exception is on its way (`Normally`,
`Reading`), which exceptions may leave a live process behind (`Leaving`), what the
handler knows at its end (`Handling`), and that only the `ExitStack` removes and closes
(`Winding`). The refinement maps each step of the run, a signal or the group to a step
of the promise or to a stutter; that `Late` and `Finish` may conclude what they do is
`Normally` and `Handling`.

### The setup

`SetupProofs` proves, for any number of processes, any files and any number of kills, the
types, `ForwardWithBackup`, `ReadyMeansMigrated` and `ZeroMeansGenerated`. Assumed are `OriginsAssumption` and
`SetupAssumption`: the versions are 0 to 4, the files a sequence that is not empty.

* The ledger: `NewerIsRefused` says which statements a process still has that found
  version 4, and `Untouched` that while a ledger is as it was, each process at work on
  it took it for what it is, and is past its backup if it executes statements. A
  statement that changes it is therefore executed behind a backup.
* The migration: processes repeat each other's statements, so a process knows only of its
  own. What it has executed shows in the database (`Underway`), and the database has the
  changes of the version that it shows (`Shown`), also between a statement of one process
  and the next of another.
* The bundle: a file is `Accounted` for if it is compiled, torn by a kill, or being
  written. No step ends that, and every process has the files it has visited accounted
  for (`Visited`); a process that gets to exit code zero has visited them all.

### The read routes

`WorkViewProofs` proves, for any number of attempts, transitions, reviews and lines, and
any receipts and files, the types of the run `WorkView`, `CostIsAccountedFor`,
`AnswerAgrees`, `LaterAnswersAgree` and `ListingIsOfTheTree`.

* A response: `WorkInv` says what the ledger never takes back (`LedgerKept`) and what each
  part of a response, once read, has to do with the ledger as it is now, whatever was read
  after it (`TaskRead`, `AttemptsRead`, `EventsRead`): attempts are only added and only end,
  a transcript that is filed is final, and what `shown` remembers lies behind (`ShownKept`).
* The cost: `CostIsAccountedFor` and `DollarsNeverShrink` are about sums over any number of
  attempts. `MapThenSumSet` is a fold, of which no induction principle can be instantiated
  by these provers; its equations are proved by a smallest counterexample instead: the
  finite sets on which they fail, ordered by strict inclusion, have a minimal element
  (`SumIsAdds`). From them follow that removing an attempt takes its cost off, and that a
  sum of natural numbers grows with its set and with its summands.
* A listing: `TreeInv` says that what was steady all the time was found where the scan has
  been, and that nothing foreign is held open.

### The probe

`RuntimeProbeProofs` proves, for every set of required boundaries (`RequiredAssumption`:
of those that the probe has), the types, `BlockedIsEarned`, `ReportIsMeasured` and
`ZeroMeansHeld`. `IInv` adds that a refusal which is not invented was met
(`RefusalsWereMet`), that a listener alive after the run was alive when a runtime that is
gone reported it (`AliveExplains`), and what each step of the host has measured
(`Progress`, `VerdictsStand`).

### What is only model-checked

All liveness (`WorkSettles`, `EarlyCancelIsHonoured`, `RunEnds`, `StaysOpenable`,
`BundleIsRepaired`): fairness is out of the prover's reach. `StaysOpenable` and
`BundleIsRepaired` also say that something happens again and again. Every other property
of a passing run is stated by a theorem. The assumptions that go beyond the types of the
constants are `SoleClient` for the refinement of `ReviewGate`, `Operators = {}` for
`DoneMeansHandedOver`, and `OneAtATime` for `EndedRunsLeaveNothingRunning`; the runs of
these properties make the same ones. The
types of `RunProcess`, `RuntimeProbe` and `Setup` are proved and not listed in a run.

The properties that runs show violated (`CancelledMeansGone`, `OthersAreSpared`, and
`GateHoldsAtCompletion` with a second client) are false and have no theorem;
`SoleClientGate` says when the last one holds.

## Not modelled

* authentication of the service, the mapping of errors to responses and the schemas of
  requests and responses (`http_contract.py`): stateless, and text;
* the text of the bundle (`specs.py` up to `expected_specs`, `definitions.py`), prompts
  and context (`context.py`), environment allow-lists, permission files, and printing and
  parsing in `cli.py`: data that no property here tells apart;
* how a run reads the bundle while `init` replaces it: Omnigent does, out of this code;
* what the output of each runtime is parsed to: `RunProcess` takes the result of the
  parser as any outcome;
* names of models in `execution.py`: kinds and providers are constants here;
* `antigravity_policy.py`: a pure check of one tool call, without state;
* file modes, the usage and context text of ledger rows; provisioning of the probe's
  targets and the rendering of its report;
* packaging and release scripts.

## Plan

Done: `TaskLedger`, `ReviewGate`, `CodexService`, `CommandRuns`, `RunProcess`,
`SupervisedRun`, `SchemaMigration`, `Setup`, `WorkView`, `CostProjection`, `ArtifactView`,
`RuntimeProbe`, and the eight modules of proofs. Left, in this order:

1. `CodexService`: `DoneMeansHandedOver` with operators, for the tasks that no
   reconciliation has taken over (`TakenOver`).
2. To relate `CodexService` and `CommandRuns` to `SupervisedRun`, whose promise both
   take for granted in their teardown steps.
3. `CommandRuns`: two commands of one coordinating runtime, once summaries are told apart,
   and what then holds of commands that overlap.
4. `CommandRuns`: what of `EndedRunsLeaveNothingRunning` holds after a signal or an
   exception outside the try statement, or where a survivor goes on writing.
5. `CodexService`: what a replay of `submit` may start a second time.
