------------------------------ MODULE WorkView ------------------------------
(***************************************************************************)
(* The read routes of the service for one work item, status and evidence:  *)
(* each response is put together from several reads of the ledger and of   *)
(* files, each in a connection of its own, while the work goes on.         *)
(***************************************************************************)
EXTENDS Integers, Sequences, FiniteSetsExt

CONSTANTS
    Amounts, References,   \* of CostProjection
    MaxAttempts,           \* bound on the attempts
    MaxMoves,              \* bound on the transitions of the task
    MaxReviews,            \* bound on the reviews
    MaxLines               \* bound on the lines of a transcript

ASSUME WorkAssumption ==
    /\ Amounts \subseteq Nat
    /\ {MaxAttempts, MaxMoves, MaxReviews, MaxLines} \subseteq Nat

VARIABLES
    status,    \* of the task
    attempts,  \* attempts[i]: the usage attempt i reported
    open,      \* the attempts still running
    kinds,     \* kinds[i]: of attempt i, "implementation" or "coordinator"
    filed,     \* the attempts recorded with the path of their transcript
    log,       \* log[i]: how many lines the transcript of attempt i has
    reviews,   \* how many reviews were recorded
    moves,     \* the events of transitions, in their order: where to
    told,      \* the other events: <<"finished", attempt>>, <<"reviewed", review>>
    route,     \* the route that is asked, again and again
    pc,        \* its next read
    seen,      \* what the response has read so far
    shown      \* the last status response, the outcome only where it is final

ledgerVars == <<status, attempts, open, kinds, filed, log, reviews, moves, told>>
readerVars == <<route, pc, seen, shown>>
vars == <<ledgerVars, readerVars>>

Final == {"completed", "cancelled"}
Closed == {"blocked", "failed"} \cup Final
Statuses == {"queued", "running", "needs_review"} \cup Closed

\* The cost of what the response has read.
View == INSTANCE CostProjection WITH status <- seen.status, attempts <- seen.attempts

Nothing == [status |-> "queued", attempts |-> <<>>, open |-> {}, filed |-> {},
            documents |-> {}, visited |-> 0, reviews |-> 0, moves |-> <<>>,
            told |-> {}, since |-> 0]

TypeOK ==
    /\ status \in Statuses
    /\ attempts \in Seq(View!Usages) /\ Len(attempts) <= MaxAttempts
    /\ open \subseteq DOMAIN attempts /\ filed \subseteq DOMAIN attempts \ open
    /\ kinds \in [DOMAIN attempts -> {"implementation", "coordinator"}]
    /\ log \in [DOMAIN attempts -> 0..MaxLines]
    /\ reviews \in 0..MaxReviews
    /\ moves \in Seq(Statuses) /\ Len(moves) <= MaxMoves
    /\ told \subseteq {"finished"} \X DOMAIN attempts \cup {"reviewed"} \X (1..MaxReviews)
    /\ route \in {"status", "evidence"}
    /\ pc \in {"task", "attempts", "documents", "reviews", "events", "answered"}
    /\ seen.visited \in 0..Len(seen.attempts)
    /\ shown.status \in Statuses

Init ==
    /\ status = "queued"
    /\ attempts = <<>> /\ open = {} /\ filed = {} /\ kinds = <<>> /\ log = <<>>
    /\ reviews = 0
    /\ moves = <<>> /\ told = {}
    /\ route \in {"status", "evidence"}
    /\ pc = "task"
    /\ seen = Nothing
    /\ shown = [status |-> "queued", outcome |-> 0, reported |-> View!None,
                derived |-> View!None]

-----------------------------------------------------------------------------
(* The work, as the ledger and the files of its runs show it. Each step is  *)
(* one transaction, or one line of output.                                  *)

Transitions ==
    [queued       |-> {"running", "blocked", "failed", "cancelled"},
     running      |-> {"needs_review", "blocked", "failed", "cancelled"},
     needs_review |-> {"running", "blocked", "failed", "completed"},
     blocked      |-> {"queued", "running", "failed"},
     failed       |-> {"queued", "running"},
     completed    |-> {},
     cancelled    |-> {}]

MoveReopening(next) ==
    /\ next # status
    /\ Len(moves) < MaxMoves
    /\ status' = next
    /\ moves' = Append(moves, next)
    /\ UNCHANGED <<attempts, open, kinds, filed, log, reviews, told>>

\* transition, cancel_task and complete_task; the gate of the last is TaskLedger's.
\* A coordinator that is still running keeps a task from being cancelled only.
Move(next) ==
    /\ next \in Transitions[status]
    /\ next \in Closed => \A i \in open : kinds[i] = "coordinator"
    /\ next = "cancelled" => open = {}
    /\ Len(moves) < MaxMoves
    /\ status' = next
    /\ moves' = Append(moves, next)
    /\ UNCHANGED <<attempts, open, kinds, filed, log, reviews, told>>

Start ==
    /\ status = "running"
    /\ Len(attempts) < MaxAttempts
    /\ attempts' = Append(attempts, View!Unpriced)
    /\ open' = open \cup {Len(attempts')}
    /\ \E role \in {"implementation", "coordinator"} : kinds' = Append(kinds, role)
    /\ log' = Append(log, 0)
    /\ UNCHANGED <<status, filed, reviews, moves, told>>

FinishKeepingRow(i, u) ==
    /\ i \in open
    /\ attempts' = [attempts EXCEPT ![i] = u]
    /\ filed' \in {filed, filed \cup {i}}
    /\ told' = told \cup {<<"finished", i>>}
    /\ UNCHANGED <<status, open, kinds, log, reviews, moves>>

\* finish_attempt by run_task, which names the transcript, or by whoever ends the
\* attempt for it and knows of none.
Finish(i, u) ==
    /\ i \in open
    /\ attempts' = [attempts EXCEPT ![i] = u]
    /\ open' = open \ {i}
    /\ filed' \in {filed, filed \cup {i}}
    /\ told' = told \cup {<<"finished", i>>}
    /\ UNCHANGED <<status, kinds, log, reviews, moves>>

\* Output of a run. Its transcript is closed before its attempt is recorded with
\* it, as RunProcess shows; the run of an attempt that others ended may go on.
Write(i) ==
    /\ i \notin filed
    /\ log[i] < MaxLines
    /\ log' = [log EXCEPT ![i] = @ + 1]
    /\ UNCHANGED <<status, attempts, open, kinds, filed, reviews, moves, told>>

Review ==
    /\ reviews < MaxReviews
    /\ \E i \in DOMAIN attempts \ open : kinds[i] = "implementation"
    /\ reviews' = reviews + 1
    /\ told' = told \cup {<<"reviewed", reviews'>>}
    /\ UNCHANGED <<status, attempts, open, kinds, filed, log, moves>>

Work ==
    /\ \/ \E next \in Statuses : Move(next)
       \/ Start
       \/ \E i \in open, u \in View!Usages : Finish(i, u)
       \/ \E i \in DOMAIN attempts : Write(i)
       \/ Review
    /\ UNCHANGED readerVars

-----------------------------------------------------------------------------
(* _status_response and _evidence_response, read by read.                   *)

\* The order of the reads.
Following(read) ==
    CASE read = "task" -> "attempts"
      [] read = "attempts" -> IF route = "status" THEN "events" ELSE "documents"
      [] read = "documents" -> "reviews"
      [] read = "reviews" -> "events"
      [] OTHER -> "answered"

\* The read at pc has this result.
See(result) == pc' = Following(pc) /\ seen' = result /\ UNCHANGED <<route, shown>>

\* Which transition brought the status is remembered for the properties only.
ReadTask ==
    /\ pc = "task"
    /\ See([seen EXCEPT !.status = status,
                        !.since = Len(moves)])

ReadAttempts ==
    /\ pc = "attempts"
    /\ See([seen EXCEPT !.attempts = attempts, !.open = open, !.filed = filed])

ReadDocumentOfRunning ==
    LET i == seen.visited + 1 IN
    /\ pc = "documents" /\ i \in DOMAIN seen.attempts
    /\ seen' = [seen EXCEPT !.visited = i, !.documents = @ \cup {<<i, log[i]>>}]
    /\ UNCHANGED <<route, pc, shown>>

\* The next attempt's transcript, where the attempt names one; a file that cannot
\* be read is left out. So is here its stderr, which is shown as far as it has got.
ReadDocument ==
    LET i == seen.visited + 1 IN
    /\ pc = "documents" /\ i \in DOMAIN seen.attempts
    /\ seen' \in {[seen EXCEPT !.visited = i]} \cup
                  IF i \in seen.filed
                  THEN {[seen EXCEPT !.visited = i, !.documents = @ \cup {<<i, log[i]>>}]}
                  ELSE {}
    /\ UNCHANGED <<route, pc, shown>>

DocumentsRead ==
    /\ pc = "documents" /\ seen.visited = Len(seen.attempts)
    /\ See(seen)

ReadReviews ==
    /\ pc = "reviews"
    /\ See([seen EXCEPT !.reviews = reviews])

ReadEvents ==
    /\ pc = "events"
    /\ See([seen EXCEPT !.moves = moves, !.told = told])

\* _outcome: the reason of the newest transition to the status that was read, if
\* that is one of four; the transition stands for its reason.

OutcomeEvent ==
    LET matching == {i \in DOMAIN seen.moves : seen.moves[i] = seen.status}
    IN  IF seen.status \in Closed /\ matching # {} THEN Max(matching) ELSE 0

\* The response is sent, and the next request begins. A projection that raises is
\* answered with an internal error.
Answer ==
    /\ pc = "answered"
    /\ pc' = "task" /\ seen' = Nothing
    /\ shown' = IF route = "status" /\ ~View!Refused
                THEN [status |-> seen.status,
                      outcome |-> IF seen.status \in Final THEN OutcomeEvent ELSE 0,
                      reported |-> View!Projection.reported,
                      derived |-> View!Projection.derived]
                ELSE shown
    /\ UNCHANGED route

Reader ==
    /\ \/ ReadTask \/ ReadAttempts \/ ReadDocument \/ DocumentsRead
       \/ ReadReviews \/ ReadEvents \/ Answer
    /\ UNCHANGED ledgerVars

Next == Work \/ Reader

Spec == Init /\ [][Next]_vars

-----------------------------------------------------------------------------
(* Properties.                                                             *)

\* CostProjection's properties of every response, whatever changed between the
\* read of the task and that of its attempts.
CentsAreBilled == pc = "answered" => View!CentsAreBilled
EvidenceCoversCost == pc = "answered" => View!EvidenceCoversCost
CostIsAccountedFor == CentsAreBilled /\ EvidenceCoversCost

\* Reported and derived dollars, once shown, are never taken back by a later
\* response: not after a retry, an attempt without a cost or a change of status.
DollarsNeverShrink ==
    shown.reported <= shown'.reported /\ shown.derived <= shown'.derived

\* The outcome shown with a closed status is the reason of the transition that
\* closed the task, or of a later one to the same status; never of an earlier time
\* that it was closed, although status and events are read apart.
OutcomeIsOfThisClosing ==
    pc = "answered" /\ seen.status \in Closed => OutcomeEvent >= seen.since

\* What is shown as completed or cancelled stays so, with the same outcome.
FinalAnswerStands ==
    shown.status \in Final =>
        shown'.status = shown.status /\ shown'.outcome = shown.outcome

\* A transcript that is shown as evidence does not change any more.
DocumentsAreFinal == \A d \in seen.documents : log[d[1]] = d[2]

\* The events of a response tell of each ended attempt and each review in it.
EventsExplainEvidence ==
    pc = "answered" =>
        /\ \A i \in DOMAIN seen.attempts \ seen.open : <<"finished", i>> \in seen.told
        /\ \A r \in 1..seen.reviews : <<"reviewed", r>> \in seen.told

\* The parts of one response agree, although each is read in its own connection: its
\* outcome with its status, its events with its evidence, and its documents with what
\* they stay.
AnswerAgrees == OutcomeIsOfThisClosing /\ DocumentsAreFinal /\ EventsExplainEvidence

\* One response takes nothing back that an earlier one showed as settled: no dollars,
\* no final status and no outcome.
LaterAnswersAgree == [][DollarsNeverShrink /\ FinalAnswerStands]_vars
=============================================================================
