-------------------------- MODULE TaskLedgerProofs --------------------------
(* Theorems about TaskLedger, for any tasks, clients, work items, providers *)
(* and bounds.                                                              *)
EXTENDS TaskLedger, SequenceTheorems, TLAPS

-----------------------------------------------------------------------------
(* Rows of a table kept as a sequence.                                      *)

\* Replacing row i of s keeps the table and every other row.
LEMMA ReplaceRow ==
    ASSUME NEW S, NEW s \in Seq(S), NEW i \in DOMAIN s, NEW e \in S
    PROVE  /\ [s EXCEPT ![i] = e] \in Seq(S)
           /\ DOMAIN [s EXCEPT ![i] = e] = DOMAIN s
           /\ [s EXCEPT ![i] = e][i] = e
           /\ \A j \in DOMAIN s : j # i => [s EXCEPT ![i] = e][j] = s[j]
<1>1. DOMAIN s = 1 .. Len(s) /\ i \in 1 .. Len(s)
  BY LenProperties
<1>2. [s EXCEPT ![i] = e] \in Seq(S)
  BY <1>1, ExceptSeq
<1> QED
  BY <1>1, <1>2

\* Appending a row keeps every earlier row.
LEMMA AppendRow ==
    ASSUME NEW S, NEW s \in Seq(S), NEW e \in S
    PROVE  /\ Append(s, e) \in Seq(S)
           /\ DOMAIN Append(s, e) = DOMAIN s \cup {Len(s) + 1}
           /\ Len(s) + 1 \notin DOMAIN s
           /\ Append(s, e)[Len(s) + 1] = e
           /\ \A j \in DOMAIN s : Append(s, e)[j] = s[j]
<1>1. /\ Len(s) \in Nat /\ DOMAIN s = 1 .. Len(s)
      /\ Append(s, e) \in Seq(S) /\ Len(Append(s, e)) = Len(s) + 1
      /\ \A j \in 1 .. Len(s) : Append(s, e)[j] = s[j]
      /\ Append(s, e)[Len(s) + 1] = e
  BY LenProperties, AppendProperties
<1>2. DOMAIN Append(s, e) = 1 .. (Len(s) + 1)
  BY <1>1, LenProperties
<1> QED
  BY <1>1, <1>2

-----------------------------------------------------------------------------
(* What one step does to the rows of attempts.                              *)

\* Row r is about the same work as row q.
SameWork(r, q) ==
    /\ r.task = q.task
    /\ r.kind = q.kind
    /\ r.item = q.item
    /\ r.provider = q.provider

\* Rows keep what they were started with, and a row that ended is frozen.
AttemptsKept ==
    \A a \in AttemptIds :
        /\ a \in AttemptIds'
        /\ SameWork(attempts'[a], attempts[a])
        /\ attempts[a].status # "running" => attempts'[a] = attempts[a]

\* Ending a row replaces that row only.
LEMMA FinishRowEffect ==
    ASSUME attempts \in Seq(Attempt),
           NEW a \in AttemptIds, NEW result \in AttemptStatus,
           NEW summary \in Summary,
           NEW evidence \in Evidence,
           FinishRow(a, result, summary, evidence)
    PROVE  /\ attempts' \in Seq(Attempt)
           /\ AttemptIds' = AttemptIds
           /\ \A b \in AttemptIds : b # a => attempts'[b] = attempts[b]
           /\ attempts[a].status = "running"
           /\ SameWork(attempts'[a], attempts[a])
           /\ attempts'[a].status = result
           /\ attempts'[a].evidence = evidence
           /\ attempts'[a].pid = "null"
<1> DEFINE row == [attempts[a] EXCEPT !.status = result, !.summary = summary,
                                      !.evidence = evidence, !.pid = "null"]
<1>1. attempts[a] \in Attempt
  BY ElementOfSeq, LenProperties DEF AttemptIds
<1>2. row \in Attempt
  BY <1>1 DEF Attempt
<1>3. attempts' = [attempts EXCEPT ![a] = row]
  BY DEF FinishRow
<1>4. attempts[a].status = "running"
  BY DEF FinishRow
<1> HIDE DEF row
<1>5. /\ attempts' \in Seq(Attempt)
      /\ AttemptIds' = AttemptIds
      /\ attempts'[a] = row
      /\ \A b \in AttemptIds : b # a => attempts'[b] = attempts[b]
  BY <1>2, <1>3, ReplaceRow DEF AttemptIds
<1>6. SameWork(row, attempts[a]) /\ row.status = result /\ row.evidence = evidence
      /\ row.pid = "null"
  BY <1>1, <1>4 DEF row, Attempt, SameWork
<1> QED
  BY <1>4, <1>5, <1>6

\* Recording a process touches the pid of one running row only.
LEMMA SetProcessEffect ==
    ASSUME attempts \in Seq(Attempt),
           NEW c \in Clients, NEW a \in AttemptIds, SetAttemptProcess(c, a)
    PROVE  /\ attempts' \in Seq(Attempt)
           /\ AttemptIds' = AttemptIds
           /\ \A b \in AttemptIds : b # a => attempts'[b] = attempts[b]
           /\ attempts[a].status = "running"
           /\ SameWork(attempts'[a], attempts[a])
           /\ attempts'[a].status = "running"
<1> DEFINE row == [attempts[a] EXCEPT !.pid = "set"]
<1>1. attempts[a] \in Attempt
  BY ElementOfSeq, LenProperties DEF AttemptIds
<1>2. row \in Attempt
  BY <1>1 DEF Attempt
<1>3. attempts' = [attempts EXCEPT ![a] = row]
  BY DEF SetAttemptProcess
<1>4. attempts[a].status = "running"
  BY DEF SetAttemptProcess
<1> HIDE DEF row
<1>5. /\ attempts' \in Seq(Attempt)
      /\ AttemptIds' = AttemptIds
      /\ attempts'[a] = row
      /\ \A b \in AttemptIds : b # a => attempts'[b] = attempts[b]
  BY <1>2, <1>3, ReplaceRow DEF AttemptIds
<1>6. SameWork(row, attempts[a]) /\ row.status = "running"
  BY <1>1, <1>4 DEF row, Attempt, SameWork
<1> QED
  BY <1>4, <1>5, <1>6

\* Starting appends one running row and leaves the others alone.
LEMMA StartEffect ==
    ASSUME attempts \in Seq(Attempt),
           NEW c \in Clients, NEW t \in Tasks, NEW k \in AttemptKind,
           NEW i \in WorkItems, NEW p \in Providers, StartAttempt(c, t, k, i, p)
    PROVE  /\ attempts' \in Seq(Attempt)
           /\ AttemptIds' = AttemptIds \cup {Len(attempts) + 1}
           /\ Len(attempts) + 1 \notin AttemptIds
           /\ \A b \in AttemptIds : attempts'[b] = attempts[b]
           /\ attempts'[Len(attempts) + 1].task = t
           /\ attempts'[Len(attempts) + 1].kind = k
           /\ attempts'[Len(attempts) + 1].item = i
           /\ attempts'[Len(attempts) + 1].status = "running"
           /\ attempts'[Len(attempts) + 1].pid = "null"
<1> DEFINE row == [task |-> t, kind |-> k, item |-> i, provider |-> p,
                   status |-> "running", summary |-> "", evidence |-> "none",
                   pid |-> "null"]
<1>1. row \in Attempt
  BY DEF Attempt, AttemptStatus, Summary, Evidence
<1>2. attempts' = Append(attempts, row)
  BY DEF StartAttempt
<1> HIDE DEF row
<1>3. /\ Append(attempts, row) \in Seq(Attempt)
      /\ DOMAIN Append(attempts, row) = DOMAIN attempts \cup {Len(attempts) + 1}
      /\ Len(attempts) + 1 \notin DOMAIN attempts
      /\ Append(attempts, row)[Len(attempts) + 1] = row
      /\ \A j \in DOMAIN attempts : Append(attempts, row)[j] = attempts[j]
  BY <1>1, AppendRow
<1>4. /\ row.task = t /\ row.kind = k /\ row.item = i
      /\ row.status = "running" /\ row.pid = "null"
  BY DEF row
<1> QED
  BY <1>2, <1>3, <1>4 DEF AttemptIds


-----------------------------------------------------------------------------
(* The state of a call.                                                     *)

\* The operation a client is in tells which record it remembers.
LEMMA CallByOp ==
    ASSUME NEW k \in Call
    PROVE  /\ k.op = "review" => k \in ReviewCall
           /\ k.op = "complete" => k \in CompleteCall
           /\ k.op = "reconcile" => k \in ReconcileCall
           /\ k.op = "settle" => k \in SettleCall
BY DEF Call, NoCall, ReviewCall, CompleteCall, ReconcileCall, SettleCall

LEMMA BecomeType ==
    ASSUME call \in [Clients -> Call], NEW c \in Clients, NEW k \in Call,
           Become(c, k)
    PROVE  /\ call' \in [Clients -> Call]
           /\ call'[c] = k
           /\ \A d \in Clients : d # c => call'[d] = call[d]
BY DEF Become

\* Every call that settles tasks is one of Call.
LEMMA SettlingType ==
    ASSUME NEW rest \in SUBSET Tasks, NEW affected \in SUBSET Tasks,
           NEW k \in Settling(rest, affected)
    PROVE  k \in Call
<1>1. CASE rest = {}
  BY <1>1 DEF Settling, Call
<1>2. CASE rest # {}
  <2>1. PICK t \in rest :
            k = [op |-> "settle", task |-> t, step |-> "status",
                 rest |-> rest \ {t}, affected |-> affected]
    BY <1>2 DEF Settling
  <2>2. k \in SettleCall
    BY <2>1 DEF SettleCall
  <2> QED
    BY <2>2 DEF Call
<1> QED
  BY <1>1, <1>2

-----------------------------------------------------------------------------
(* Type correctness.                                                        *)

LEMMA AttemptIdsAreNat ==
    ASSUME attempts \in Seq(Attempt)
    PROVE  AttemptIds \subseteq Nat
BY LenProperties DEF AttemptIds

\* Moving on from a row of a reconciliation stays in the type of calls.
LEMMA NextRowType ==
    ASSUME TypeOK, NEW c \in Clients, call[c].op = "reconcile", NEW a,
           NEW affected \in SUBSET Tasks, NextRow(c, a, affected)
    PROVE  call' \in [Clients -> Call]
<1>1. call \in [Clients -> Call] /\ call[c] \in ReconcileCall
  BY CallByOp DEF TypeOK
<1> DEFINE rest == call[c].todo \ {a}
           next == [call[c] EXCEPT !.todo = rest, !.affected = affected]
<1>2. CASE rest = {}
  <2>1. PICK k \in Settling(affected, affected) : Become(c, k)
    BY <1>2 DEF NextRow
  <2> QED
    BY <1>1, <2>1, SettlingType, BecomeType
<1>3. CASE rest # {}
  <2>1. next \in ReconcileCall
    BY <1>1 DEF ReconcileCall
  <2>2. next \in Call /\ Become(c, next)
    BY <1>3, <2>1 DEF NextRow, Call
  <2> QED
    BY <1>1, <2>2, BecomeType
<1> QED
  BY <1>2, <1>3

LEMMA SettleNextType ==
    ASSUME TypeOK, NEW c \in Clients, call[c].op = "settle", SettleNext(c)
    PROVE  call' \in [Clients -> Call]
<1>1. call \in [Clients -> Call] /\ call[c] \in SettleCall
  BY CallByOp DEF TypeOK
<1>2. /\ call[c].rest \in SUBSET Tasks /\ call[c].affected \in SUBSET Tasks
  BY <1>1 DEF SettleCall
<1>3. PICK k \in Settling(call[c].rest, call[c].affected) : Become(c, k)
  BY DEF SettleNext
<1> QED
  BY <1>1, <1>2, <1>3, SettlingType, BecomeType

\* A move of a task keeps the types of tasks and events.
LEMMA MoveTaskType ==
    ASSUME TypeOK, NEW t \in Tasks,
           NEW from \in TaskStatus \cup {"absent"},
           NEW to \in TaskStatus, MoveTask(t, from, to)
    PROVE  /\ status' \in [Tasks -> TaskStatus \cup {"absent"}]
           /\ audit' \in [Tasks -> Event]
<1>1. [from |-> from, to |-> to] \in Event
  BY DEF Event
<1> QED
  BY <1>1 DEF TypeOK, MoveTask

\* The conjuncts of TypeOK a step of attempts can disturb.
AttemptsOK ==
    /\ attempts \in Seq(Attempt)
    /\ \A a \in AttemptIds : attempts[a].pid = "set" => attempts[a].status = "running"

LEMMA FinishRowOK ==
    ASSUME TypeOK, NEW a \in AttemptIds,
           NEW result \in AttemptStatus, NEW summary \in Summary,
           NEW evidence \in Evidence, FinishRow(a, result, summary, evidence)
    PROVE  AttemptsOK' /\ AttemptIds' = AttemptIds
<1>1. /\ attempts' \in Seq(Attempt)
      /\ AttemptIds' = AttemptIds
      /\ \A b \in AttemptIds : b # a => attempts'[b] = attempts[b]
      /\ attempts[a].status = "running"
      /\ attempts'[a].pid = "null"
  <2>1. attempts \in Seq(Attempt)
    BY DEF TypeOK
  <2> QED
    BY <2>1, FinishRowEffect
<1> QED
  BY <1>1 DEF AttemptsOK, TypeOK

LEMMA SetProcessOK ==
    ASSUME TypeOK, NEW c \in Clients, NEW a \in AttemptIds, SetAttemptProcess(c, a)
    PROVE  AttemptsOK' /\ AttemptIds' = AttemptIds
<1>1. /\ attempts' \in Seq(Attempt)
      /\ AttemptIds' = AttemptIds
      /\ \A b \in AttemptIds : b # a => attempts'[b] = attempts[b]
      /\ attempts'[a].status = "running"
  BY SetProcessEffect DEF TypeOK
<1> QED
  BY <1>1 DEF AttemptsOK, TypeOK

LEMMA StartOK ==
    ASSUME TypeOK, NEW c \in Clients, NEW t \in Tasks, NEW k \in AttemptKind,
           NEW i \in WorkItems, NEW p \in Providers, StartAttempt(c, t, k, i, p)
    PROVE  AttemptsOK' /\ AttemptIds \subseteq AttemptIds'
<1>1. /\ attempts' \in Seq(Attempt)
      /\ AttemptIds' = AttemptIds \cup {Len(attempts) + 1}
      /\ Len(attempts) + 1 \notin AttemptIds
      /\ \A b \in AttemptIds : attempts'[b] = attempts[b]
      /\ attempts'[Len(attempts) + 1].pid = "null"
  <2>1. attempts \in Seq(Attempt)
    BY DEF TypeOK
  <2> QED
    BY <2>1, StartEffect
<1> QED
  BY <1>1 DEF AttemptsOK, TypeOK

LEMMA InsertReviewOK ==
    ASSUME TypeOK, NEW c \in Clients, InsertReview(c)
    PROVE  /\ reviews' \in Seq(Review)
           /\ ReviewIds' = ReviewIds \cup {Len(reviews) + 1}
           /\ \A r \in ReviewIds : reviews'[r] = reviews[r]
           /\ reviews'[Len(reviews) + 1] = call[c].review
           /\ call[c].review \in Review
           /\ call' \in [Clients -> Call]
<1>1. call[c] \in ReviewCall /\ NoCall \in Call
  BY CallByOp DEF InsertReview, TypeOK, Call
<1>2. call[c].review \in Review
  BY <1>1 DEF ReviewCall
<1>3. reviews' = Append(reviews, call[c].review) /\ reviews \in Seq(Review)
  BY DEF InsertReview, TypeOK
<1>4. Become(c, NoCall) /\ call \in [Clients -> Call]
  BY DEF InsertReview, TypeOK
<1>5. call' \in [Clients -> Call]
  BY <1>1, <1>4, BecomeType
<1>6. /\ reviews' \in Seq(Review)
      /\ DOMAIN reviews' = DOMAIN reviews \cup {Len(reviews) + 1}
      /\ reviews'[Len(reviews) + 1] = call[c].review
      /\ \A j \in DOMAIN reviews : reviews'[j] = reviews[j]
  BY <1>2, <1>3, AppendRow
<1> QED
  BY <1>2, <1>5, <1>6 DEF ReviewIds

\* TypeOK holds initially and every step of the ledger keeps it.
LEMMA TypeInit == Init => TypeOK
<1> SUFFICES ASSUME Init PROVE TypeOK
  OBVIOUS
<1>1. DOMAIN <<>> = {} /\ <<>> \in Seq(Attempt) /\ <<>> \in Seq(Review)
  BY EmptySeq, LenProperties
<1>2. NoCall \in Call
  BY DEF Call
<1>3. [from |-> "absent", to |-> "absent"] \in Event
  BY DEF Event
<1> QED
  BY <1>1, <1>2, <1>3 DEF Init, TypeOK, AttemptIds, ReviewIds

LEMMA TypeNext == TypeOK /\ [Next]_vars => TypeOK'
<1> SUFFICES ASSUME TypeOK, [Next]_vars PROVE TypeOK'
  OBVIOUS
<1>ids. AttemptIds \subseteq Nat
  BY AttemptIdsAreNat DEF TypeOK
<1>none. NoCall \in Call
  BY DEF Call
\* A client that only moves on in its call.
<1>call. ASSUME NEW c \in Clients, NEW k \in Call, Become(c, k),
                UNCHANGED <<ledger, live>>, clock' \in Nat
         PROVE  TypeOK'
  <2>1. call' \in [Clients -> Call]
    BY <1>call, BecomeType DEF TypeOK
  <2> QED
    BY <1>call, <2>1 DEF TypeOK, ledger, AttemptIds, ReviewIds
\* A task moves; the client is idle or moves on.
<1>move. ASSUME NEW t \in Tasks, NEW from \in TaskStatus \cup {"absent"},
                NEW to \in TaskStatus, MoveTask(t, from, to),
                call' \in [Clients -> Call],
                UNCHANGED <<attempts, reviews, live, clock>>
         PROVE  TypeOK'
  <2>1. /\ status' \in [Tasks -> TaskStatus \cup {"absent"}]
        /\ audit' \in [Tasks -> Event]
    BY <1>move, MoveTaskType
  <2> QED
    BY <1>move, <2>1 DEF TypeOK, AttemptIds, ReviewIds
\* A row of attempts is started, updated or ended.
<1>row. ASSUME AttemptsOK', AttemptIds \subseteq AttemptIds',
               live' \subseteq AttemptIds', call' \in [Clients -> Call],
               UNCHANGED <<status, reviews, audit, clock>>
        PROVE  TypeOK'
  BY <1>row DEF TypeOK, AttemptsOK, ReviewIds
<1>1. ASSUME NEW c \in Clients, TaskStep(c) PROVE TypeOK'
  <2>1. PICK t \in Tasks :
            \/ CreateTask(c, t)
            \/ \E target \in TaskStatus : TransitionTask(c, t, target)
            \/ CancelTask(c, t)
    BY <1>1 DEF TaskStep
  <2>0. status[t] \in TaskStatus \cup {"absent"} /\ call \in [Clients -> Call]
    BY DEF TypeOK
  <2>2. CASE CreateTask(c, t)
    BY <2>2, <2>0, <1>move DEF CreateTask, TaskStatus
  <2>3. ASSUME NEW target \in TaskStatus, TransitionTask(c, t, target)
        PROVE  TypeOK'
    BY <2>3, <2>0, <1>move DEF TransitionTask
  <2>4. CASE CancelTask(c, t)
    BY <2>4, <2>0, <1>move DEF CancelTask, MayCancel, TaskStatus
  <2> QED
    BY <2>1, <2>2, <2>3, <2>4
<1>2. ASSUME NEW c \in Clients, AttemptStep(c) PROVE TypeOK'
  <2>0. live \subseteq AttemptIds /\ call \in [Clients -> Call]
    BY DEF TypeOK
  <2>1. ASSUME NEW t \in Tasks, NEW k \in AttemptKind, NEW i \in WorkItems,
               NEW p \in Providers, StartAttempt(c, t, k, i, p)
        PROVE  TypeOK'
    <3>1. AttemptsOK' /\ AttemptIds \subseteq AttemptIds'
      BY <2>1, StartOK
    <3> QED
      BY <2>0, <2>1, <3>1, <1>row DEF StartAttempt
  <2>2. ASSUME NEW a \in AttemptIds, NEW result \in AttemptStatus,
               NEW e \in Evidence, FinishAttempt(c, a, result, e)
        PROVE  TypeOK'
    <3>1. PICK evidence \in Evidence : FinishRow(a, result, "work", evidence)
      BY <2>2 DEF FinishAttempt, Evidence
    <3>2. AttemptsOK' /\ AttemptIds' = AttemptIds
      BY <3>1, FinishRowOK DEF Summary
    <3> QED
      BY <2>0, <2>2, <3>2, <1>row DEF FinishAttempt
  <2>3. ASSUME NEW a \in AttemptIds, SetAttemptProcess(c, a) PROVE TypeOK'
    <3>1. AttemptsOK' /\ AttemptIds' = AttemptIds
      BY <2>3, SetProcessOK
    <3> QED
      BY <2>0, <2>3, <3>1, <1>row DEF SetAttemptProcess
  <2> QED
    BY <1>2, <2>1, <2>2, <2>3 DEF AttemptStep
<1>3. ASSUME NEW c \in Clients, ReviewStep(c) PROVE TypeOK'
  <2>1. ASSUME NEW t \in Tasks, NEW a \in AttemptIds, NEW p \in Providers,
               NEW v \in Verdict, NEW e \in Evidence, BuildReview(c, t, a, p, v, e)
        PROVE  TypeOK'
    <3> DEFINE review == [task |-> t, attempt |-> a, provider |-> p,
                          verdict |-> v,
                          evidence |-> IF v = "approve" THEN e ELSE "none",
                          at |-> clock + 1]
    <3>1. clock + 1 \in Nat /\ clock' = clock + 1
      BY <2>1 DEF TypeOK, BuildReview
    <3>2. review \in Review
      BY <1>ids, <3>1 DEF Review, Evidence
    <3>3. Become(c, [op |-> "review", review |-> review])
      BY <2>1 DEF BuildReview
    <3> HIDE DEF review
    <3>4. [op |-> "review", review |-> review] \in Call
      BY <3>2 DEF Call, ReviewCall
    <3> QED
      BY <2>1, <3>1, <3>3, <3>4, <1>call DEF BuildReview
  <2>2. CASE InsertReview(c)
    <3>1. /\ reviews' \in Seq(Review)
          /\ ReviewIds' = ReviewIds \cup {Len(reviews) + 1}
          /\ \A r \in ReviewIds : reviews'[r] = reviews[r]
          /\ reviews'[Len(reviews) + 1] = call[c].review
          /\ call' \in [Clients -> Call]
      BY <2>2, InsertReviewOK
    <3> QED
      BY <2>2, <3>1 DEF InsertReview, TypeOK, AttemptIds
  <2> QED
    BY <1>3, <2>1, <2>2 DEF ReviewStep
<1>4. ASSUME NEW c \in Clients, CompleteStep(c) PROVE TypeOK'
  <2>k. call \in [Clients -> Call] /\ clock \in Nat
    BY DEF TypeOK
  <2>c. AtComplete(c, "running") \/ AtComplete(c, "latest") \/ AtComplete(c, "reviews")
            => call[c] \in CompleteCall
    BY <2>k, CallByOp DEF AtComplete
  <2>1. ASSUME NEW t \in Tasks, CompleteBegin(c, t) PROVE TypeOK'
    <3>1. [op |-> "complete", task |-> t, step |-> "running", todo |-> {}] \in Call
      BY DEF Call, CompleteCall
    <3> QED
      BY <2>1, <2>k, <3>1, <1>call DEF CompleteBegin, ledger
  <2>2. CASE CompleteNoneRunning(c)
    <3>1. [call[c] EXCEPT !.step = "latest"] \in CompleteCall
      BY <2>2, <2>c DEF CompleteNoneRunning, CompleteCall
    <3> QED
      BY <2>2, <2>k, <3>1, <1>call DEF CompleteNoneRunning, Call
  <2>3. CASE CompleteLatest(c)
    <3>1. LatestAttempts(call[c].task) \in SUBSET Nat
      BY <1>ids DEF LatestAttempts, Implementations
    <3>2. [call[c] EXCEPT !.step = "reviews",
                          !.todo = LatestAttempts(call[c].task)] \in CompleteCall
      BY <2>3, <2>c, <3>1 DEF CompleteLatest, CompleteCall
    <3> QED
      BY <2>3, <2>k, <3>2, <1>call DEF CompleteLatest, Call
  <2>4. ASSUME NEW a \in AttemptIds, CompleteCheck(c, a) PROVE TypeOK'
    <3>1. [call[c] EXCEPT !.todo = @ \ {a}] \in CompleteCall
      BY <2>4, <2>c DEF CompleteCheck, CompleteCall
    <3> QED
      BY <2>4, <2>k, <3>1, <1>call DEF CompleteCheck, Call
  <2>5. CASE CompleteCommit(c)
    <3>1. call[c].task \in Tasks
      BY <2>5, <2>c DEF CompleteCommit, CompleteCall
    <3>2. call' \in [Clients -> Call]
      BY <2>5, <2>k, <1>none, BecomeType DEF CompleteCommit
    <3> QED
      BY <2>5, <3>1, <3>2, <1>move DEF CompleteCommit, TaskStatus
  <2> QED
    BY <1>4, <2>1, <2>2, <2>3, <2>4, <2>5 DEF CompleteStep
<1>5. ASSUME NEW c \in Clients, ReconcileStep(c) PROVE TypeOK'
  <2>k. call \in [Clients -> Call] /\ clock \in Nat /\ live \subseteq AttemptIds
    BY DEF TypeOK
  <2>1. ASSUME NEW force \in BOOLEAN, ReconcileBegin(c, force) PROVE TypeOK'
    <3> DEFINE rows == {a \in AttemptIds : attempts[a].status = "running"}
               next == [op |-> "reconcile", force |-> force, todo |-> rows,
                        pids |-> {a \in rows : attempts[a].pid = "set"},
                        affected |-> {}]
    <3>1. next \in Call
      BY <1>ids DEF Call, ReconcileCall
    <3>2. Become(c, next) /\ UNCHANGED <<ledger, live, clock>>
      BY <2>1 DEF ReconcileBegin
    <3> QED
      BY <2>k, <3>1, <3>2, <1>call
  <2>2. ASSUME NEW a \in AttemptIds, ReconcileSkip(c, a) PROVE TypeOK'
    <3>1. call[c] \in ReconcileCall
      BY <2>2, <2>k, CallByOp DEF ReconcileSkip, AtRow
    <3>2. call' \in [Clients -> Call]
      BY <2>2, <3>1, NextRowType DEF ReconcileSkip, AtRow, ReconcileCall
    <3> QED
      BY <2>2, <3>2 DEF ReconcileSkip, ledger, TypeOK, AttemptIds
  <2>3. ASSUME NEW a \in AttemptIds, ReconcileFail(c, a) PROVE TypeOK'
    <3>1. call[c] \in ReconcileCall /\ attempts[a] \in Attempt
      BY <2>3, <2>k, CallByOp, ElementOfSeq, LenProperties
         DEF ReconcileFail, AtRow, TypeOK, AttemptIds
    <3>2. call[c].affected \cup {attempts[a].task} \in SUBSET Tasks
      BY <3>1 DEF ReconcileCall, Attempt
    <3>3. call' \in [Clients -> Call]
      BY <2>3, <3>2, NextRowType DEF ReconcileFail, AtRow
    <3>4. CASE FinishRow(a, "failed", Reason(call[c].force), "none")
      <4>1. Reason(call[c].force) \in Summary
        BY DEF Reason, Summary
      <4>2. AttemptsOK' /\ AttemptIds' = AttemptIds
        BY <3>4, <4>1, FinishRowOK DEF AttemptStatus, Evidence
      <4> QED
        BY <2>3, <2>k, <3>3, <4>2, <1>row DEF ReconcileFail
    <3>5. CASE UNCHANGED attempts
      BY <2>3, <3>3, <3>5 DEF ReconcileFail, TypeOK, AttemptIds
    <3> QED
      BY <2>3, <3>4, <3>5 DEF ReconcileFail
  <2>4. ASSUME Settle(c) PROVE TypeOK'
    <3>1. call[c] \in SettleCall /\ call[c].op = "settle"
      BY <2>4, <2>k, CallByOp
         DEF Settle, SettleStatus, SettleRunning, SettleTransition, AtSettle
    <3>2. ASSUME NEW step \in {"running", "transition"},
                 Become(c, [call[c] EXCEPT !.step = step])
          PROVE  call' \in [Clients -> Call]
      <4>1. [call[c] EXCEPT !.step = step] \in SettleCall
        BY <3>1 DEF SettleCall
      <4> QED
        BY <2>k, <3>2, <4>1, BecomeType DEF Call
    <3>3. SettleNext(c) => call' \in [Clients -> Call]
      BY <3>1, SettleNextType
    <3>4. CASE SettleStatus(c) \/ SettleRunning(c)
      <4>1. call' \in [Clients -> Call]
        BY <3>2, <3>3, <3>4 DEF SettleStatus, SettleRunning
      <4> QED
        BY <3>4, <4>1 DEF SettleStatus, SettleRunning, ledger, TypeOK, AttemptIds
    <3>5. CASE SettleTransition(c)
      <4>1. call[c].task \in Tasks /\ call' \in [Clients -> Call]
        BY <3>1, <3>3, <3>5 DEF SettleTransition, SettleCall
      <4>2. status[call[c].task] \in TaskStatus \cup {"absent"}
        BY <4>1 DEF TypeOK
      <4>3. CASE MoveTask(call[c].task, status[call[c].task], "failed")
        BY <3>5, <4>1, <4>2, <4>3, <1>move DEF SettleTransition, TaskStatus
      <4>4. CASE UNCHANGED <<status, audit>>
        BY <3>5, <4>1, <4>4 DEF SettleTransition, TypeOK, AttemptIds
      <4> QED
        BY <3>5, <4>3, <4>4 DEF SettleTransition
    <3> QED
      BY <2>4, <3>4, <3>5 DEF Settle
  <2> QED
    BY <1>5, <2>1, <2>2, <2>3, <2>4 DEF ReconcileStep
<1>6. ASSUME NEW c \in Clients, Abandon(c) PROVE TypeOK'
  BY <1>6, <1>none, <1>call DEF Abandon, TypeOK
<1>7. ASSUME NEW a \in AttemptIds, ProcessExits(a) PROVE TypeOK'
  BY <1>7 DEF ProcessExits, ledger, TypeOK, AttemptIds
<1>8. CASE UNCHANGED vars
  BY <1>8 DEF vars, TypeOK, AttemptIds
<1> QED
  BY <1>1, <1>2, <1>3, <1>4, <1>5, <1>6, <1>7, <1>8 DEF Next, ClientStep

\* Every row and every call of the ledger keeps its type.
THEOREM TypeCorrect == Spec => []TypeOK
  BY TypeInit, TypeNext, PTL DEF Spec

-----------------------------------------------------------------------------
(* What a step may do to each table.                                        *)

ReviewsKept ==
    \A r \in ReviewIds : r \in ReviewIds' /\ reviews'[r] = reviews[r]

\* A step replaces one running row by a row about the same work.
RowUpdated(a) ==
    /\ AttemptIds' = AttemptIds
    /\ attempts[a].status = "running"
    /\ SameWork(attempts'[a], attempts[a])
    /\ attempts'[a].status = "succeeded" => attempts'[a].evidence = "some"
    /\ \A b \in AttemptIds : b # a => attempts'[b] = attempts[b]

LEMMA StepOfAttempts ==
    ASSUME TypeOK, [Next]_vars
    PROVE  \/ UNCHANGED attempts
           \/ /\ UNCHANGED <<status, reviews>>
              /\ \E a \in AttemptIds : RowUpdated(a)
           \/ \E c \in Clients, t \in Tasks, k \in AttemptKind, i \in WorkItems,
                 p \in Providers : StartAttempt(c, t, k, i, p)
<1>0. attempts \in Seq(Attempt)
  BY DEF TypeOK
<1>1. ASSUME NEW a \in AttemptIds, NEW result \in AttemptStatus,
             NEW summary \in Summary, NEW evidence \in Evidence,
             result = "succeeded" => evidence = "some",
             FinishRow(a, result, summary, evidence)
      PROVE  RowUpdated(a)
  BY <1>0, <1>1, FinishRowEffect DEF RowUpdated
<1>2. ASSUME NEW c \in Clients, NEW a \in AttemptIds, NEW result \in AttemptStatus,
             NEW e \in Evidence, FinishAttempt(c, a, result, e)
      PROVE  RowUpdated(a) /\ UNCHANGED <<status, reviews>>
  <2>1. PICK evidence \in Evidence :
            /\ FinishRow(a, result, "work", evidence)
            /\ result = "succeeded" => evidence = "some"
    BY <1>2 DEF FinishAttempt, Evidence
  <2> QED
    BY <1>1, <1>2, <2>1 DEF FinishAttempt, Summary
<1>3. ASSUME NEW c \in Clients, NEW a \in AttemptIds, SetAttemptProcess(c, a)
      PROVE  RowUpdated(a) /\ UNCHANGED <<status, reviews>>
  BY <1>0, <1>3, SetProcessEffect DEF RowUpdated, SetAttemptProcess
<1>4. ASSUME NEW c \in Clients, NEW a \in AttemptIds, ReconcileFail(c, a)
      PROVE  \/ UNCHANGED attempts
             \/ RowUpdated(a) /\ UNCHANGED <<status, reviews>>
  <2>1. Reason(call[c].force) \in Summary /\ "failed" \in AttemptStatus
        /\ "none" \in Evidence
    BY DEF Reason, Summary, AttemptStatus, Evidence
  <2> QED
    BY <1>1, <1>4, <2>1 DEF ReconcileFail
<1>5. ASSUME NEW c \in Clients, AttemptStep(c)
      PROVE  \/ \E t \in Tasks, k \in AttemptKind, i \in WorkItems,
                   p \in Providers : StartAttempt(c, t, k, i, p)
             \/ /\ UNCHANGED <<status, reviews>>
                /\ \E a \in AttemptIds : RowUpdated(a)
  BY <1>2, <1>3, <1>5 DEF AttemptStep
<1>6. ASSUME NEW c \in Clients, TaskStep(c) \/ ReviewStep(c) \/ CompleteStep(c)
                                \/ Settle(c) \/ Abandon(c)
      PROVE  UNCHANGED attempts
  BY <1>6 DEF TaskStep, CreateTask, TransitionTask, CancelTask, MayCancel, ReviewStep,
     BuildReview, InsertReview, CompleteStep, CompleteBegin, CompleteNoneRunning,
     CompleteLatest, CompleteCheck, CompleteCommit, Settle, SettleStatus,
     SettleRunning, SettleTransition, Abandon, ledger
<1>7. ASSUME NEW c \in Clients, ReconcileStep(c)
      PROVE  \/ UNCHANGED attempts
             \/ /\ UNCHANGED <<status, reviews>>
                /\ \E a \in AttemptIds : RowUpdated(a)
  BY <1>4, <1>6, <1>7 DEF ReconcileStep, ReconcileBegin, ReconcileSkip, ledger
<1>8. ASSUME NEW a \in AttemptIds, ProcessExits(a) PROVE UNCHANGED attempts
  BY <1>8 DEF ProcessExits, ledger
<1> QED
  BY <1>5, <1>6, <1>7, <1>8 DEF Next, ClientStep, vars

LEMMA StepOfReviews ==
    ASSUME [Next]_vars
    PROVE  UNCHANGED reviews \/ \E c \in Clients : InsertReview(c)
<1>1. ASSUME NEW c \in Clients, TaskStep(c) \/ AttemptStep(c) \/ Abandon(c)
      PROVE  UNCHANGED reviews
  BY <1>1 DEF TaskStep, CreateTask, TransitionTask, CancelTask, MayCancel, AttemptStep,
     StartAttempt, FinishAttempt, SetAttemptProcess, Abandon, ledger
<1>2. ASSUME NEW c \in Clients, CompleteStep(c) \/ ReconcileStep(c)
      PROVE  UNCHANGED reviews
  BY <1>2 DEF CompleteStep, CompleteBegin, CompleteNoneRunning, CompleteLatest,
     CompleteCheck, CompleteCommit, ReconcileStep, ReconcileBegin, ReconcileSkip,
     ReconcileFail, Settle, SettleStatus, SettleRunning, SettleTransition, ledger
<1>3. ASSUME NEW c \in Clients, ReviewStep(c)
      PROVE  UNCHANGED reviews \/ InsertReview(c)
  BY <1>3 DEF ReviewStep, BuildReview, ledger
<1> QED
  BY <1>1, <1>2, <1>3 DEF Next, ClientStep, ProcessExits, ledger, vars

\* No step removes, reorders or rewrites what ended.
LEMMA RowsKept ==
    ASSUME TypeOK, [Next]_vars
    PROVE  AttemptsKept /\ ReviewsKept
<1>1. AttemptsKept
  <2>1. CASE UNCHANGED attempts
    BY <2>1 DEF AttemptsKept, SameWork, AttemptIds
  <2>2. ASSUME NEW a \in AttemptIds, RowUpdated(a) PROVE AttemptsKept
    BY <2>2 DEF AttemptsKept, RowUpdated, SameWork
  <2>3. ASSUME NEW c \in Clients, NEW t \in Tasks, NEW k \in AttemptKind,
               NEW i \in WorkItems, NEW p \in Providers, StartAttempt(c, t, k, i, p)
        PROVE  AttemptsKept
    <3>1. /\ AttemptIds \subseteq AttemptIds'
          /\ \A b \in AttemptIds : attempts'[b] = attempts[b]
      <4>1. attempts \in Seq(Attempt)
        BY DEF TypeOK
      <4> QED
        BY <2>3, <4>1, StartEffect
    <3> QED
      BY <3>1 DEF AttemptsKept, SameWork
  <2> QED
    BY <2>1, <2>2, <2>3, StepOfAttempts
<1>2. ReviewsKept
  <2>1. CASE UNCHANGED reviews
    BY <2>1 DEF ReviewsKept, ReviewIds
  <2>2. ASSUME NEW c \in Clients, InsertReview(c) PROVE ReviewsKept
    BY <2>2, InsertReviewOK DEF ReviewsKept
  <2> QED
    BY <2>1, <2>2, StepOfReviews
<1> QED
  BY <1>1, <1>2

-----------------------------------------------------------------------------
(* Reviews are about finished, independent work.                            *)

\* What made a review valid stays true: the attempt it names is frozen.
LEMMA IndependentKept ==
    ASSUME AttemptsKept, NEW r, Independent(r)
    PROVE  Independent(r)'
<1>1. /\ r.attempt \in AttemptIds /\ attempts[r.attempt].task = r.task
      /\ attempts[r.attempt].kind = "implementation"
      /\ attempts[r.attempt].status = "succeeded"
  BY DEF Independent, Implementations
<1>2. r.attempt \in AttemptIds' /\ attempts'[r.attempt] = attempts[r.attempt]
  BY <1>1 DEF AttemptsKept
<1> QED
  BY <1>1, <1>2 DEF Independent, Implementations

LEMMA HasApprovalKept ==
    ASSUME AttemptsKept, ReviewsKept, ReviewsAreIndependent, NEW t, HasApproval(t)
    PROVE  HasApproval(t)'
<1>1. PICK r \in ReviewIds : /\ reviews[r].task = t
                             /\ Approves(r)
                             /\ attempts[reviews[r].attempt].status = "succeeded"
  BY DEF HasApproval
<1>2. r \in ReviewIds' /\ reviews'[r] = reviews[r]
  BY DEF ReviewsKept
<1>3. reviews[r].attempt \in AttemptIds
  BY DEF ReviewsAreIndependent, Independent, Implementations
<1>4. attempts'[reviews[r].attempt] = attempts[reviews[r].attempt]
  BY <1>1, <1>3 DEF AttemptsKept
<1> QED
  BY <1>1, <1>2, <1>4 DEF HasApproval, Approves

\* One step does not disturb the reviews, nor the reviews about to be inserted.
LEMMA ReviewsStayIndependent ==
    ASSUME TypeOK, ReviewsAreIndependent, RememberedFactsHold, [Next]_vars
    PROVE  ReviewsAreIndependent'
<1>0. AttemptsKept /\ ReviewsKept
  BY RowsKept
<1>1. \A r \in ReviewIds : Independent(reviews[r])'
  BY <1>0, IndependentKept DEF ReviewsAreIndependent, ReviewsKept
<1>2. CASE UNCHANGED reviews
  BY <1>1, <1>2 DEF ReviewsAreIndependent, ReviewIds
<1>3. ASSUME NEW c \in Clients, InsertReview(c) PROVE ReviewsAreIndependent'
  <2>1. /\ ReviewIds' = ReviewIds \cup {Len(reviews) + 1}
        /\ reviews'[Len(reviews) + 1] = call[c].review
    BY <1>3, InsertReviewOK
  <2>2. PICK n, q : n = Len(reviews) + 1 /\ q = call[c].review
    OBVIOUS
  <2>3. Independent(q)
    BY <1>3, <2>2 DEF RememberedFactsHold, InsertReview
  <2>4. Independent(q)'
    BY <1>0, <2>3, IndependentKept
  <2>5. \A r \in ReviewIds' : r \in ReviewIds \/ (r = n /\ reviews'[r] = q)
    BY <2>1, <2>2
  <2>6. \A r \in ReviewIds' : Independent(reviews[r])'
    BY <1>1, <2>4, <2>5 DEF Independent
  <2> QED
    BY <2>6 DEF ReviewsAreIndependent
<1> QED
  BY <1>2, <1>3, StepOfReviews

-----------------------------------------------------------------------------
(* What the clients remember stays true.                                    *)

\* Client d is not about to insert a review or to close a task.
Uncommitted(d) ==
    call[d].op # "review" /\ (call[d].op = "complete" => call[d].step = "running")

\* Client c alone moves, and what it remembers next is k.
LEMMA OneClientMoves ==
    ASSUME TypeOK, NEW c \in Clients, NEW k \in Call, Become(c, k),
           k.op # "review",
           k.op = "complete" => k.step = "running"
    PROVE  \A d \in Clients : call'[d] = call[d] \/ Uncommitted(d)'
<1>1. \A d \in Clients : d # c => call'[d] = call[d]
  BY BecomeType DEF TypeOK
<1>2. call'[c] = k
  BY BecomeType DEF TypeOK
<1> QED
  BY <1>1, <1>2 DEF Uncommitted

LEMMA SettlingMoves ==
    ASSUME TypeOK, NEW c \in Clients,
           NEW rest \in SUBSET Tasks, NEW affected \in SUBSET Tasks,
           NEW k \in Settling(rest, affected), Become(c, k)
    PROVE  \A d \in Clients : call'[d] = call[d] \/ Uncommitted(d)'
<1>1. k \in Call
  BY SettlingType
<1>2. k.op \in {"none", "settle"}
  BY DEF Settling, NoCall
<1> QED
  BY <1>1, <1>2, OneClientMoves

LEMMA ReconcileMoves ==
    ASSUME TypeOK, NEW c \in Clients, ReconcileStep(c)
    PROVE  \A d \in Clients : call'[d] = call[d] \/ Uncommitted(d)'
<1>0. call \in [Clients -> Call] /\ AttemptIds \subseteq Nat
  BY AttemptIdsAreNat DEF TypeOK
<1>1. ASSUME NEW force \in BOOLEAN, ReconcileBegin(c, force)
      PROVE  \A d \in Clients : call'[d] = call[d] \/ Uncommitted(d)'
  <2> DEFINE rows == {a \in AttemptIds : attempts[a].status = "running"}
             next == [op |-> "reconcile", force |-> force, todo |-> rows,
                      pids |-> {a \in rows : attempts[a].pid = "set"},
                      affected |-> {}]
  <2>1. next \in Call /\ next.op = "reconcile"
    BY <1>0 DEF Call, ReconcileCall
  <2>2. Become(c, next)
    BY <1>1 DEF ReconcileBegin
  <2> HIDE DEF next
  <2> QED
    BY <2>1, <2>2, OneClientMoves
<1>2. ASSUME call[c].op = "reconcile", NEW a, NEW affected \in SUBSET Tasks,
             NextRow(c, a, affected)
      PROVE  \A d \in Clients : call'[d] = call[d] \/ Uncommitted(d)'
  <2> DEFINE rest == call[c].todo \ {a}
             next == [call[c] EXCEPT !.todo = rest, !.affected = affected]
  <2>1. CASE rest = {}
    <3>1. PICK k \in Settling(affected, affected) : Become(c, k)
      BY <1>2, <2>1 DEF NextRow
    <3> QED
      BY <3>1, SettlingMoves
  <2>2. CASE rest # {}
    <3>0. call[c] \in ReconcileCall
      BY <1>0, <1>2, CallByOp
    <3>1. next \in ReconcileCall
      BY <1>2, <3>0 DEF ReconcileCall
    <3>2. next \in Call /\ next.op = "reconcile"
      BY <3>1 DEF Call, ReconcileCall
    <3>3. Become(c, next)
      BY <1>2, <2>2 DEF NextRow
    <3> HIDE DEF next
    <3> QED
      BY <3>2, <3>3, OneClientMoves
  <2> QED
    BY <2>1, <2>2
<1>3. ASSUME NEW a \in AttemptIds, ReconcileSkip(c, a) \/ ReconcileFail(c, a)
      PROVE  \A d \in Clients : call'[d] = call[d] \/ Uncommitted(d)'
  <2>1. call[c].op = "reconcile" /\ call[c] \in ReconcileCall
    BY <1>0, <1>3, CallByOp DEF ReconcileSkip, ReconcileFail, AtRow
  <2>2. attempts[a].task \in Tasks
    <3>1. attempts[a] \in Attempt
      BY ElementOfSeq, LenProperties DEF TypeOK, AttemptIds
    <3> QED
      BY <3>1 DEF Attempt
  <2>3. \E affected \in SUBSET Tasks : NextRow(c, a, affected)
    <3>1. call[c].affected \in SUBSET Tasks
      BY <2>1 DEF ReconcileCall
    <3>2. call[c].affected \cup {attempts[a].task} \in SUBSET Tasks
      BY <2>2, <3>1
    <3> QED
      BY <1>3, <3>1, <3>2 DEF ReconcileSkip, ReconcileFail
  <2> QED
    BY <1>2, <2>1, <2>3
<1>4. ASSUME Settle(c)
      PROVE  \A d \in Clients : call'[d] = call[d] \/ Uncommitted(d)'
  <2>1. call[c] \in SettleCall
    BY <1>0, <1>4, CallByOp
       DEF Settle, SettleStatus, SettleRunning, SettleTransition, AtSettle
  <2>2. CASE SettleNext(c)
    <3>1. call[c].rest \in SUBSET Tasks /\ call[c].affected \in SUBSET Tasks
      BY <2>1 DEF SettleCall
    <3> QED
      BY <2>2, <3>1, SettlingMoves DEF SettleNext
  <2>3. ASSUME NEW step \in {"running", "transition"},
               Become(c, [call[c] EXCEPT !.step = step])
        PROVE  \A d \in Clients : call'[d] = call[d] \/ Uncommitted(d)'
    <3>1. [call[c] EXCEPT !.step = step] \in SettleCall
      BY <2>1 DEF SettleCall
    <3>2. /\ [call[c] EXCEPT !.step = step] \in Call
          /\ [call[c] EXCEPT !.step = step].op = "settle"
      BY <3>1 DEF Call, SettleCall
    <3> QED
      BY <2>3, <3>2, OneClientMoves
  <2> QED
    BY <1>4, <2>2, <2>3 DEF Settle, SettleStatus, SettleRunning, SettleTransition
<1> QED
  BY <1>1, <1>3, <1>4 DEF ReconcileStep

\* Only four steps put a client where it will act on what it remembers.
LEMMA StepOfCalls ==
    ASSUME TypeOK, [Next]_vars
    PROVE  \/ \A d \in Clients : call'[d] = call[d] \/ Uncommitted(d)'
           \/ \E c \in Clients, t \in Tasks, a \in AttemptIds, p \in Providers,
                 v \in Verdict, e \in Evidence : BuildReview(c, t, a, p, v, e)
           \/ \E c \in Clients : CompleteNoneRunning(c)
           \/ \E c \in Clients : CompleteLatest(c)
           \/ \E c \in Clients, a \in AttemptIds : CompleteCheck(c, a)
<1>0. call \in [Clients -> Call] /\ NoCall \in Call /\ NoCall.op = "none"
  BY DEF TypeOK, Call, NoCall
<1>1. ASSUME UNCHANGED call
      PROVE  \A d \in Clients : call'[d] = call[d] \/ Uncommitted(d)'
  BY <1>1
<1>2. ASSUME NEW c \in Clients, Become(c, NoCall)
      PROVE  \A d \in Clients : call'[d] = call[d] \/ Uncommitted(d)'
  BY <1>0, <1>2, OneClientMoves
<1>3. ASSUME NEW c \in Clients, NEW t \in Tasks, CompleteBegin(c, t)
      PROVE  \A d \in Clients : call'[d] = call[d] \/ Uncommitted(d)'
  <2> DEFINE next == [op |-> "complete", task |-> t, step |-> "running",
                      todo |-> {}]
  <2>1. next \in Call /\ next.op = "complete" /\ next.step = "running"
    BY DEF Call, CompleteCall
  <2>2. Become(c, next)
    BY <1>3 DEF CompleteBegin
  <2> HIDE DEF next
  <2> QED
    BY <2>1, <2>2, OneClientMoves
<1>5. ASSUME NEW c \in Clients, TaskStep(c) \/ AttemptStep(c) PROVE UNCHANGED call
  BY <1>5 DEF TaskStep, CreateTask, TransitionTask, CancelTask, MayCancel, AttemptStep,
     StartAttempt, FinishAttempt, SetAttemptProcess
<1>6. ASSUME NEW c \in Clients,
             InsertReview(c) \/ CompleteCommit(c) \/ Abandon(c)
      PROVE  Become(c, NoCall)
  BY <1>6 DEF InsertReview, CompleteCommit, Abandon
<1> QED
  BY <1>1, <1>2, <1>3, <1>5, <1>6, ReconcileMoves
     DEF Next, ClientStep, ReviewStep, CompleteStep, ProcessExits, vars

\* finish_attempt accepts success only with evidence.
SuccessHasEvidence ==
    \A a \in AttemptIds :
        attempts[a].status = "succeeded" => attempts[a].evidence = "some"

LEMMA SuccessKeepsEvidence ==
    ASSUME TypeOK, SuccessHasEvidence, [Next]_vars
    PROVE  SuccessHasEvidence'
<1>1. CASE UNCHANGED attempts
  BY <1>1 DEF SuccessHasEvidence, AttemptIds
<1>2. ASSUME NEW a \in AttemptIds, RowUpdated(a) PROVE SuccessHasEvidence'
  BY <1>2 DEF SuccessHasEvidence, RowUpdated
<1>3. ASSUME NEW c \in Clients, NEW t \in Tasks, NEW k \in AttemptKind,
             NEW i \in WorkItems, NEW p \in Providers, StartAttempt(c, t, k, i, p)
      PROVE  SuccessHasEvidence'
  <2>1. attempts \in Seq(Attempt)
    BY DEF TypeOK
  <2>2. /\ AttemptIds' = AttemptIds \cup {Len(attempts) + 1}
        /\ \A b \in AttemptIds : attempts'[b] = attempts[b]
        /\ attempts'[Len(attempts) + 1].status = "running"
    BY <1>3, <2>1, StartEffect
  <2> QED
    BY <2>2 DEF SuccessHasEvidence
<1> QED
  BY <1>1, <1>2, <1>3, StepOfAttempts

\* What client d remembers is true.
RememberedBy(d) ==
    /\ call[d].op = "review" => Independent(call[d].review)
    /\ AtComplete(d, "reviews") =>
        /\ \A a \in call[d].todo :
            a \in AttemptIds /\ attempts[a].task = call[d].task
        /\ call[d].todo = {} => HasApproval(call[d].task)

\* A client that does not move keeps true memories, whatever the others do.
LEMMA MemoryKept ==
    ASSUME TypeOK, ReviewsAreIndependent, AttemptsKept, ReviewsKept,
           NEW d \in Clients, RememberedBy(d), call'[d] = call[d]
    PROVE  RememberedBy(d)'
<1>1. PICK k : k = call[d]
  OBVIOUS
<1>2. k.op = "review" => Independent(k.review)'
  BY <1>1, IndependentKept DEF RememberedBy
<1>3. ASSUME k.op = "complete", k.step = "reviews"
      PROVE  /\ \A a \in k.todo : a \in AttemptIds' /\ attempts'[a].task = k.task
             /\ k.todo = {} => HasApproval(k.task)'
  <2>1. \A a \in k.todo : a \in AttemptIds /\ attempts[a].task = k.task
    BY <1>1, <1>3 DEF RememberedBy, AtComplete
  <2>2. k.todo = {} => HasApproval(k.task)
    BY <1>1, <1>3 DEF RememberedBy, AtComplete
  <2>3. k.todo = {} => HasApproval(k.task)'
    BY <2>2, HasApprovalKept
  <2> QED
    BY <2>1, <2>3 DEF AttemptsKept, SameWork
<1>4. call'[d] = k
  BY <1>1
<1>5. call'[d].op = "review" => Independent(call[d].review)'
  BY <1>2, <1>4 DEF Independent
<1>6. AtComplete(d, "reviews")' =>
        /\ \A a \in call'[d].todo :
            a \in AttemptIds' /\ attempts'[a].task = call'[d].task
        /\ call'[d].todo = {} => HasApproval(call[d].task)'
  BY <1>3, <1>4 DEF AtComplete, HasApproval
<1> QED
  BY <1>5, <1>6 DEF RememberedBy

LEMMA MemoriesStayTrue ==
    ASSUME TypeOK, SuccessHasEvidence, ReviewsAreIndependent, RememberedFactsHold, [Next]_vars
    PROVE  RememberedFactsHold'
<1>0. AttemptsKept /\ ReviewsKept /\ \A d \in Clients : RememberedBy(d)
  BY RowsKept DEF RememberedFactsHold, RememberedBy
<1>call. call \in [Clients -> Call]
  BY DEF TypeOK
<1>kept. \A d \in Clients : call'[d] = call[d] => RememberedBy(d)'
  BY <1>0, MemoryKept
<1>free. \A d \in Clients : Uncommitted(d)' => RememberedBy(d)'
  BY DEF Uncommitted, RememberedBy, AtComplete
<1> SUFFICES \A d \in Clients : RememberedBy(d)'
  BY DEF RememberedFactsHold, RememberedBy
<1>1. CASE \A d \in Clients : call'[d] = call[d] \/ Uncommitted(d)'
  BY <1>1, <1>kept, <1>free
<1>2. ASSUME NEW c \in Clients, NEW t \in Tasks, NEW a \in AttemptIds,
             NEW p \in Providers, NEW v \in Verdict, NEW e \in Evidence,
             BuildReview(c, t, a, p, v, e)
      PROVE  \A d \in Clients : RememberedBy(d)'
  <2> DEFINE review == [task |-> t, attempt |-> a, provider |-> p, verdict |-> v,
                        evidence |-> IF v = "approve" THEN e ELSE "none",
                        at |-> clock + 1]
             next == [op |-> "review", review |-> review]
  <2>1. /\ call' = [call EXCEPT ![c] = next] /\ UNCHANGED attempts
        /\ MayReview(t, a, p, v, e)
    BY <1>2 DEF BuildReview, Become, ledger
  <2>2. call'[c] = next /\ \A d \in Clients : d # c => call'[d] = call[d]
    BY <2>1, <1>call
  <2>3. /\ call'[c].op = "review" /\ call'[c].review.attempt = a
        /\ call'[c].review.task = t /\ call'[c].review.provider = p
        /\ call'[c].review.verdict = v
        /\ v = "approve" => call'[c].review.evidence = e
    BY <2>2
  <2>4. Independent(call[c].review)'
    <3>1. attempts[a].evidence = "some"
      BY <2>1 DEF MayReview, SuccessHasEvidence
    <3> QED
      BY <2>1, <2>3, <3>1 DEF Independent, MayReview, Implementations, AttemptIds
  <2>5. RememberedBy(c)'
    BY <2>3, <2>4 DEF RememberedBy, AtComplete
  <2> QED
    BY <2>2, <2>5, <1>kept
<1>3. ASSUME NEW c \in Clients, CompleteLatest(c)
      PROVE  \A d \in Clients : RememberedBy(d)'
  <2> DEFINE latest == LatestAttempts(call[c].task)
             next == [call[c] EXCEPT !.step = "reviews", !.todo = latest]
  <2>1. /\ call' = [call EXCEPT ![c] = next] /\ UNCHANGED attempts /\ latest # {}
    BY <1>3 DEF CompleteLatest, Become, ledger
  <2>2. call'[c] = next /\ \A d \in Clients : d # c => call'[d] = call[d]
    BY <2>1, <1>call
  <2>3. call[c] \in CompleteCall
    BY <1>3, <1>call, CallByOp DEF CompleteLatest, AtComplete
  <2>4. /\ call'[c].op = "complete" /\ call'[c].todo = latest
        /\ call'[c].task = call[c].task
    BY <2>2, <2>3 DEF CompleteCall
  <2>5. \A a \in latest : a \in AttemptIds /\ attempts[a].task = call[c].task
    BY DEF LatestAttempts, Implementations
  <2>6. RememberedBy(c)'
    BY <2>1, <2>4, <2>5 DEF RememberedBy, AtComplete, AttemptIds
  <2> QED
    BY <2>2, <2>6, <1>kept
<1>4. ASSUME NEW c \in Clients, NEW a \in AttemptIds, CompleteCheck(c, a)
      PROVE  \A d \in Clients : RememberedBy(d)'
  <2> DEFINE next == [call[c] EXCEPT !.todo = @ \ {a}]
  <2>1. /\ call' = [call EXCEPT ![c] = next] /\ UNCHANGED <<attempts, reviews>>
        /\ a \in call[c].todo /\ AtComplete(c, "reviews")
    BY <1>4 DEF CompleteCheck, Become, ledger
  <2>2. call'[c] = next /\ \A d \in Clients : d # c => call'[d] = call[d]
    BY <2>1, <1>call
  <2>3. call[c] \in CompleteCall
    BY <2>1, <1>call, CallByOp DEF AtComplete
  <2>4. /\ call'[c].op = "complete" /\ call'[c].todo = call[c].todo \ {a}
        /\ call'[c].task = call[c].task
    BY <2>2, <2>3 DEF CompleteCall
  <2>5. \A b \in call[c].todo : b \in AttemptIds /\ attempts[b].task = call[c].task
    BY <2>1, <1>0 DEF RememberedBy
  <2>6. PICK r \in ReviewIds : reviews[r].attempt = a /\ Approves(r)
    BY <1>4 DEF CompleteCheck, IsLatestReview, ReviewsOf
  <2>7. HasApproval(call[c].task)
    <3>1. Independent(reviews[r])
      BY DEF ReviewsAreIndependent
    <3>2. reviews[r].task = call[c].task /\ attempts[a].status = "succeeded"
      BY <2>1, <2>5, <2>6, <3>1 DEF Independent, Implementations
    <3> QED
      BY <2>6, <3>2 DEF HasApproval
  <2>8. HasApproval(call[c].task)'
    BY <2>1, <2>4, <2>7 DEF HasApproval, Approves, ReviewIds
  <2>9. RememberedBy(c)'
    BY <2>1, <2>4, <2>5, <2>8 DEF RememberedBy, AtComplete, AttemptIds
  <2> QED
    BY <2>2, <2>9, <1>kept
<1>5. ASSUME NEW c \in Clients, CompleteNoneRunning(c)
      PROVE  \A d \in Clients : RememberedBy(d)'
  <2> DEFINE next == [call[c] EXCEPT !.step = "latest"]
  <2>1. call[c] \in CompleteCall /\ call' = [call EXCEPT ![c] = next]
    BY <1>5, <1>call, CallByOp DEF CompleteNoneRunning, AtComplete, Become
  <2>2. call'[c].op = "complete" /\ call'[c].step = "latest"
    BY <2>1, <1>call DEF CompleteCall
  <2>3. RememberedBy(c)'
    BY <2>2 DEF RememberedBy, AtComplete
  <2> QED
    BY <2>1, <2>3, <1>call, <1>kept
<1> QED
  BY <1>1, <1>2, <1>3, <1>4, <1>5, StepOfCalls

-----------------------------------------------------------------------------
(* The inductive invariant and what follows from it.                        *)

\* What the operation that moves task t to status to has made sure of.
MoveIsChecked(t, to) ==
    \/ status[t] = "absent" /\ to = "queued"
    \/ status[t] = "needs_review" /\ to = "completed" /\ HasApproval(t)
    \/ /\ status[t] # "absent" /\ to \in ValidTransitions[status[t]]
       /\ to # "completed"
       /\ to \in {"blocked", "failed"} => RunningImplementations(t) = {}
       /\ to = "cancelled" =>
            status[t] \in {"queued", "running"} /\ RunningAttempts(t) = {}

LEMMA StepOfTasks ==
    ASSUME TypeOK, RememberedFactsHold, [Next]_vars
    PROVE  \/ UNCHANGED <<status, audit>>
           \/ /\ UNCHANGED <<attempts, reviews>>
              /\ \E t \in Tasks, to \in TaskStatus :
                    MoveTask(t, status[t], to) /\ MoveIsChecked(t, to)
<1>0. call \in [Clients -> Call] /\ status \in [Tasks -> TaskStatus \cup {"absent"}]
  BY DEF TypeOK
<1> DEFINE Moves == /\ UNCHANGED <<attempts, reviews>>
                    /\ \E t \in Tasks, to \in TaskStatus :
                          MoveTask(t, status[t], to) /\ MoveIsChecked(t, to)
<1>1. ASSUME NEW c \in Clients, NEW t \in Tasks, CreateTask(c, t) PROVE Moves
  <2>1. MoveTask(t, status[t], "queued") /\ status[t] = "absent"
    BY <1>1 DEF CreateTask, MoveTask
  <2>2. MoveIsChecked(t, "queued")
    BY <2>1 DEF MoveIsChecked
  <2> QED
    BY <1>1, <2>1, <2>2 DEF CreateTask, TaskStatus
<1>2. ASSUME NEW c \in Clients, NEW t \in Tasks, NEW target \in TaskStatus,
             TransitionTask(c, t, target)
      PROVE  Moves
  <2>1. MoveIsChecked(t, target)
    BY <1>2 DEF TransitionTask, MayTransition, MoveIsChecked
  <2> QED
    BY <1>2, <2>1 DEF TransitionTask
<1>3. ASSUME NEW c \in Clients, NEW t \in Tasks, CancelTask(c, t) PROVE Moves
  <2>1. MoveIsChecked(t, "cancelled")
    BY <1>3 DEF CancelTask, MayCancel, MoveIsChecked, ValidTransitions
  <2> QED
    BY <1>3, <2>1 DEF CancelTask, MayCancel, TaskStatus
<1>4. ASSUME NEW c \in Clients, CompleteCommit(c) PROVE Moves
  <2>1. call[c] \in CompleteCall
    BY <1>0, <1>4, CallByOp DEF CompleteCommit, AtComplete
  <2>2. call[c].task \in Tasks /\ HasApproval(call[c].task)
    BY <1>4, <2>1 DEF CompleteCommit, RememberedFactsHold, CompleteCall
  <2>3. /\ MoveTask(call[c].task, status[call[c].task], "completed")
        /\ status[call[c].task] = "needs_review"
    BY <1>4 DEF CompleteCommit, MoveTask
  <2>4. MoveIsChecked(call[c].task, "completed")
    BY <2>2, <2>3 DEF MoveIsChecked
  <2> QED
    BY <1>4, <2>2, <2>3, <2>4 DEF CompleteCommit, TaskStatus
<1>5. ASSUME NEW c \in Clients, SettleTransition(c)
      PROVE  Moves \/ UNCHANGED <<status, audit>>
  <2>1. call[c] \in SettleCall
    BY <1>0, <1>5, CallByOp DEF SettleTransition, AtSettle
  <2>2. call[c].task \in Tasks
    BY <2>1 DEF SettleCall
  <2>3. CASE /\ MayTransition(call[c].task, "failed")
             /\ MoveTask(call[c].task, status[call[c].task], "failed")
    <3>1. MoveIsChecked(call[c].task, "failed")
      BY <2>3 DEF MayTransition, MoveIsChecked
    <3> QED
      BY <1>5, <2>2, <2>3, <3>1 DEF SettleTransition, TaskStatus
  <2> QED
    BY <1>5, <2>3 DEF SettleTransition
<1> HIDE DEF Moves
<1>6. ASSUME NEW c \in Clients, TaskStep(c) PROVE Moves
  BY <1>1, <1>2, <1>3, <1>6 DEF TaskStep
<1>7. ASSUME NEW c \in Clients, AttemptStep(c) \/ ReviewStep(c) \/ Abandon(c)
      PROVE  UNCHANGED <<status, audit>>
  BY <1>7 DEF AttemptStep, StartAttempt, FinishAttempt, SetAttemptProcess,
     ReviewStep, BuildReview, InsertReview, Abandon, ledger
<1>8. ASSUME NEW c \in Clients, CompleteStep(c)
      PROVE  Moves \/ UNCHANGED <<status, audit>>
  BY <1>4, <1>8 DEF CompleteStep, CompleteBegin, CompleteNoneRunning,
     CompleteLatest, CompleteCheck, ledger
<1>9. ASSUME NEW c \in Clients, ReconcileStep(c)
      PROVE  Moves \/ UNCHANGED <<status, audit>>
  BY <1>5, <1>9 DEF ReconcileStep, ReconcileBegin, ReconcileSkip, ReconcileFail,
     Settle, SettleStatus, SettleRunning, ledger
<1>10. Moves \/ UNCHANGED <<status, audit>>
  BY <1>6, <1>7, <1>8, <1>9 DEF Next, ClientStep, ProcessExits, ledger, vars
<1> QED
  BY <1>10 DEF Moves

\* Everything the proof carries from step to step.
IInv ==
    /\ TypeOK
    /\ AuditIsCurrent
    /\ OneRunningPerItem
    /\ QuietWhenStopped
    /\ SuccessHasEvidence
    /\ ReviewsAreIndependent
    /\ RememberedFactsHold
    /\ CompletedHasApproval

LEMMA AuditStaysCurrent ==
    ASSUME IInv, [Next]_vars
    PROVE  AuditIsCurrent'
<1>1. CASE UNCHANGED <<status, audit>>
  BY <1>1 DEF IInv, AuditIsCurrent
<1>2. ASSUME NEW t \in Tasks, NEW to \in TaskStatus, MoveTask(t, status[t], to)
      PROVE  AuditIsCurrent'
  BY <1>2 DEF IInv, TypeOK, AuditIsCurrent, MoveTask
<1> QED
  BY <1>1, <1>2, StepOfTasks DEF IInv

LEMMA CompletedStaysApproved ==
    ASSUME IInv, [Next]_vars
    PROVE  CompletedHasApproval'
<1>1. AttemptsKept /\ ReviewsKept
  BY RowsKept DEF IInv
<1>2. \A t : HasApproval(t) => HasApproval(t)'
  BY <1>1, HasApprovalKept DEF IInv
<1>3. CASE UNCHANGED <<status, audit>>
  BY <1>2, <1>3 DEF IInv, CompletedHasApproval
<1>4. ASSUME NEW t \in Tasks, NEW to \in TaskStatus, MoveTask(t, status[t], to),
             MoveIsChecked(t, to)
      PROVE  CompletedHasApproval'
  <2>1. \A u \in Tasks : status'[u] = IF u = t THEN to ELSE status[u]
    BY <1>4 DEF MoveTask, IInv, TypeOK
  <2>2. to = "completed" => HasApproval(t)
    BY <1>4 DEF MoveIsChecked
  <2> QED
    BY <1>2, <2>1, <2>2 DEF IInv, CompletedHasApproval
<1> QED
  BY <1>3, <1>4, StepOfTasks DEF IInv

\* Starting, ending and updating rows never makes a stopped task busy.
LEMMA StaysQuiet ==
    ASSUME IInv, [Next]_vars
    PROVE  QuietWhenStopped'
<1>0. /\ attempts \in Seq(Attempt)
      /\ status \in [Tasks -> TaskStatus \cup {"absent"}]
  BY DEF IInv, TypeOK
<1>1. CASE UNCHANGED <<attempts, reviews>>
  <2>0. \A t : /\ RunningAttempts(t)' = RunningAttempts(t)
               /\ RunningImplementations(t)' = RunningImplementations(t)
    BY <1>1 DEF RunningAttempts, RunningImplementations, Implementations, AttemptIds
  <2>1. CASE UNCHANGED <<status, audit>>
    BY <2>0, <2>1 DEF IInv, QuietWhenStopped
  <2>2. ASSUME NEW t \in Tasks, NEW to \in TaskStatus, MoveTask(t, status[t], to),
               MoveIsChecked(t, to)
        PROVE  QuietWhenStopped'
    <3>1. \A u \in Tasks : status'[u] = IF u = t THEN to ELSE status[u]
      BY <2>2, <1>0 DEF MoveTask
    <3>2. to \in {"queued", "blocked", "failed", "cancelled"}
            => RunningImplementations(t) = {}
      <4>1. CASE to = "queued"
        BY <1>0, <2>2, <4>1 DEF MoveIsChecked, ValidTransitions, TaskStatus, IInv,
           QuietWhenStopped
      <4>2. CASE to # "queued"
        BY <2>2, <4>2 DEF MoveIsChecked, RunningImplementations
      <4> QED
        BY <4>1, <4>2
    <3>3. to = "cancelled" => RunningAttempts(t) = {}
      BY <2>2 DEF MoveIsChecked
    <3>4. to # "absent"
      BY DEF TaskStatus
    <3> QED
      BY <2>0, <3>1, <3>2, <3>3, <3>4 DEF IInv, QuietWhenStopped
  <2> QED
    BY <1>1, <2>1, <2>2, StepOfTasks DEF IInv
<1>2. ASSUME NEW a \in AttemptIds, RowUpdated(a), UNCHANGED <<status, reviews>>
      PROVE  QuietWhenStopped'
  <2>1. \A t : /\ RunningAttempts(t)' \subseteq RunningAttempts(t)
               /\ RunningImplementations(t)' \subseteq RunningImplementations(t)
    BY <1>2 DEF RowUpdated, SameWork, RunningAttempts, RunningImplementations,
       Implementations
  <2> QED
    BY <1>2, <2>1 DEF IInv, QuietWhenStopped
<1>3. ASSUME NEW c \in Clients, NEW t \in Tasks, NEW k \in AttemptKind,
             NEW i \in WorkItems, NEW p \in Providers, StartAttempt(c, t, k, i, p)
      PROVE  QuietWhenStopped'
  <2>1. /\ AttemptIds' = AttemptIds \cup {Len(attempts) + 1}
        /\ \A b \in AttemptIds : attempts'[b] = attempts[b]
        /\ attempts'[Len(attempts) + 1].task = t
    BY <1>0, <1>3, StartEffect
  <2>2. \A u : u # t =>
            /\ RunningAttempts(u)' = RunningAttempts(u)
            /\ RunningImplementations(u)' = RunningImplementations(u)
    BY <2>1 DEF RunningAttempts, RunningImplementations, Implementations
  <2>3. status[t] = "running" /\ UNCHANGED status
    BY <1>3 DEF StartAttempt
  <2> QED
    BY <2>2, <2>3 DEF IInv, QuietWhenStopped
<1>4. ASSUME UNCHANGED attempts PROVE QuietWhenStopped'
  <2>1. CASE UNCHANGED <<status, audit>>
    BY <1>4, <2>1 DEF IInv, QuietWhenStopped, RunningAttempts,
       RunningImplementations, Implementations, AttemptIds
  <2> QED
    BY <1>1, <1>4, <2>1, StepOfTasks DEF IInv
<1> QED
  BY <1>2, <1>3, <1>4, StepOfAttempts DEF IInv

\* The unique index decides at the insert; nothing else makes a row running.
LEMMA ItemsStayExclusive ==
    ASSUME IInv, [Next]_vars
    PROVE  OneRunningPerItem'
<1>0. attempts \in Seq(Attempt)
  BY DEF IInv, TypeOK
<1>1. CASE UNCHANGED attempts
  BY <1>1 DEF IInv, OneRunningPerItem, RunningAttempts, RunningImplementations,
     Implementations, AttemptIds
<1>2. ASSUME NEW a \in AttemptIds, RowUpdated(a) PROVE OneRunningPerItem'
  <2>1. \A t : RunningImplementations(t)' \subseteq RunningImplementations(t)
    BY <1>2 DEF RowUpdated, SameWork, RunningAttempts, RunningImplementations,
       Implementations
  <2>2. \A b \in AttemptIds : attempts'[b].item = attempts[b].item
    BY <1>2 DEF RowUpdated, SameWork
  <2>3. \A t : RunningImplementations(t) \subseteq AttemptIds
    BY DEF RunningImplementations, Implementations
  <2> QED
    BY <2>1, <2>2, <2>3 DEF IInv, OneRunningPerItem
<1>3. ASSUME NEW c \in Clients, NEW t \in Tasks, NEW k \in AttemptKind,
             NEW i \in WorkItems, NEW p \in Providers, StartAttempt(c, t, k, i, p)
      PROVE  OneRunningPerItem'
  <2> DEFINE n == Len(attempts) + 1
  <2>1. /\ AttemptIds' = AttemptIds \cup {n}
        /\ n \notin AttemptIds
        /\ \A b \in AttemptIds : attempts'[b] = attempts[b]
        /\ attempts'[n].task = t /\ attempts'[n].kind = k /\ attempts'[n].item = i
    BY <1>0, <1>3, StartEffect
  <2>2. WorkItemFree(t, k, i)
    BY <1>3 DEF StartAttempt
  <2> HIDE DEF n
  <2>3. \A u : RunningImplementations(u)' \subseteq RunningImplementations(u) \cup {n}
    BY <2>1 DEF RunningAttempts, RunningImplementations, Implementations
  <2>4. \A u : n \in RunningImplementations(u)' => u = t /\ k = "implementation"
    BY <2>1 DEF RunningAttempts, RunningImplementations, Implementations
  <2>5. \A u : RunningImplementations(u) \subseteq AttemptIds
    BY DEF RunningImplementations, Implementations
  <2>6. ASSUME NEW u \in Tasks, NEW a \in RunningImplementations(u)',
               NEW b \in RunningImplementations(u)', attempts'[a].item = attempts'[b].item
        PROVE  a = b
    <3>1. CASE a # n /\ b # n
      BY <2>1, <2>3, <2>5, <2>6, <3>1 DEF IInv, OneRunningPerItem
    <3>2. CASE a = n /\ b # n
      BY <2>1, <2>2, <2>3, <2>4, <2>5, <2>6, <3>2 DEF WorkItemFree
    <3>3. CASE a # n /\ b = n
      BY <2>1, <2>2, <2>3, <2>4, <2>5, <2>6, <3>3 DEF WorkItemFree
    <3> QED
      BY <3>1, <3>2, <3>3
  <2> QED
    BY <2>6 DEF OneRunningPerItem
<1> QED
  BY <1>1, <1>2, <1>3, StepOfAttempts DEF IInv

LEMMA IInvInit == Init => IInv
<1> SUFFICES ASSUME Init PROVE IInv
  OBVIOUS
<1>1. TypeOK
  BY TypeInit
<1>2. AttemptIds = {} /\ ReviewIds = {}
  <2>1. DOMAIN <<>> = {}
    OBVIOUS
  <2> QED
    BY <2>1 DEF Init, AttemptIds, ReviewIds
<1>3. \A c \in Clients : call[c].op = "none"
  BY DEF Init, NoCall
<1> QED
  BY <1>1, <1>2, <1>3 DEF Init, IInv, AuditIsCurrent, OneRunningPerItem,
     QuietWhenStopped, SuccessHasEvidence, ReviewsAreIndependent,
     RememberedFactsHold, CompletedHasApproval, RunningAttempts,
     RunningImplementations, AtComplete

LEMMA IInvNext == IInv /\ [Next]_vars => IInv'
<1> SUFFICES ASSUME IInv, [Next]_vars PROVE IInv'
  OBVIOUS
<1>1. TypeOK'
  BY TypeNext DEF IInv
<1>2. AuditIsCurrent' /\ CompletedHasApproval' /\ QuietWhenStopped'
      /\ OneRunningPerItem'
  BY AuditStaysCurrent, CompletedStaysApproved, StaysQuiet, ItemsStayExclusive
<1>3. SuccessHasEvidence'
  BY SuccessKeepsEvidence DEF IInv
<1>4. ReviewsAreIndependent'
  BY ReviewsStayIndependent DEF IInv
<1>5. RememberedFactsHold'
  BY MemoriesStayTrue DEF IInv
<1> QED
  BY <1>1, <1>2, <1>3, <1>4, <1>5 DEF IInv

THEOREM Invariance == Spec => []IInv
  BY IInvInit, IInvNext, PTL DEF Spec

-----------------------------------------------------------------------------
(* The results.                                                             *)

\* store.py's audit trail: the newest event of a task names its status.
THEOREM AuditCurrency == Spec => []AuditIsCurrent
<1>1. IInv => AuditIsCurrent
  BY DEF IInv
<1> QED
  BY <1>1, Invariance, PTL

\* The partial unique index: no two running builders on a work item.
THEOREM Exclusion == Spec => []OneRunningPerItem
<1>1. IInv => OneRunningPerItem
  BY DEF IInv
<1> QED
  BY <1>1, Invariance, PTL

\* transition and cancel_task never stop a task that something still builds.
THEOREM Quiescence == Spec => []QuietWhenStopped
<1>1. IInv => QuietWhenStopped
  BY DEF IInv
<1> QED
  BY <1>1, Invariance, PTL

\* record_review, which validates before its transaction, still stores only
\* reviews of successful work by another provider.
THEOREM Independence == Spec => []ReviewsAreIndependent
<1>1. IInv => ReviewsAreIndependent
  BY DEF IInv
<1> QED
  BY <1>1, Invariance, PTL

\* The facts record_review and complete_task act on do not go stale.
THEOREM Memory == Spec => []RememberedFactsHold
<1>1. IInv => RememberedFactsHold
  BY DEF IInv
<1> QED
  BY <1>1, Invariance, PTL

\* complete_task, however it is interleaved, closes no task without an
\* independent, evidence-backed approval of successful work.
THEOREM Completion == Spec => []CompletedHasApproval
<1>1. IInv => CompletedHasApproval
  BY DEF IInv
<1> QED
  BY <1>1, Invariance, PTL

\* Every task.transitioned event continues the trail along a valid edge.
THEOREM AuditHistory == Spec => AuditIsHistory
<1> DEFINE Step ==
      \A t \in Tasks : audit'[t] # audit[t] =>
        /\ audit'[t].from = audit[t].to
        /\ \/ audit[t].to = "absent" /\ audit'[t].to = "queued"
           \/ audit'[t].to \in ValidTransitions[audit[t].to]
           \/ audit[t].to = "needs_review" /\ audit'[t].to = "completed"
<1>1. IInv /\ [Next]_vars => Step
  <2> SUFFICES ASSUME IInv, [Next]_vars PROVE Step
    OBVIOUS
  <2>1. CASE UNCHANGED <<status, audit>>
    BY <2>1
  <2>2. ASSUME NEW t \in Tasks, NEW to \in TaskStatus, MoveTask(t, status[t], to),
               MoveIsChecked(t, to)
        PROVE  Step
    <3>1. \A u \in Tasks :
            audit'[u] = IF u = t THEN [from |-> status[t], to |-> to] ELSE audit[u]
      BY <2>2 DEF MoveTask, IInv, TypeOK
    <3>2. audit[t].to = status[t]
      BY DEF IInv, AuditIsCurrent
    <3>3. \/ status[t] = "absent" /\ to = "queued"
          \/ to \in ValidTransitions[status[t]]
          \/ status[t] = "needs_review" /\ to = "completed"
      BY <2>2 DEF MoveIsChecked
    <3> QED
      BY <3>1, <3>2, <3>3
  <2> QED
    BY <2>1, <2>2, StepOfTasks DEF IInv
<1> QED
  BY <1>1, Invariance, PTL DEF Spec, AuditIsHistory

\* Outcomes are final: closed tasks, ended attempts and recorded reviews.
THEOREM Finality == Spec => OutcomesAreFinal
<1> DEFINE Step ==
      /\ \A t \in Tasks :
            status[t] \in {"completed", "cancelled"} => status'[t] = status[t]
      /\ \A a \in AttemptIds :
            /\ a \in DOMAIN attempts'
            /\ attempts[a].status # "running" => attempts'[a] = attempts[a]
      /\ \A r \in ReviewIds : r \in DOMAIN reviews' /\ reviews'[r] = reviews[r]
<1>1. IInv /\ [Next]_vars => Step
  <2> SUFFICES ASSUME IInv, [Next]_vars PROVE Step
    OBVIOUS
  <2>1. AttemptsKept /\ ReviewsKept
    BY RowsKept DEF IInv
  <2>2. \A t \in Tasks :
            status[t] \in {"completed", "cancelled"} => status'[t] = status[t]
    <3>1. CASE UNCHANGED <<status, audit>>
      BY <3>1
    <3>2. ASSUME NEW t \in Tasks, NEW to \in TaskStatus,
                 MoveTask(t, status[t], to), MoveIsChecked(t, to)
          PROVE  \A u \in Tasks :
                    status[u] \in {"completed", "cancelled"} => status'[u] = status[u]
      <4>1. \A u \in Tasks : status'[u] = IF u = t THEN to ELSE status[u]
        BY <3>2 DEF MoveTask, IInv, TypeOK
      <4>2. status[t] \notin {"completed", "cancelled"}
        BY <3>2 DEF MoveIsChecked, ValidTransitions
      <4> QED
        BY <4>1, <4>2
    <3> QED
      BY <3>1, <3>2, StepOfTasks DEF IInv
  <2> QED
    BY <2>1, <2>2 DEF AttemptsKept, ReviewsKept, AttemptIds, ReviewIds
<1> QED
  BY <1>1, Invariance, PTL DEF Spec, OutcomesAreFinal

-----------------------------------------------------------------------------
(* The gate, for a client that has the ledger to itself.                    *)

SoleClient == \A c, d \in Clients : c = d

\* What a complete_task in progress has established so far still holds.
GateProgress ==
    \A c \in Clients : call[c].op = "complete" =>
        /\ call[c].step \in {"latest", "reviews"} =>
            RunningImplementations(call[c].task) = {}
        /\ call[c].step = "reviews" =>
            /\ LatestAttempts(call[c].task) # {}
            /\ \A a \in LatestAttempts(call[c].task) :
                /\ attempts[a].status = "succeeded"
                /\ \/ a \in call[c].todo
                   \/ \E r \in ReviewIds : IsLatestReview(r, a) /\ Approves(r)

\* The only client, while it completes a task, changes neither attempts nor
\* reviews.
LEMMA SoleCompleterIsAlone ==
    ASSUME SoleClient, [Next]_vars, NEW c \in Clients, call[c].op = "complete"
    PROVE  UNCHANGED <<attempts, reviews>>
<1>0. ~Idle(c)
  BY DEF Idle, NoCall
<1>1. \A d \in Clients : d = c
  BY DEF SoleClient
<1>2. ~TaskStep(c) /\ ~AttemptStep(c)
  BY <1>0 DEF TaskStep, CreateTask, TransitionTask, CancelTask, MayCancel, AttemptStep,
     StartAttempt, FinishAttempt, SetAttemptProcess
<1>3. ~ReviewStep(c) /\ ~ReconcileStep(c)
  BY <1>0 DEF ReviewStep, BuildReview, InsertReview, ReconcileStep, ReconcileBegin,
     ReconcileSkip, ReconcileFail, AtRow, Settle, SettleStatus, SettleRunning,
     SettleTransition, AtSettle
<1>4. CompleteStep(c) \/ Abandon(c) => UNCHANGED <<attempts, reviews>>
  BY DEF CompleteStep, CompleteBegin, CompleteNoneRunning, CompleteLatest,
     CompleteCheck, CompleteCommit, Abandon, ledger
<1> QED
  BY <1>1, <1>2, <1>3, <1>4 DEF Next, ClientStep, ProcessExits, ledger, vars

LEMMA GateProgressKept ==
    ASSUME SoleClient, TypeOK, GateProgress, [Next]_vars
    PROVE  GateProgress'
<1>call. call \in [Clients -> Call]
  BY DEF TypeOK
<1>sole. \A c, d \in Clients : c = d
  BY DEF SoleClient
\* As long as attempts and reviews stay, so does all that was seen in them.
<1>same. ASSUME UNCHANGED <<attempts, reviews>>
         PROVE  /\ ReviewIds' = ReviewIds
                /\ \A t : RunningImplementations(t)' = RunningImplementations(t)
                /\ \A t : LatestAttempts(t)' = LatestAttempts(t)
                /\ \A r, a : IsLatestReview(r, a)' <=> IsLatestReview(r, a)
                /\ \A r : Approves(r)' <=> Approves(r)
  BY <1>same DEF RunningImplementations, RunningAttempts, Implementations,
     LatestAttempts, IsLatestReview, ReviewsOf, Approves, AttemptIds, ReviewIds
<1>1. CASE \A d \in Clients : call'[d] = call[d] \/ Uncommitted(d)'
  <2>1. ASSUME NEW c \in Clients, call'[c] = call[c], call[c].op = "complete"
        PROVE  UNCHANGED <<attempts, reviews>>
    BY <2>1, SoleCompleterIsAlone
  <2>2. \A c \in Clients : call'[c].op = "complete" =>
            call'[c] = call[c] \/ call'[c].step = "running"
    BY <1>1 DEF Uncommitted
  <2> QED
    BY <2>1, <2>2, <1>same DEF GateProgress
<1>2. ASSUME NEW c \in Clients, NEW t \in Tasks, NEW a \in AttemptIds,
             NEW p \in Providers, NEW v \in Verdict, NEW e \in Evidence,
             BuildReview(c, t, a, p, v, e)
      PROVE  GateProgress'
  <2>1. call'[c].op = "review"
    BY <1>2, <1>call DEF BuildReview, Become
  <2> QED
    BY <2>1, <1>sole DEF GateProgress
<1>3. ASSUME NEW c \in Clients, CompleteNoneRunning(c) PROVE GateProgress'
  <2>1. call[c] \in CompleteCall
    BY <1>3, <1>call, CallByOp DEF CompleteNoneRunning, AtComplete
  <2>2. call'[c].step = "latest" /\ call'[c].task = call[c].task
    BY <1>3, <2>1, <1>call DEF CompleteNoneRunning, Become, CompleteCall
  <2>3. RunningImplementations(call[c].task) = {} /\ UNCHANGED <<attempts, reviews>>
    BY <1>3 DEF CompleteNoneRunning, ledger
  <2> QED
    BY <2>2, <2>3, <1>same, <1>sole DEF GateProgress
<1>4. ASSUME NEW c \in Clients, CompleteLatest(c) PROVE GateProgress'
  <2>1. call[c] \in CompleteCall /\ call[c].op = "complete" /\ call[c].step = "latest"
    BY <1>4, <1>call, CallByOp DEF CompleteLatest, AtComplete
  <2>2. /\ call'[c].step = "reviews" /\ call'[c].task = call[c].task
        /\ call'[c].todo = LatestAttempts(call[c].task)
    BY <1>4, <2>1, <1>call DEF CompleteLatest, Become, CompleteCall
  <2>3. /\ LatestAttempts(call[c].task) # {} /\ UNCHANGED <<attempts, reviews>>
        /\ \A a \in LatestAttempts(call[c].task) : attempts[a].status = "succeeded"
    BY <1>4 DEF CompleteLatest, ledger
  <2>4. RunningImplementations(call[c].task) = {}
    BY <2>1 DEF GateProgress
  <2> QED
    BY <2>2, <2>3, <2>4, <1>same, <1>sole DEF GateProgress
<1>5. ASSUME NEW c \in Clients, NEW b \in AttemptIds, CompleteCheck(c, b)
      PROVE  GateProgress'
  <2>1. call[c] \in CompleteCall /\ call[c].op = "complete" /\ call[c].step = "reviews"
    BY <1>5, <1>call, CallByOp DEF CompleteCheck, AtComplete
  <2>2. /\ call'[c].step = "reviews" /\ call'[c].task = call[c].task
        /\ call'[c].todo = call[c].todo \ {b}
    BY <1>5, <2>1, <1>call DEF CompleteCheck, Become, CompleteCall
  <2>3. /\ \E r \in ReviewIds : IsLatestReview(r, b) /\ Approves(r)
        /\ UNCHANGED <<attempts, reviews>>
    BY <1>5 DEF CompleteCheck, ledger
  <2>4. /\ RunningImplementations(call[c].task) = {}
        /\ LatestAttempts(call[c].task) # {}
        /\ \A a \in LatestAttempts(call[c].task) :
            /\ attempts[a].status = "succeeded"
            /\ \/ a \in call[c].todo
               \/ \E r \in ReviewIds : IsLatestReview(r, a) /\ Approves(r)
    BY <2>1 DEF GateProgress
  <2> QED
    BY <2>2, <2>3, <2>4, <1>same, <1>sole DEF GateProgress
<1> QED
  BY <1>1, <1>2, <1>3, <1>4, <1>5, StepOfCalls

\* Only complete_task completes a task.
LEMMA CompletedByCommit ==
    ASSUME [Next]_vars, TypeOK, NEW t \in Tasks,
           status[t] # "completed", status'[t] = "completed"
    PROVE  \E c \in Clients : CompleteCommit(c) /\ call[c].task = t
<1>0. status \in [Tasks -> TaskStatus \cup {"absent"}]
  BY DEF TypeOK
<1>1. ASSUME NEW u, NEW from, NEW to, MoveTask(u, from, to)
      PROVE  u = t /\ to = "completed"
  BY <1>0, <1>1 DEF MoveTask
<1>2. ASSUME NEW c \in Clients, TaskStep(c) PROVE FALSE
  <2>1. ASSUME NEW u \in Tasks, CreateTask(c, u) PROVE FALSE
    BY <1>1, <2>1 DEF CreateTask
  <2>2. ASSUME NEW u \in Tasks, NEW target \in TaskStatus, TransitionTask(c, u, target)
        PROVE  FALSE
    BY <1>1, <2>2 DEF TransitionTask
  <2>3. ASSUME NEW u \in Tasks, CancelTask(c, u) PROVE FALSE
    BY <1>1, <2>3 DEF CancelTask, MayCancel
  <2> QED
    BY <1>2, <2>1, <2>2, <2>3 DEF TaskStep
<1>3. ASSUME NEW c \in Clients, SettleTransition(c) PROVE FALSE
  BY <1>1, <1>3 DEF SettleTransition
<1>4. ASSUME NEW c \in Clients, AttemptStep(c) \/ ReviewStep(c) \/ Abandon(c)
      PROVE  FALSE
  BY <1>4 DEF AttemptStep, StartAttempt, FinishAttempt, SetAttemptProcess,
     ReviewStep, BuildReview, InsertReview, Abandon, ledger
<1>5. ASSUME NEW c \in Clients, ReconcileStep(c) PROVE FALSE
  BY <1>3, <1>5 DEF ReconcileStep, ReconcileBegin, ReconcileSkip, ReconcileFail,
     Settle, SettleStatus, SettleRunning, ledger
<1>6. ASSUME NEW c \in Clients, CompleteStep(c)
      PROVE  CompleteCommit(c) /\ call[c].task = t
  <2>1. CompleteCommit(c)
    BY <1>6 DEF CompleteStep, CompleteBegin, CompleteNoneRunning, CompleteLatest,
       CompleteCheck, ledger
  <2> QED
    BY <1>1, <2>1 DEF CompleteCommit
<1> QED
  BY <1>2, <1>4, <1>5, <1>6 DEF Next, ClientStep, ProcessExits, ledger, vars

\* complete_task keeps the promise of architecture.md when nothing interleaves
\* with it: at the step that closes a task its gate holds.
THEOREM SoleClientGate ==
    ASSUME SoleClient
    PROVE  Spec => GateHoldsAtCompletion
<1> DEFINE Step == \A t \in Tasks :
        status[t] # "completed" /\ status'[t] = "completed" => GateHolds(t)
<1>1. Init => GateProgress
  BY DEF Init, GateProgress, NoCall
<1>2. TypeOK /\ GateProgress /\ [Next]_vars => GateProgress'
  BY GateProgressKept
<1>3. TypeOK /\ GateProgress /\ [Next]_vars => Step
  <2> SUFFICES ASSUME TypeOK, GateProgress, [Next]_vars, NEW t \in Tasks,
                      status[t] # "completed", status'[t] = "completed"
               PROVE  GateHolds(t)
    OBVIOUS
  <2>1. PICK c \in Clients : CompleteCommit(c) /\ call[c].task = t
    BY CompletedByCommit
  <2> QED
    BY <2>1 DEF CompleteCommit, AtComplete, GateProgress, GateHolds
<1> QED
  BY <1>1, <1>2, <1>3, TypeCorrect, PTL DEF Spec, GateHoldsAtCompletion
=============================================================================
