-------------------------- MODULE RunProcessProofs --------------------------
(***************************************************************************)
(* What RunProcess keeps for every number of descendants, lines and        *)
(* signals, and that it implements SupervisedRun.                          *)
(***************************************************************************)
EXTENDS RunProcess, TLAPS

\* What a caller of the group may still see of it.
Alive == IF Codex THEN ~GroupAbsent ELSE leader = "running"

\* Beyond the ExitStack: in the handler, or past it.
Outside ==
    \/ pc \in {"handle", "late", "finish", "over"}
    \/ pc \in Teardown /\ caller = "handler"

\* Nothing was launched yet.
BeforeLaunch ==
    pc \in {"enter", "check", "launch"} =>
        ~known /\ leader = "none" /\ evidence = "none" /\ err = "none"

\* What the run knows of its process.
Knowledge ==
    /\ known => leader # "none"
    /\ ~known /\ signals = 0 => leader = "none"
    /\ leader = "none" => members = 0
    /\ evidence = "unlaunched" => ~known
    /\ pc \in {"record", "prompt", "read", "wait", "look"} \cup Teardown => known
    /\ err = "none" /\ pc \in {"join", "after", "unwind", "finish"} => known

\* Only the service cancels.
Cancellation ==
    /\ cancelSet => mode = "service"
    /\ err = "cancel" \/ caller = "cancel" => mode = "service"
    /\ err = "cancel" /\ known => GroupAbsent

\* The reader starts after the prompt was written, and a run that gets to its
\* end without an exception has all of the output.
Reading ==
    /\ pc \in {"enter", "check", "launch", "record", "prompt", "read"} => reader = "none"
    /\ err = "none" /\ pc \in {"unwind", "finish"} => reader = "ended"

\* Without an exception, the group is gone where that matters.
Normally ==
    /\ err = "none" /\ pc \in {"join", "after", "unwind", "finish"} =>
        ~Alive /\ leader = "gone"
    /\ pc \in {"after", "finish"} => err = "none"

\* What is on its way when the ExitStack is left while a process is alive.
Leaving ==
    pc \in {"join", "unwind"} /\ known /\ Alive =>
        err \in {"signal", "unverified"} \/ (err = "other" /\ reader = "none")

\* The handler tears down, and knows at its end what became of the group.
Handling ==
    /\ pc \in Teardown => caller # "none"
    /\ caller = "handler" => Outside
    /\ pc = "handle" => err # "none"
    /\ pc = "late" => err \in GroupErrors \/ ~known \/ GroupAbsent

\* Only the ExitStack removes, and it closes.
Winding ==
    /\ Outside => transcript # "open" /\ scratch # "present"
    /\ scratch = "removed" => Outside
    /\ outcome # "none" <=> pc = "over"

IInv ==
    /\ TypeOK
    /\ BeforeLaunch /\ Knowledge /\ Cancellation /\ Reading
    /\ Normally /\ Leaving /\ Handling /\ Winding
    /\ ClaimsAreProven /\ ScratchOutlivesProcess /\ RecordedIsWoundUp

-----------------------------------------------------------------------------
(* The invariant. The definitions that every step of the proof expands.    *)

USE DEF Codex, GroupAbsent, GroupErrors, Teardown, Inner, Try, Steps
USE DEF TypeOK, Alive, Outside, BeforeLaunch, Knowledge, Cancellation, Reading,
    Normally, Leaving, Handling, Winding, ClaimsAreProven, ScratchOutlivesProcess,
    RecordedIsWoundUp

LEMMA InitInv == Init => IInv
<1> SUFFICES ASSUME Init PROVE IInv
    OBVIOUS
<1>1. 0 \in 0..MaxMembers /\ 0 \in 0..MaxLines /\ 0 \in 0..MaxSignals
    BY BoundsAssumption
<1>2. TypeOK
    BY <1>1 DEF Init
<1> QED
    BY <1>2 DEF Init, IInv

\* Every step preserves the invariant.
LEMMA StepInv == IInv /\ [Next]_vars => IInv'
<1> SUFFICES ASSUME IInv, [Next]_vars PROVE IInv'
    OBVIOUS
<1> USE BoundsAssumption DEF IInv
<1>1. CASE Enter
    BY <1>1 DEF Enter, Raise, GoTo, processVars, readerVars, fileVars
<1>2. CASE Check
    BY <1>2 DEF Check, Raise, GoTo, processVars, readerVars, fileVars
<1>3. CASE Launch
  <2>a. UNCHANGED <<mode, caller, evidence, members, reader, lines, transcript, scratch,
                     cancelSet, signals, outcome>>
    BY <1>3 DEF Launch, readerVars, fileVars
  <2>b. /\ pc = "launch"
        /\ \/ known' = TRUE /\ leader' = "running" /\ pc' = "record" /\ err' = err
           \/ known' = known /\ leader' = leader /\ pc' = "unwind" /\ err' = "other"
    BY <1>3 DEF Launch, Raise, GoTo
  <2>1. TypeOK'
    BY <2>a, <2>b
  <2>2. BeforeLaunch' /\ Knowledge' /\ Cancellation' /\ Reading'
    BY <2>a, <2>b
  <2>3. Normally' /\ Leaving' /\ Handling' /\ Winding'
    BY <2>a, <2>b
  <2>4. ClaimsAreProven' /\ ScratchOutlivesProcess' /\ RecordedIsWoundUp'
    BY <2>a, <2>b
  <2> QED
    BY <2>1, <2>2, <2>3, <2>4
<1>4. CASE Record \/ Prompt
  <2>a. UNCHANGED <<mode, caller, known, evidence, leader, members, reader, lines,
                     transcript, scratch, cancelSet, signals, outcome>>
    BY <1>4 DEF Record, Prompt, processVars, readerVars, fileVars
  <2>b. pc' \in Steps /\ err' \in {err, "other", "cancel"}
    BY <1>4 DEF Record, Prompt, Raise, GoTo
  <2>1. TypeOK'
    BY <2>a, <2>b
  <2>2. BeforeLaunch' /\ Knowledge' /\ Cancellation' /\ Reading'
    BY <1>4 DEF Record, Prompt, Raise, GoTo, processVars, readerVars, fileVars
  <2>3. Normally' /\ Leaving' /\ Handling' /\ Winding'
    BY <1>4 DEF Record, Prompt, Raise, GoTo, processVars, readerVars, fileVars
  <2>4. ClaimsAreProven' /\ ScratchOutlivesProcess' /\ RecordedIsWoundUp'
    BY <1>4 DEF Record, Prompt, Raise, GoTo, processVars, readerVars, fileVars
  <2> QED
    BY <2>1, <2>2, <2>3, <2>4
<1>5. CASE StartReader
    BY <1>5 DEF StartReader, Raise, GoTo, processVars, readerVars, fileVars
<1>6. CASE Wait
    BY <1>6 DEF Wait, Terminate, GoTo, processVars, readerVars, fileVars
<1>7. CASE Look
    BY <1>7 DEF Look, Raise, GoTo, Terminate, processVars, readerVars, fileVars
<1>8. CASE TerminateProcess
    BY <1>8 DEF TerminateProcess, Absence, Returned, Unverified, Raise, GoTo, processVars, readerVars, fileVars
<1>9. CASE Join
    BY <1>9 DEF Join, GoTo, processVars, readerVars, fileVars
<1>10. CASE After
  <2>a. UNCHANGED <<mode, caller, known, evidence, leader, members, reader, lines,
                     transcript, scratch, cancelSet, signals, outcome>>
    BY <1>10 DEF After, processVars, readerVars, fileVars
  <2>b. /\ pc = "after" /\ pc' = "unwind"
        /\ \/ err' = "other" /\ (reader # "ended" \/ ~cancelSet)
           \/ err' = "cancel" /\ cancelSet
           \/ err' = err /\ reader = "ended"
    BY <1>10 DEF After, Raise, GoTo
  <2>c. err = "none"
    BY <2>b
  <2>1. TypeOK'
    BY <2>a, <2>b
  <2>2. BeforeLaunch' /\ Knowledge' /\ Cancellation' /\ Reading'
    BY <2>a, <2>b, <2>c
  <2>3. Normally' /\ Leaving' /\ Handling' /\ Winding'
    BY <2>a, <2>b, <2>c
  <2>4. ClaimsAreProven' /\ ScratchOutlivesProcess' /\ RecordedIsWoundUp'
    BY <2>a, <2>b
  <2> QED
    BY <2>1, <2>2, <2>3, <2>4
<1>11. CASE Unwind
    BY <1>11 DEF Unwind, CloseTranscript, GoTo, processVars, readerVars, fileVars
<1>12. CASE Handle
    BY <1>12 DEF Handle, Terminate, GoTo, processVars, readerVars, fileVars
<1>13. CASE Late
    BY <1>13 DEF Late, Conclude, processVars, readerVars, fileVars
<1>14. CASE Finish
  <2>a. UNCHANGED <<mode, caller, err, known, evidence, leader, members, reader, lines,
                     transcript, scratch, cancelSet, signals>>
    BY <1>14 DEF Finish, Conclude, processVars, readerVars, fileVars
  <2>b. /\ pc = "finish" /\ pc' = "over"
        /\ outcome' \in {"succeeded", "failed", "cancelled", "abandoned"}
    BY <1>14 DEF Finish, Conclude
  <2>1. TypeOK'
    BY <2>a, <2>b
  <2>2. BeforeLaunch' /\ Knowledge' /\ Cancellation' /\ Reading'
    BY <2>a, <2>b
  <2>3. Normally' /\ Leaving' /\ Handling' /\ Winding'
    BY <2>a, <2>b
  <2>4. ClaimsAreProven' /\ ScratchOutlivesProcess' /\ RecordedIsWoundUp'
    BY <2>a, <2>b
  <2> QED
    BY <2>1, <2>2, <2>3, <2>4
<1>15. CASE Signal
    BY <1>15 DEF Signal, CloseTranscript, processVars, readerVars, fileVars
<1>16. CASE GroupStep
    BY <1>16 DEF GroupStep, hostVars, readerVars, fileVars
<1>17. CASE ReaderStep
    BY <1>17 DEF ReaderStep, hostVars, processVars, fileVars
<1>18. CASE Cancel
    BY <1>18 DEF Cancel, hostVars, processVars, readerVars, fileVars
<1>19. CASE UNCHANGED vars
    BY <1>19 DEF vars, processVars, readerVars, fileVars
<1> QED
    BY <1>1, <1>2, <1>3, <1>4, <1>5, <1>6, <1>7, <1>8, <1>9, <1>10, <1>11, <1>12, <1>13,
       <1>14, <1>15, <1>16, <1>17, <1>18, <1>19 DEF Next, Host

-----------------------------------------------------------------------------
(* Theorems.                                                               *)

\* The invariant holds of every run.
THEOREM RunInvariance == Spec => []IInv
<1>1. Init => IInv
    BY InitInv
<1>2. IInv /\ [Next]_vars => IInv'
    BY StepInv
<1> QED
    BY <1>1, <1>2, PTL DEF Spec

\* Every variable holds a value of its type.
THEOREM RunTypes == Spec => []TypeOK
<1>1. IInv => TypeOK
    BY DEF IInv
<1> QED
    BY <1>1, RunInvariance, PTL

\* What the evidence of a teardown says of the process group is so.
THEOREM ProvenClaims == Spec => []ClaimsAreProven
<1>1. IInv => ClaimsAreProven
    BY DEF IInv
<1> QED
    BY <1>1, RunInvariance, PTL

\* A runtime is not left alive without its home, but for the cases the property names.
THEOREM ScratchInTime == Spec => []ScratchOutlivesProcess
<1>1. IInv => ScratchOutlivesProcess
    BY DEF IInv
<1> QED
    BY <1>1, RunInvariance, PTL

\* What is recorded is wound up, and its transcript does not change any more.
THEOREM FinalRecord == Spec => RecordIsFinal
<1>1. IInv /\ IInv' /\ [Next]_vars => [RecordedIsWoundUp' /\ TranscriptIsFinal]_vars
  <2> SUFFICES ASSUME IInv, IInv', [Next]_vars, outcome # "none"
               PROVE  UNCHANGED lines
      BY DEF IInv, TranscriptIsFinal
  <2>1. pc = "over" /\ transcript # "open"
      BY DEF IInv
  <2> QED
      BY <2>1 DEF Next, Host, Enter, Check, Launch, Record, Prompt, StartReader, Wait, Look,
         TerminateProcess, Join, After, Unwind, Handle, Late, Finish, Signal, GroupStep,
         ReaderStep, Cancel, readerVars, vars
<1> QED
    BY <1>1, RunInvariance, PTL DEF Spec, RecordIsFinal

\* A step that changes neither the group the run knows nor its outcome maps to none.
LEMMA Stutter ==
    UNCHANGED <<mode, known, leader, members, outcome>> => UNCHANGED Promise!vars
BY DEF Promise!vars, KnownGroup

\* Every step of a run is one of SupervisedRun, or leaves it alone.
LEMMA StepImplements == IInv /\ [Next]_vars => [Promise!Next]_(Promise!vars)
<1> SUFFICES ASSUME IInv, [Next]_vars PROVE [Promise!Next]_(Promise!vars)
    OBVIOUS
<1> USE DEF IInv
<1>1. CASE \/ Enter \/ Check \/ Record \/ Prompt \/ StartReader \/ Wait \/ Look \/ TerminateProcess
           \/ Join \/ After \/ Unwind \/ Handle \/ ReaderStep \/ Cancel \/ UNCHANGED vars
  <2>1. UNCHANGED <<mode, known, leader, members, outcome>>
    BY <1>1 DEF Enter, Check, Record, Prompt, StartReader, Wait, Look, TerminateProcess, Join, After,
       Unwind, Handle, ReaderStep, Cancel, vars, processVars, hostVars
  <2> QED
    BY <2>1, Stutter
<1>2. CASE Launch
  <2>1. /\ ~known /\ outcome = "none" /\ UNCHANGED <<mode, outcome>>
        /\ \/ known' /\ leader' = "running"
           \/ UNCHANGED <<known, leader, members>>
    BY <1>2 DEF Launch
  <2>2. CASE UNCHANGED <<known, leader, members>>
    BY <2>1, <2>2, Stutter
  <2>3. CASE known' /\ leader' = "running"
    BY <2>1, <2>3 DEF Promise!Next, Promise!Launch, KnownGroup
  <2> QED
    BY <2>1, <2>2, <2>3
<1>3. CASE GroupStep
  <2>1. UNCHANGED <<mode, known, outcome>>
    BY <1>3 DEF GroupStep, hostVars
  <2>2. CASE ~known
    BY <2>1, <2>2 DEF KnownGroup, Promise!vars
  <2>3. CASE known
    BY <1>3, <2>1, <2>3 DEF GroupStep, KnownGroup, Promise!vars, Promise!Next, Promise!Dwindle
  <2> QED
    BY <2>2, <2>3
<1>4. ASSUME NEW o \in Promise!Outcomes, outcome = "none", outcome' = o,
             UNCHANGED <<mode, known, leader, members>>, Promise!MayConclude(o)
      PROVE  Promise!Next
  <2>1. KnownGroup' = KnownGroup /\ Codex' = Codex
    BY <1>4 DEF KnownGroup
  <2> QED
    BY <1>4, <2>1 DEF Promise!Next, Promise!Conclude
<1>5. CASE Late
  <2>1. /\ pc = "late" /\ outcome = "none" /\ UNCHANGED <<mode, known, leader, members>>
        /\ outcome' \in {"blocked", "cancelled", "failed", "abandoned"}
    BY <1>5 DEF Late, Conclude, processVars
  <2>2. outcome' = "cancelled" => err = "cancel"
    BY <1>5 DEF Late, Conclude
  <2>3. outcome' = "failed" => err \notin GroupErrors
    BY <1>5 DEF Late, Conclude
  <2>4. ~known \/ GroupAbsent => KnownGroup \in {"none", "gone"}
    BY DEF KnownGroup
  <2>5. Promise!MayConclude(outcome')
    BY <2>1, <2>2, <2>3, <2>4 DEF Promise!MayConclude
  <2> QED
    BY <1>4, <2>1, <2>5 DEF Promise!Outcomes
<1>6. CASE Finish
  <2>1. /\ pc = "finish" /\ outcome = "none" /\ UNCHANGED <<mode, known, leader, members>>
        /\ outcome' \in {"succeeded", "cancelled", "failed", "abandoned"}
        /\ outcome' = "cancelled" => cancelSet
    BY <1>6 DEF Finish, Conclude, processVars
  <2>2. known /\ leader = "gone" /\ (Codex => members = 0)
    BY <2>1
  <2>3. KnownGroup = "gone" \/ (~Codex /\ KnownGroup = "orphaned")
    BY <2>2 DEF KnownGroup
  <2>4. Promise!MayConclude(outcome')
    BY <2>1, <2>3 DEF Promise!MayConclude
  <2> QED
    BY <1>4, <2>1, <2>4 DEF Promise!Outcomes
<1>7. CASE Signal
  <2>1. UNCHANGED <<mode, known, members>>
    BY <1>7 DEF Signal
  <2>2. CASE Try
    <3>1. UNCHANGED outcome /\ (pc # "launch" => UNCHANGED leader)
      BY <1>7, <2>2 DEF Signal
    <3>2. pc = "launch" => ~known
      BY DEF IInv
    <3> QED
      BY <2>1, <3>1, <3>2 DEF KnownGroup, Promise!vars
  <2>3. CASE ~Try
    <3>1. UNCHANGED leader /\ outcome = "none" /\ outcome' = "abandoned"
      BY <1>7, <2>3 DEF Signal
    <3>2. Promise!MayConclude("abandoned")
      BY DEF Promise!MayConclude
    <3> QED
      BY <1>4, <2>1, <3>1, <3>2 DEF Promise!Outcomes
  <2> QED
    BY <2>2, <2>3
<1> QED
    BY <1>1, <1>2, <1>3, <1>5, <1>6, <1>7 DEF Next, Host

\* Whatever is recorded of an attempt is allowed by what is left of its process group:
\* run_task, with all its exceptions and signals, keeps the promise of SupervisedRun.
THEOREM KeepsPromise == Spec => ImplementsSupervisedRun
<1>1. Init => Promise!Init
    BY DEF Init, Promise!Init, KnownGroup
<1> QED
    BY <1>1, StepImplements, RunInvariance, PTL DEF Spec, ImplementsSupervisedRun, Promise!Spec
=============================================================================
