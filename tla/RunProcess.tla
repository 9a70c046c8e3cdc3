----------------------------- MODULE RunProcess -----------------------------
(***************************************************************************)
(* The try statement of run_task and its handler, for one attempt: the     *)
(* resources it enters, the process group it launches and tears down, the  *)
(* thread that copies its output, and the exceptions that replace one      *)
(* another on the way out. CodexService and CommandRuns take all this in   *)
(* a few steps; here every statement that can raise, wait or be            *)
(* interrupted is a step.                                                  *)
(***************************************************************************)
EXTENDS Naturals

CONSTANTS
    MaxMembers, \* bound: descendants of the leader alive at once
    MaxLines,   \* bound: lines of output
    MaxSignals  \* bound: SIGTERM, SIGHUP or SIGINT to a command

ASSUME BoundsAssumption == MaxMembers \in Nat /\ MaxLines \in Nat /\ MaxSignals \in Nat

VARIABLES
    mode,       \* "service": Codex, with a cancel event; "codex": Codex on the
                \* command line; "builder": another runtime on the command line
    pc,         \* the statement run_task has reached
    caller,     \* where _terminate_process was called from
    err,        \* the exception on its way
    known,      \* is the variable process bound?
    evidence,   \* teardown_evidence
    leader,     \* the process that was launched
    members,    \* how many descendants its group has
    reader,     \* the thread stream_output
    lines,      \* lines in the transcript
    transcript, \* its file
    scratch,    \* CODEX_HOME, or the policy plugin
    cancelSet,  \* the cancel event
    signals,    \* signals that arrived
    outcome     \* what the attempt is recorded as

processVars == <<leader, members>>
readerVars == <<reader, lines>>
fileVars == <<transcript, scratch>>
vars == <<mode, pc, caller, err, known, evidence, processVars, readerVars, fileVars,
          cancelSet, signals, outcome>>

Codex == mode # "builder"
Teardown == {"probe", "term", "grace", "kill", "last"}
\* The steps outside of a teardown.
Steps == {"enter", "check", "launch", "record", "prompt", "read", "wait", "look", "join",
          "after", "unwind", "handle", "late", "finish", "over"}
\* The try statement within, whose finally clause joins the reader; and that around it.
Inner == pc \in {"wait", "look"} \/ (pc \in Teardown /\ caller # "handler")
Try == Inner \/ pc \in Steps \ {"handle", "late", "finish", "over"}
GroupErrors == {"unverified", "survived"}

\* killpg(pgid, 0) finds nobody.
GroupAbsent == leader # "running" /\ members = 0

TypeOK ==
    /\ mode \in {"service", "codex", "builder"}
    /\ pc \in Steps \cup Teardown
    /\ caller \in {"none", "cancel", "survived", "timeout", "handler"}
    /\ err \in {"none", "cancel", "timeout", "signal", "other"} \cup GroupErrors
    /\ known \in BOOLEAN
    /\ evidence \in {"none", "absent", "unlaunched"}
    /\ leader \in {"none", "running", "gone"} /\ members \in 0..MaxMembers
    /\ reader \in {"none", "reading", "ended", "failed"} /\ lines \in 0..MaxLines
    /\ transcript \in {"none", "open", "closed"}
    /\ scratch \in {"none", "present", "removed", "left"}
    /\ cancelSet \in BOOLEAN
    /\ signals \in 0..MaxSignals
    /\ outcome \in {"none", "succeeded", "failed", "cancelled", "blocked", "abandoned"}

Init ==
    /\ mode \in {"service", "codex", "builder"}
    /\ pc = "enter" /\ caller = "none" /\ err = "none"
    /\ known = FALSE /\ evidence = "none"
    /\ leader = "none" /\ members = 0
    /\ reader = "none" /\ lines = 0
    /\ transcript = "none" /\ scratch = "none"
    /\ cancelSet = FALSE /\ signals = 0
    /\ outcome = "none"

-----------------------------------------------------------------------------
(* Helpers *)

\* An exception leaves the statement at pc: the finally clause of the inner try
\* statement joins the reader, the ExitStack of the outer one closes and removes.
Raise(e) ==
    /\ err' = e
    /\ pc' = IF Inner THEN "join" ELSE "unwind"

GoTo(next) == pc' = next /\ UNCHANGED err

Terminate(from) ==
    /\ caller' = from
    /\ GoTo("probe")
    /\ UNCHANGED evidence

Conclude(o) ==
    /\ pc' = "over"
    /\ outcome' = o
    /\ UNCHANGED <<mode, caller, known, evidence, processVars, readerVars, fileVars,
                   cancelSet, signals>>

-----------------------------------------------------------------------------
(* The way in *)

\* mkdtemp and the copy of auth.json come before the try of _codex_home, so that
\* a failure between them leaves the directory; the plugin may be there already.
Enter ==
    /\ pc = "enter"
    /\ \/ /\ scratch' = "present" /\ transcript' = "open"
          /\ GoTo("check")
       \/ /\ scratch' \in {"none", "present", "left"}
          /\ Raise("other")
          /\ UNCHANGED transcript
    /\ UNCHANGED <<mode, caller, known, evidence, processVars, readerVars, cancelSet,
                   signals, outcome>>

Check ==
    /\ pc = "check"
    /\ IF cancelSet THEN Raise("cancel") ELSE GoTo("launch")
    /\ UNCHANGED <<mode, caller, known, evidence, processVars, readerVars, fileVars,
                   cancelSet, signals, outcome>>

Launch ==
    /\ pc = "launch"
    /\ \/ known' = TRUE /\ leader' = "running" /\ GoTo("record")
       \/ UNCHANGED <<known, leader>> /\ Raise("other")
    /\ UNCHANGED <<mode, caller, evidence, members, readerVars, fileVars, cancelSet,
                   signals, outcome>>

\* set_attempt_process.
Record ==
    /\ pc = "record"
    /\ GoTo(IF Codex THEN "prompt" ELSE "read") \/ Raise("other")
    /\ UNCHANGED <<mode, caller, known, evidence, processVars, readerVars, fileVars,
                   cancelSet, signals, outcome>>

\* The write of the prompt, which has no limit, to the stdin of Codex returns when the
\* processes that hold the other end have taken all of it, or closed it. Until then
\* there is no deadline, no look at the event, and no reader for what they write.
Prompt ==
    /\ pc = "prompt"
    /\ GoTo("read") \/ Raise("other")
    /\ UNCHANGED <<mode, caller, known, evidence, processVars, readerVars, fileVars,
                   cancelSet, signals, outcome>>

StartReader ==
    /\ pc = "read"
    /\ \/ reader' = "reading" /\ GoTo("wait")
       \/ UNCHANGED reader /\ Raise("other")
    /\ UNCHANGED <<mode, caller, known, evidence, processVars, lines, fileVars,
                   cancelSet, signals, outcome>>

-----------------------------------------------------------------------------
(* Waiting for the leader, and the teardown of its group *)

\* _wait_for_process looks at the event, at the deadline and at the leader.
Wait ==
    /\ pc = "wait"
    /\ \/ cancelSet /\ Terminate("cancel")
       \/ Terminate("timeout")
       \/ /\ leader = "gone"
          /\ GoTo(IF Codex THEN "look" ELSE "join")
          /\ UNCHANGED <<caller, evidence>>
    /\ UNCHANGED <<mode, known, processVars, readerVars, fileVars, cancelSet, signals,
                   outcome>>

LookWithoutTeardown ==
    /\ pc = "look"
    /\ \/ GroupAbsent /\ evidence' = "absent" /\ GoTo("join") /\ UNCHANGED caller
       \/ ~GroupAbsent /\ Raise("survived") /\ UNCHANGED <<caller, evidence>>
       \/ Raise("unverified") /\ UNCHANGED <<caller, evidence>>
    /\ UNCHANGED <<mode, known, processVars, readerVars, fileVars, cancelSet, signals,
                   outcome>>

\* After the exit of a Codex leader, its group.
Look ==
    /\ pc = "look"
    /\ \/ GroupAbsent /\ evidence' = "absent" /\ GoTo("join") /\ UNCHANGED caller
       \/ ~GroupAbsent /\ Terminate("survived")
       \/ Raise("unverified") /\ UNCHANGED <<caller, evidence>>
    /\ UNCHANGED <<mode, known, processVars, readerVars, fileVars, cancelSet, signals,
                   outcome>>

\* _terminate_process returns to its caller. After a timeout what it returns is
\* dropped; a cancellation carries it, and the handler unpacks it.
Returned ==
    /\ evidence' = IF caller \in {"survived", "handler"} THEN "absent" ELSE evidence
    /\ CASE caller = "handler" -> GoTo("late")
         [] caller = "survived" -> Raise(IF cancelSet THEN "cancel" ELSE "survived")
         [] OTHER -> Raise(caller)

\* It raises ProcessGroupTeardownUnverified, also where a probe or a signal fails.
Unverified ==
    /\ err' = "unverified"
    /\ pc' = IF caller = "handler" THEN "late" ELSE "join"
    /\ UNCHANGED evidence

AbsenceAssumedAfterKill ==
    \/ (GroupAbsent \/ pc = "last") /\ Returned
    \/ /\ ~GroupAbsent
       /\ \/ pc = "probe" /\ GoTo("term") /\ UNCHANGED evidence
          \/ pc = "grace" /\ GoTo("kill") /\ UNCHANGED evidence

\* Each look is the last of a bounded wait.
Absence ==
    \/ GroupAbsent /\ Returned
    \/ /\ ~GroupAbsent
       /\ \/ pc = "probe" /\ GoTo("term") /\ UNCHANGED evidence
          \/ pc = "grace" /\ GoTo("kill") /\ UNCHANGED evidence
          \/ pc = "last" /\ Unverified

TerminateProcess ==
    /\ pc \in Teardown
    /\ \/ pc \in {"probe", "grace", "last"} /\ Absence
       \/ pc = "term" /\ GoTo("grace") /\ UNCHANGED evidence
       \/ pc = "kill" /\ GoTo("last") /\ UNCHANGED evidence
       \/ Unverified
    /\ UNCHANGED <<mode, caller, known, processVars, readerVars, fileVars, cancelSet,
                   signals, outcome>>

-----------------------------------------------------------------------------
(* The way out *)

JoinWithoutDeadline ==
    /\ pc = "join" /\ reader # "reading"
    /\ GoTo(IF err = "none" THEN "after" ELSE "unwind")
    /\ UNCHANGED <<mode, caller, known, evidence, processVars, readerVars, fileVars,
                   cancelSet, signals, outcome>>

\* reader.join(timeout=5), in the finally clause.
Join ==
    /\ pc = "join"
    /\ GoTo(IF err = "none" THEN "after" ELSE "unwind")
    /\ UNCHANGED <<mode, caller, known, evidence, processVars, readerVars, fileVars,
                   cancelSet, signals, outcome>>

\* The output must be complete; then the event is looked at once more. The chmod
\* of the result may raise.
After ==
    /\ pc = "after"
    /\ \/ reader # "ended" /\ Raise("other")
       \/ reader = "ended" /\ cancelSet /\ Raise("cancel")
       \/ reader = "ended" /\ ~cancelSet /\ (GoTo("unwind") \/ Raise("other"))
    /\ UNCHANGED <<mode, caller, known, evidence, processVars, readerVars, fileVars,
                   cancelSet, signals, outcome>>

CloseTranscriptAfterSuccess ==
    transcript' = IF transcript = "open" /\ err = "none" THEN "closed" ELSE transcript

CloseTranscript == transcript' = IF transcript = "open" THEN "closed" ELSE transcript

\* The ExitStack closes the transcript and removes the home, whatever is left of
\* the group. A removal that fails replaces the exception on its way; that of the
\* plugin's directory is suppressed.
Unwind ==
    /\ pc = "unwind"
    /\ CloseTranscript
    /\ \/ /\ scratch' = IF scratch = "present" THEN "removed" ELSE scratch
          /\ GoTo(IF err = "none" THEN "finish" ELSE "handle")
       \/ /\ scratch = "present" /\ ~Codex
          /\ scratch' = "left"
          /\ GoTo(IF err = "none" THEN "finish" ELSE "handle")
       \/ /\ scratch = "present"
          /\ scratch' = "left"
          /\ err' = "other" /\ pc' = "handle"
    /\ UNCHANGED <<mode, caller, known, evidence, processVars, readerVars, cancelSet,
                   signals, outcome>>

HandleIgnoringSignal ==
    /\ pc = "handle"
    /\ \/ /\ known /\ err \in {"timeout", "other"} /\ evidence = "none"
          /\ Terminate("handler")
       \/ /\ ~known \/ err \notin {"timeout", "other"} \/ evidence # "none"
          /\ evidence' = CASE ~known -> "unlaunched"
                           [] known /\ err = "cancel" -> "absent"
                           [] OTHER -> evidence
          /\ GoTo("late") /\ UNCHANGED caller
    /\ UNCHANGED <<mode, known, processVars, readerVars, fileVars, cancelSet, signals,
                   outcome>>

\* The except clause: a group that nothing is known of is torn down here.
Handle ==
    /\ pc = "handle"
    /\ \/ /\ known /\ err \notin GroupErrors \cup {"cancel"} /\ evidence = "none"
          /\ Terminate("handler")
       \/ /\ ~known \/ err \in GroupErrors \cup {"cancel"} \/ evidence # "none"
          /\ evidence' = CASE ~known -> "unlaunched"
                           [] known /\ err = "cancel" -> "absent"
                           [] OTHER -> evidence
          /\ GoTo("late") /\ UNCHANGED caller
    /\ UNCHANGED <<mode, known, processVars, readerVars, fileVars, cancelSet, signals,
                   outcome>>

\* After another join of the reader, the attempt is recorded; a cancelled run
\* whose output is not complete is a failed one. The ledger may raise.
Late ==
    /\ pc = "late"
    /\ UNCHANGED err
    /\ \/ Conclude(CASE err \in GroupErrors -> "blocked"
                     [] err = "cancel" /\ reader \in {"none", "ended"} -> "cancelled"
                     [] OTHER -> "failed")
       \/ Conclude("abandoned")

\* Without an exception: cancelled if asked by now, or what the runtime reported.
Finish ==
    /\ pc = "finish"
    /\ UNCHANGED err
    /\ \/ cancelSet /\ Conclude("cancelled")
       \/ ~cancelSet /\ \E o \in {"succeeded", "failed"} : Conclude(o)
       \/ Conclude("abandoned")

\* A signal raises RuntimeTerminated wherever the command is. Within Popen the
\* child may have been forked already. In the handler nothing catches it.
Signal ==
    /\ mode # "service" /\ pc # "over" /\ signals < MaxSignals
    /\ signals' = signals + 1
    /\ IF Try
       THEN /\ err' = "signal"
            /\ pc' = CASE Inner -> "join" [] pc = "unwind" -> "handle" [] OTHER -> "unwind"
            /\ leader' \in IF pc = "launch" THEN {"none", "running"} ELSE {leader}
            /\ scratch' \in CASE pc = "enter" -> {"none", "present", "left"}
                              [] pc = "unwind" /\ scratch = "present" -> {"removed", "left"}
                              [] OTHER -> {scratch}
            /\ IF pc = "unwind" THEN CloseTranscript ELSE UNCHANGED transcript
            /\ UNCHANGED outcome
       ELSE /\ outcome' = "abandoned" /\ pc' = "over"
            /\ UNCHANGED <<err, leader, fileVars>>
    /\ UNCHANGED <<mode, caller, known, evidence, members, readerVars, cancelSet>>

Host ==
    \/ Enter \/ Check \/ Launch \/ Record \/ StartReader
    \/ Wait \/ Look \/ TerminateProcess
    \/ Join \/ After \/ Unwind \/ Handle \/ Late \/ Finish

-----------------------------------------------------------------------------
(* Everything around it *)

hostVars == <<mode, pc, caller, err, known, evidence, fileVars, signals, outcome>>

\* Members of the group fork and exit as they like, signalled or not; a group that
\* is gone does not come back.
GroupStep ==
    /\ \/ leader = "running" /\ leader' = "gone" /\ UNCHANGED members
       \/ members > 0 /\ members' = members - 1 /\ UNCHANGED leader
       \/ ~GroupAbsent /\ members < MaxMembers /\ members' = members + 1 /\ UNCHANGED leader
    /\ UNCHANGED <<hostVars, readerVars, cancelSet>>

\* The reader copies a line, which fails once the transcript is closed, or reaches
\* the end of the pipe. A process that left the group may hold the pipe open.
ReaderStep ==
    /\ reader = "reading"
    /\ \/ /\ transcript = "open" /\ lines < MaxLines
          /\ lines' = lines + 1 /\ UNCHANGED reader
       \/ reader' \in {"ended", "failed"} /\ UNCHANGED lines
    /\ UNCHANGED <<hostVars, processVars, cancelSet>>

Cancel ==
    /\ mode = "service" /\ ~cancelSet
    /\ cancelSet' = TRUE
    /\ UNCHANGED <<hostVars, processVars, readerVars>>

Next == Host \/ Prompt \/ Signal \/ GroupStep \/ ReaderStep \/ Cancel

Spec == Init /\ [][Next]_vars

\* The command, or the worker of the service, is scheduled; every wait of it has a
\* deadline but that for the prompt. Nothing is assumed of the group, which may never
\* take the prompt, of the reader or of whoever cancels.
FairSpec == Spec /\ WF_vars(Host)

-----------------------------------------------------------------------------
(* Properties *)

\* What the evidence says of the group is so, from the moment it is said: a group
\* proven absent is empty, whatever way the proof took through the exceptions. A
\* group that was not launched does not exist, but for a signal within Popen.
ClaimsAreProven ==
    /\ evidence = "absent" => GroupAbsent
    /\ evidence = "unlaunched" /\ signals = 0 => leader = "none"

\* CODEX_HOME, or the plugin, is there as long as the process that uses it, for
\* Codex the whole group. Not so after a signal, after a teardown that could not be
\* verified, and where the pid or the prompt of the process could not be written:
\* the ExitStack is left before the handler terminates the group.
ScratchOutlivesProcess ==
    LET alive == IF Codex THEN ~GroupAbsent ELSE leader = "running"
    IN  known /\ alive /\ scratch = "removed"
            => err \in {"signal", "unverified"} \/ (err = "other" /\ reader = "none")

\* What an attempt leaves behind once it is recorded: no open transcript, no
\* home of a runtime whose removal did not fail, and no reader still copying
\* output of a run that counts as complete.
RecordedIsWoundUp ==
    outcome \in {"succeeded", "cancelled"} =>
        /\ transcript \in {"none", "closed"} /\ scratch # "present"
        /\ reader \in {"none", "ended"}

\* The transcript of a recorded attempt never changes, even where the reader or a
\* process that left the group goes on.
TranscriptIsFinal == outcome # "none" => UNCHANGED lines

\* The record of an attempt is complete when it is made, and stays true.
RecordIsFinal == [][RecordedIsWoundUp' /\ TranscriptIsFinal]_vars

\* A run ends, whatever its processes and its output do, or it waits for ever for
\* them to take the prompt: nothing else of run_task waits without a deadline.
RunEnds == <>(outcome # "none") \/ <>[](pc = "prompt")

\* The detailed run keeps the promise of SupervisedRun for the group it knows.
KnownGroup ==
    CASE ~known \/ leader = "none" -> "none"
      [] known /\ leader = "running" -> "led"
      [] OTHER -> IF members > 0 THEN "orphaned" ELSE "gone"

Promise == INSTANCE SupervisedRun WITH supervised <- Codex, group <- KnownGroup
ImplementsSupervisedRun == Promise!Spec
=============================================================================
