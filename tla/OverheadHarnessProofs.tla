------------------------ MODULE OverheadHarnessProofs ------------------------
(***************************************************************************)
(* Machine-checked proofs about OverheadHarness, for any number of runs    *)
(* and any selection of backends: what a script that ends has left behind, *)
(* what a successful one has recorded, and that stale metrics are marked.  *)
(*                                                                         *)
(* The inductive invariant ties the place in the script to the processes   *)
(* it has waited for, and the length of both files to the position in the  *)
(* two loops.                                                              *)
(***************************************************************************)
EXTENDS OverheadHarness, SequenceTheorems, TLAPS

BackendCount == Len(backendList)

(* Nothing is begun before the call was found usable, and of one that is   *)
(* not, nothing ever is.                                                   *)
UsableInv ==
  /\ pc = "check" => target = "none" /\ rawRows = <<>> /\ stats = <<>>
                       /\ runIdx = 1 /\ backendIdx = 1
  /\ pc \notin {"check", "end"} => Usable
  /\ pc = "end" /\ ~Usable =>
       /\ rawRows = <<>> /\ target = "none"
       /\ exitCode \in {1, Terminated}

(* The script ends by itself only where it has waited for both processes,  *)
(* or where there are none.                                                *)
WaitInv ==
  /\ exitCode # None <=> pc = "end"
  /\ pc \in {"waitProfiler", "record"} => target = "gone"
  /\ pc = "record" => profiler = "exited"
  /\ pc = "baseline" /\ target # "none" =>
       target = "gone" /\ profiler = "exited"
  /\ exitCode \in {0, 1} /\ target # "none" /\ graceValid =>
       target = "gone" /\ profiler = "exited"

(* With a grace period that sleep refuses the script gets no further than  *)
(* the first one.                                                          *)
GraceInv ==
  ~graceValid =>
    /\ pc \notin {"waitTarget", "waitProfiler", "record"}
    /\ exitCode # 0 /\ stats = <<>>
    /\ rawRows = <<>> \/ Len(rawRows) = 1
    /\ pc \in {"check", "baseline"} => rawRows = <<>>

(* Old rows are in the output of a profiler of the eBPF backend that has   *)
(* not opened its file yet, or that never came to it.                      *)
StaleInv ==
  /\ output = "old" =>
       \/ profiler = "starting" /\ selected_backend = "ebpf"
       \/ profiler = "exited" /\ profilerExit # 0
  /\ StaleIsFlagged

(* The groups of metrics are complete, one for every run and backend.      *)
GroupsInOrder ==
  \A i \in 1 .. Len(stats) :
    /\ stats[i].run = (i - 1) \div BackendCount + 1
    /\ stats[i].backend = backendList[((i - 1) % BackendCount) + 1]
    /\ stats[i].complete

(* What was recorded before the present position in the two loops.         *)
CountInv ==
  /\ pc \notin {"check", "end"} =>
       /\ GroupsInOrder
       /\ Len(stats) = (runIdx - 1) * BackendCount + (backendIdx - 1)
       /\ Len(rawRows) = (runIdx - 1) * (1 + 2 * BackendCount)
                           + 2 * (backendIdx - 1)
                           + (IF pc = "baseline" THEN 0 ELSE 1)
       /\ pc = "baseline" => backendIdx = 1
  /\ SuccessIsComplete

HarnessInv ==
  HarnessTypeOK /\ UsableInv /\ WaitInv /\ GraceInv /\ StaleInv /\ CountInv
-----------------------------------------------------------------------------
(* The list of a call, and the bound of the runs.                          *)
LEMMA ListAndRuns ==
  ASSUME HarnessTypeOK
  PROVE  /\ backendList \in Seq(Backends \union {"other"})
         /\ BackendCount \in Nat
         /\ RunCount \in Nat /\ RunCount >= 1
         /\ runIdx \in 1 .. RunCount
BY HarnessAssumption, LenProperties DEF HarnessTypeOK, BackendCount

(* Of a usable call the backends are known ones and there is a first one.  *)
LEMMA UsableList ==
  ASSUME HarnessTypeOK, Usable
  PROVE  /\ BackendCount >= 1
         /\ \A i \in 1 .. BackendCount : backendList[i] \in Backends
<1>1. backendList \in Seq(Backends \union {"other"})
  BY ListAndRuns
<1>2. Len(backendList) # 0
  BY <1>1, EmptySeq DEF Usable
<1> QED
  BY <1>1, <1>2, LenProperties DEF Usable, HarnessTypeOK, BackendCount

(* The exits that set -e or a missing file make, between two others.       *)
GivesUp == BaselineFails \/ GraceFails \/ RecordFails

(* They change nothing else, and none of them is after a good resumption,  *)
(* but for the one that follows both waits.                                *)
LEMMA GivingUp ==
  ASSUME GivesUp
  PROVE  /\ pc \in {"baseline", "grace", "record"}
         /\ pc = "grace" => ~graceValid
         /\ pc' = "end" /\ exitCode' = 1
         /\ UNCHANGED <<callVars, loopVars, csvVars, processVars>>
BY DEF GivesUp, BaselineFails, GraceFails, RecordFails, Exit

(* What the script is called with stays as it is.                          *)
LEMMA CallStays ==
  ASSUME [HarnessNext]_harnessVars
  PROVE  /\ UNCHANGED callVars /\ BackendCount' = BackendCount
         /\ (Usable <=> Usable')
<1>1. UNCHANGED callVars
  <2>1. CASE CheckCall \/ Baseline \/ Launch \/ WaitForPid \/ StopTarget
    BY <2>1 DEF CheckCall, Baseline, Launch, WaitForPid, StopTarget, GoOn
  <2>2. CASE StartProfiler \/ ResumeTarget \/ WaitForTarget
               \/ WaitForProfiler \/ Record \/ Interrupt
    BY <2>2 DEF StartProfiler, ResumeTarget, ResumeTargetIf, WaitForTarget,
         WaitForProfiler, GoOn, Record, RecordThenAdvanceIf, Interrupt
  <2>3. CASE GivesUp
    BY <2>3 DEF GivesUp, BaselineFails, GraceFails, RecordFails
  <2>4. CASE PublishPid \/ LaunchFails \/ TargetExits
    BY <2>4 DEF PublishPid, LaunchFails, TargetExits, TargetIs, scriptVars
  <2>5. CASE Profiler
    BY <2>5 DEF Profiler, StartFails, EbpfStarts, EbpfStartsWith, EbpfChecks,
         EbpfSamples, PerfStarts, PerfPrints, ProfilerEnds, ProfilerGoesOn,
         ProfilerIs, scriptVars
  <2>6. CASE ScriptOver \/ WaitForNobody \/ UNCHANGED harnessVars
    BY <2>6 DEF ScriptOver, WaitForNobody, harnessVars, scriptVars
  <2> QED
    BY <2>1, <2>2, <2>4, <2>5, <2>6, <2>3 DEF HarnessNext, Script, GivesUp
<1> QED
  BY <1>1 DEF callVars, BackendCount, Usable

(* The target and the profiler run on without touching the script.         *)
LEMMA ProcessesLeaveScript ==
  ASSUME [HarnessNext]_harnessVars, ~Script, ~Interrupt
  PROVE  UNCHANGED scriptVars
<1>1. CASE PublishPid \/ LaunchFails \/ TargetExits
  BY <1>1 DEF PublishPid, LaunchFails, TargetExits, TargetIs
<1>2. CASE Profiler
  BY <1>2 DEF Profiler, StartFails, EbpfStarts, EbpfStartsWith, EbpfChecks,
       EbpfSamples, PerfStarts, PerfPrints, ProfilerEnds, ProfilerGoesOn,
       ProfilerIs
<1>3. CASE ScriptOver \/ WaitForNobody \/ UNCHANGED harnessVars
  BY <1>3 DEF ScriptOver, WaitForNobody, harnessVars
<1> QED
  BY <1>1, <1>2, <1>3 DEF HarnessNext

(* What the other steps of the script do to its own variables.             *)
Moves(from, to) ==
  pc = from /\ pc' = to /\ UNCHANGED <<loopVars, exitCode>>

LEMMA ScriptMoves ==
  ASSUME Script
  PROVE  \/ CheckCall \/ Baseline \/ Record \/ GivesUp
         \/ /\ UNCHANGED csvVars
            /\ \/ Moves("launch", "waitPid") \/ Moves("waitPid", "stop")
               \/ Moves("stop", "attach") \/ Moves("attach", "grace")
               \/ Moves("grace", "waitTarget")
               \/ Moves("waitTarget", "waitProfiler")
               \/ Moves("waitProfiler", "record")
BY DEF Script, Launch, WaitForPid, StopTarget, StartProfiler, ResumeTarget,
   ResumeTargetIf, WaitForTarget, WaitForProfiler, GoOn, Moves, GivesUp

(* The rows and groups that Record adds are of their types.                *)
StatsRow == [run : 1 .. RunCount, backend : Backends, complete : BOOLEAN,
             own : BOOLEAN, exit : ExitCode]

LEMMA RecordedTypes ==
  ASSUME HarnessTypeOK, Usable, pc = "record"
  PROVE  /\ TimeRow(targetExit) \in [timed : BOOLEAN, exit : ExitCode]
         /\ TimeRow(profilerExit) \in [timed : BOOLEAN, exit : ExitCode]
         /\ StatsGroup \in StatsRow
<1>1. \A code \in ExitCode :
        TimeRow(code) \in [timed : BOOLEAN, exit : ExitCode]
  BY DEF TimeRow
<1>2. targetExit \in ExitCode /\ profilerExit \in ExitCode
  BY DEF HarnessTypeOK
<1>3. runIdx \in 1 .. RunCount /\ selected_backend \in Backends
  BY UsableList DEF HarnessTypeOK, selected_backend, BackendCount
<1>4. HasAllMetrics \in BOOLEAN /\ (output # "old") \in BOOLEAN
  BY DEF HasAllMetrics
<1>5. StatsGroup \in StatsRow
  BY <1>2, <1>3, <1>4 DEF StatsGroup, StatsRow
<1> QED
  BY <1>1, <1>2, <1>5

(* A row of the baseline is of its type, too.                              *)
LEMMA BaselineAddsARow ==
  ASSUME HarnessTypeOK, Baseline
  PROVE  /\ rawRows' \in Seq([timed : BOOLEAN, exit : ExitCode])
         /\ Len(rawRows') = Len(rawRows) + 1
<1> DEFINE RawRow == [timed : BOOLEAN, exit : ExitCode]
<1>1. PICK row \in BaselineRows : rawRows' = Append(rawRows, row)
  BY DEF Baseline
<1>2. row \in RawRow
  <2>1. CASE arguments = "command"
    <3>1. PICK code \in ExitCode : row = TimeRow(code)
      BY <2>1 DEF BaselineRows
    <3>2. TimeRow(code) \in RawRow
      BY DEF TimeRow
    <3> QED
      BY <3>1, <3>2
  <2>2. CASE arguments # "command"
    <3>1. row \in [timed : BOOLEAN, exit : {1}]
      BY <2>2 DEF BaselineRows
    <3>2. row = [timed |-> row.timed, exit |-> row.exit]
      BY <3>1
    <3>3. row.timed \in BOOLEAN /\ row.exit \in ExitCode
      BY <3>1 DEF ExitCode
    <3> QED
      BY <3>2, <3>3
  <2> QED
    BY <2>1, <2>2
<1>3. rawRows \in Seq(RawRow)
  BY DEF HarnessTypeOK
<1> HIDE DEF RawRow
<1> QED
  BY <1>1, <1>2, <1>3, AppendProperties DEF RawRow

(* What the script is called with.                                         *)
CallTypes ==
  /\ arguments \in {"none", "separator", "command"}
  /\ graceValid \in BOOLEAN

(* The position in the two loops, the list and the exit code.              *)
PositionTypes ==
  /\ pc \in {"check", "baseline", "launch", "waitPid", "stop", "attach",
             "grace", "waitTarget", "waitProfiler", "record", "end"}
  /\ runIdx \in 1 .. RunCount
  /\ pc \in {"check", "end"} \/ backendIdx \in 1 .. Len(backendList)
  /\ exitCode \in {None, 0, 1, Terminated}

(* The files of the script.                                                *)
FileTypes ==
  /\ rawRows \in Seq([timed : BOOLEAN, exit : ExitCode])
  /\ stats \in Seq(StatsRow)

(* The processes, but for the flag of the PID file.                        *)
ProcessTypes ==
  /\ target \in {"none", "launched", "running", "stopped", "gone"}
  /\ targetExit \in ExitCode
  /\ profiler \in {"none", "starting", "attached", "sampling", "exited"}
  /\ profilerExit \in ExitCode
  /\ output \in {"absent", "old", "empty", "partial", "uncounted", "own"}

LEMMA TypesInParts ==
  /\ HarnessTypeOK = (/\ backendList \in Selections
                      /\ installed \subseteq Backends
                      /\ CallTypes /\ pidFile \in BOOLEAN
                      /\ PositionTypes /\ FileTypes /\ ProcessTypes)
  /\ HarnessTypeOK' = (/\ (backendList \in Selections)'
                       /\ (installed \subseteq Backends)'
                       /\ CallTypes' /\ (pidFile \in BOOLEAN)'
                       /\ PositionTypes' /\ FileTypes' /\ ProcessTypes')
BY DEF HarnessTypeOK, CallTypes, PositionTypes, FileTypes, ProcessTypes,
   StatsRow

(* The processes keep their types.                                         *)
LEMMA ProcessTypesKept ==
  ASSUME ProcessTypes, pidFile \in BOOLEAN, [HarnessNext]_harnessVars
  PROVE  ProcessTypes' /\ pidFile' \in BOOLEAN
<1> USE DEF targetVars, profilerVars, processVars, GoOn
<1>1. CASE CheckCall \/ Baseline \/ Record \/ Interrupt \/ GivesUp
  <2>1. UNCHANGED processVars
    BY <1>1, GivingUp
    DEF CheckCall, Baseline, Record, RecordThenAdvanceIf, Interrupt
  <2> QED
    BY <2>1 DEF ProcessTypes
<1>2. CASE Launch
  BY <1>2 DEF Launch, ProcessTypes
<1>3. CASE WaitForPid \/ WaitForTarget \/ WaitForProfiler
  <2>1. UNCHANGED processVars
    BY <1>3 DEF WaitForPid, WaitForTarget, WaitForProfiler
  <2> QED
    BY <2>1 DEF ProcessTypes
<1>4. CASE StopTarget \/ ResumeTarget
  BY <1>4 DEF StopTarget, ResumeTarget, ResumeTargetIf, ProcessTypes
<1>5. CASE StartProfiler
  BY <1>5 DEF StartProfiler, ProcessTypes, CsvBefore
<1>6. CASE PublishPid
  BY <1>6 DEF PublishPid, TargetIs, ProcessTypes
<1>7. CASE LaunchFails \/ TargetExits
  BY <1>7 DEF LaunchFails, TargetExits, TargetIs, ProcessTypes, ExitCode
<1>8. CASE Profiler
  BY <1>8 DEF Profiler, StartFails, EbpfStarts, EbpfStartsWith, EbpfChecks,
       EbpfSamples, PerfStarts, PerfPrints, ProfilerEnds, ProfilerGoesOn,
       ProfilerIs, ProcessTypes, ExitCode
<1>9. CASE ScriptOver \/ WaitForNobody \/ UNCHANGED harnessVars
  BY <1>9 DEF ScriptOver, WaitForNobody, harnessVars, ProcessTypes
<1> QED
  BY <1>1, <1>2, <1>3, <1>4, <1>5, <1>6, <1>7, <1>8, <1>9
  DEF HarnessNext, Script, GivesUp

(* Where Record goes on to.                                                *)
LEMMA RecordMoves ==
  ASSUME HarnessTypeOK, Usable, pc = "record", Record
  PROVE  /\ rawRows' = rawRows
                       \o <<TimeRow(targetExit), TimeRow(profilerExit)>>
         /\ stats' = IF HasStats THEN Append(stats, StatsGroup) ELSE stats
         /\ \/ ~HasAllMetrics /\ pc' = "end" /\ exitCode' = 1
                 /\ UNCHANGED loopVars
            \/ HasAllMetrics /\ backendIdx < BackendCount
                 /\ backendIdx' = backendIdx + 1 /\ runIdx' = runIdx
                 /\ pc' = "launch" /\ exitCode' = exitCode
            \/ HasAllMetrics /\ backendIdx = BackendCount /\ runIdx < RunCount
                 /\ backendIdx' = 1 /\ runIdx' = runIdx + 1
                 /\ pc' = "baseline" /\ exitCode' = exitCode
            \/ HasAllMetrics /\ backendIdx = BackendCount /\ runIdx = RunCount
                 /\ pc' = "end" /\ exitCode' = 0 /\ UNCHANGED loopVars
<1>1. /\ backendIdx \in 1 .. BackendCount /\ runIdx \in 1 .. RunCount
      /\ BackendCount \in Nat /\ RunCount \in Nat
  BY ListAndRuns DEF HarnessTypeOK, BackendCount
<1>2. /\ rawRows' = rawRows \o <<TimeRow(targetExit), TimeRow(profilerExit)>>
      /\ stats' = IF HasStats THEN Append(stats, StatsGroup) ELSE stats
      /\ IF HasAllMetrics THEN Advance ELSE Exit(1) /\ UNCHANGED loopVars
  BY DEF Record, RecordThenAdvanceIf
<1>3. CASE HasAllMetrics
  <2>1. Advance
    BY <1>2, <1>3
  <2>2. CASE backendIdx < BackendCount
    BY <1>2, <1>3, <2>1, <2>2 DEF Advance, BackendCount
  <2>3. CASE ~(backendIdx < BackendCount)
    <3>1. backendIdx = BackendCount
      BY <1>1, <2>3
    <3>2. CASE runIdx < RunCount
      BY <1>2, <1>3, <2>1, <2>3, <3>1, <3>2 DEF Advance, BackendCount
    <3>3. CASE ~(runIdx < RunCount)
      <4>1. runIdx = RunCount
        BY <1>1, <3>3
      <4> QED
        BY <1>2, <1>3, <2>1, <2>3, <3>1, <3>3, <4>1
        DEF Advance, BackendCount, Exit
    <3> QED
      BY <3>2, <3>3
  <2> QED
    BY <2>2, <2>3
<1>4. CASE ~HasAllMetrics
  BY <1>2, <1>4 DEF Exit
<1> QED
  BY <1>3, <1>4

(* The position stays within the two loops.                                *)
LEMMA PositionTypesKept ==
  ASSUME HarnessTypeOK, UsableInv, [HarnessNext]_harnessVars
  PROVE  PositionTypes'
<1> USE DEF PositionTypes, loopVars
<1>1. /\ BackendCount \in Nat /\ BackendCount' = BackendCount
      /\ RunCount \in Nat /\ RunCount >= 1
      /\ Len(backendList) = BackendCount /\ Len(backendList') = BackendCount'
  BY ListAndRuns, CallStays DEF BackendCount
<1>2. PositionTypes
  BY TypesInParts
<1>3. CASE CheckCall
  <2>1. pc = "check" /\ UNCHANGED loopVars
        /\ IF Usable THEN pc' = "baseline" /\ UNCHANGED exitCode
                     ELSE pc' = "end" /\ exitCode' = 1
    BY <1>3 DEF CheckCall, Exit
  <2>2. backendIdx = 1 /\ (Usable => BackendCount >= 1)
    BY <2>1, UsableList DEF UsableInv
  <2> QED
    BY <1>1, <1>2, <2>1, <2>2
<1>4. CASE Baseline
  BY <1>1, <1>2, <1>4 DEF Baseline, GoOn
<1>5. CASE Record
  <2>1. pc = "record"
    BY <1>5 DEF Record, RecordThenAdvanceIf
  <2>2. Usable /\ BackendCount >= 1
    BY <2>1, UsableList DEF UsableInv
  <2> QED
    BY <1>1, <1>2, <1>5, <2>1, <2>2, RecordMoves
<1>6. CASE Script /\ ~CheckCall /\ ~Baseline /\ ~Record /\ ~GivesUp
  BY <1>1, <1>2, <1>6, ScriptMoves DEF Moves
<1>7. CASE GivesUp
  BY <1>1, <1>2, <1>7, GivingUp
<1>8. CASE Interrupt
  BY <1>1, <1>2, <1>8 DEF Interrupt, Exit
<1>9. CASE ~Script /\ ~Interrupt
  BY <1>1, <1>2, <1>9, ProcessesLeaveScript DEF scriptVars
<1> QED
  BY <1>3, <1>4, <1>5, <1>6, <1>8, <1>9, <1>7

(* The rows of the files keep their types.                                 *)
LEMMA FileTypesKept ==
  ASSUME HarnessTypeOK, UsableInv, [HarnessNext]_harnessVars
  PROVE  FileTypes'
<1> DEFINE RawRow == [timed : BOOLEAN, exit : ExitCode]
<1>1. rawRows \in Seq(RawRow) /\ stats \in Seq(StatsRow)
  BY TypesInParts DEF FileTypes
<1>2. SUFFICES rawRows' \in Seq(RawRow) /\ stats' \in Seq(StatsRow)
  BY DEF FileTypes
<1>3. CASE Baseline
  <2>1. stats' = stats
    BY <1>3 DEF Baseline
  <2> QED
    BY <1>1, <1>3, <2>1, BaselineAddsARow
<1>4. CASE Record
  <2>1. pc = "record"
    BY <1>4 DEF Record, RecordThenAdvanceIf
  <2>2. Usable
    BY <2>1 DEF UsableInv
  <2>3. /\ TimeRow(targetExit) \in RawRow /\ TimeRow(profilerExit) \in RawRow
        /\ StatsGroup \in StatsRow
    BY <2>1, <2>2, RecordedTypes
  <2>4. /\ rawRows' = rawRows \o <<TimeRow(targetExit), TimeRow(profilerExit)>>
        /\ stats' = stats \/ stats' = Append(stats, StatsGroup)
    BY <1>4, <2>1, <2>2, RecordMoves
  <2> HIDE DEF RawRow
  <2>5. <<TimeRow(targetExit), TimeRow(profilerExit)>> \in Seq(RawRow)
    BY <2>3
  <2>6. rawRows' \in Seq(RawRow)
    BY <1>1, <2>4, <2>5, ConcatProperties
  <2>7. stats' \in Seq(StatsRow)
    <3>1. Append(stats, StatsGroup) \in Seq(StatsRow)
      BY <1>1, <2>3, AppendProperties
    <3> QED
      BY <1>1, <2>4, <3>1
  <2> QED
    BY <2>6, <2>7
<1>5. CASE Script /\ ~Baseline /\ ~Record
  <2>1. UNCHANGED csvVars
    BY <1>5, ScriptMoves, GivingUp DEF CheckCall
  <2> QED
    BY <1>1, <2>1 DEF csvVars
<1>6. CASE Interrupt
  BY <1>1, <1>6 DEF Interrupt, csvVars
<1>7. CASE ~Script /\ ~Interrupt
  BY <1>1, <1>7, ProcessesLeaveScript DEF scriptVars, csvVars
<1> QED
  BY <1>3, <1>4, <1>5, <1>6, <1>7

(* So all of the types are kept.                                           *)
LEMMA HarnessTypesKept ==
  ASSUME HarnessTypeOK, UsableInv, [HarnessNext]_harnessVars
  PROVE  HarnessTypeOK'
<1>1. /\ backendList \in Selections /\ installed \subseteq Backends
      /\ CallTypes /\ pidFile \in BOOLEAN /\ ProcessTypes
  BY TypesInParts
<1>2. UNCHANGED <<backendList, installed>> /\ CallTypes'
  BY <1>1, CallStays DEF callVars, CallTypes
<1>3. ProcessTypes' /\ pidFile' \in BOOLEAN
  BY <1>1, ProcessTypesKept
<1>4. PositionTypes' /\ FileTypes'
  BY PositionTypesKept, FileTypesKept
<1> QED
  BY <1>1, <1>2, <1>3, <1>4, TypesInParts

(* A target that is not there or gone stays so until the next is launched, *)
(* and an exited profiler leaves its output alone until the next starts.   *)
LEMMA OverStaysOver ==
  ASSUME [HarnessNext]_harnessVars
  PROVE  /\ target \in {"none", "gone"} /\ ~Launch => target' = target
         /\ profiler = "exited" /\ ~StartProfiler => UNCHANGED profilerVars
<1> USE DEF targetVars, profilerVars, processVars
<1>1. CASE CheckCall \/ Baseline \/ Record \/ Interrupt \/ GivesUp
  BY <1>1, GivingUp
  DEF CheckCall, Baseline, Record, RecordThenAdvanceIf, Interrupt
<1>2. CASE Launch
  BY <1>2 DEF Launch
<1>3. CASE WaitForPid \/ WaitForTarget \/ WaitForProfiler
  BY <1>3 DEF WaitForPid, WaitForTarget, WaitForProfiler
<1>4. CASE StopTarget \/ ResumeTarget
  BY <1>4 DEF StopTarget, ResumeTarget, ResumeTargetIf
<1>5. CASE StartProfiler
  BY <1>5 DEF StartProfiler
<1>6. CASE PublishPid \/ LaunchFails \/ TargetExits
  BY <1>6 DEF PublishPid, LaunchFails, TargetExits, TargetIs
<1>7. CASE Profiler
  BY <1>7 DEF Profiler, StartFails, EbpfStarts, EbpfStartsWith, EbpfChecks,
       EbpfSamples, PerfStarts, PerfPrints, ProfilerEnds, ProfilerGoesOn,
       ProfilerIs
<1>8. CASE ScriptOver \/ WaitForNobody \/ UNCHANGED harnessVars
  BY <1>8 DEF ScriptOver, WaitForNobody, harnessVars
<1> QED
  BY <1>1, <1>2, <1>3, <1>4, <1>5, <1>6, <1>7, <1>8
  DEF HarnessNext, Script, GivesUp

(* Everything but the check waits for a usable call.                       *)
LEMMA UsableKept ==
  ASSUME HarnessTypeOK, UsableInv, [HarnessNext]_harnessVars
  PROVE  UsableInv'
<1> USE DEF UsableInv
<1>1. Usable <=> Usable'
  BY CallStays
<1>2. CASE CheckCall
  <2>1. /\ pc = "check" /\ rawRows' = rawRows /\ target' = target
        /\ IF Usable THEN pc' = "baseline" ELSE pc' = "end" /\ exitCode' = 1
    BY <1>2 DEF CheckCall, Exit, csvVars, processVars, targetVars
  <2> QED
    BY <1>1, <2>1
<1>3. CASE Script /\ ~CheckCall
  <2>1. pc \notin {"check", "end"} /\ pc' # "check"
    <3>1. CASE Record
      BY <3>1, RecordMoves DEF Record, RecordThenAdvanceIf
    <3>2. CASE Baseline \/ GivesUp
      BY <3>2, GivingUp DEF Baseline, GoOn
    <3> QED
      BY <1>3, <3>1, <3>2, ScriptMoves DEF Moves
  <2> QED
    BY <1>1, <2>1
<1>4. CASE Interrupt
  <2>1. /\ pc' = "end" /\ exitCode' = Terminated /\ pc # "end"
        /\ rawRows' = rawRows /\ target' = target
    BY <1>4 DEF Interrupt, Exit, csvVars, processVars, targetVars
  <2> QED
    BY <1>1, <2>1
<1>5. CASE ~Script /\ ~Interrupt
  <2>1. UNCHANGED <<pc, rawRows, stats, runIdx, backendIdx, exitCode>>
    BY <1>5, ProcessesLeaveScript DEF scriptVars, csvVars, loopVars
  <2>2. target = "none" => target' = "none"
    BY <1>5, OverStaysOver DEF Script
  <2> QED
    BY <1>1, <2>1, <2>2
<1> QED
  BY <1>2, <1>3, <1>4, <1>5

(* The script waits for both before it records, and ends nowhere else.     *)
LEMMA WaitKept ==
  ASSUME HarnessTypeOK, UsableInv, WaitInv, [HarnessNext]_harnessVars
  PROVE  WaitInv'
<1> USE DEF WaitInv, None, Terminated
<1>1. CASE CheckCall
  <2>1. /\ pc = "check" /\ target' = target
        /\ \/ pc' = "baseline" /\ exitCode' = exitCode
           \/ pc' = "end" /\ exitCode' = 1
    BY <1>1 DEF CheckCall, Exit, processVars, targetVars
  <2> QED
    BY <2>1 DEF UsableInv
<1>2. CASE Baseline
  BY <1>2 DEF Baseline, GoOn
<1>3. CASE Record
  <2>1. pc = "record"
    BY <1>3 DEF Record, RecordThenAdvanceIf
  <2>2. /\ target' = "gone" /\ profiler' = "exited"
        /\ exitCode' # -1 <=> pc' = "end"
        /\ pc' \notin {"waitProfiler", "record"}
    <3>1. target' = target /\ profiler' = profiler
      BY <1>3 DEF Record, RecordThenAdvanceIf, processVars, targetVars,
           profilerVars
    <3>2. Usable
      BY <2>1 DEF UsableInv
    <3>3. /\ exitCode' # -1 <=> pc' = "end"
          /\ pc' \notin {"waitProfiler", "record"}
      BY <1>3, <2>1, <3>2, RecordMoves
    <3> QED
      BY <2>1, <3>1, <3>3
  <2> QED
    BY <2>2
<1>4. CASE Script /\ ~CheckCall /\ ~Baseline /\ ~Record /\ ~GivesUp
  <2>1. /\ pc # "end" /\ pc' \notin {"end", "baseline"}
        /\ exitCode' = exitCode /\ graceValid' = graceValid
    BY <1>4, ScriptMoves, CallStays DEF Moves, callVars
  <2>2. pc' = "waitProfiler" => WaitForTarget
    BY <1>4 DEF Script, Launch, WaitForPid, StopTarget, StartProfiler,
         ResumeTarget, ResumeTargetIf, WaitForProfiler, GoOn, GivesUp
  <2>3. pc' = "record" => WaitForProfiler
    BY <1>4 DEF Script, Launch, WaitForPid, StopTarget, StartProfiler,
         ResumeTarget, ResumeTargetIf, WaitForTarget, GoOn, GivesUp
  <2>4. WaitForTarget => target' = "gone"
    BY DEF WaitForTarget, processVars, targetVars
  <2>5. WaitForProfiler =>
          pc = "waitProfiler" /\ target' = target /\ profiler' = "exited"
    BY DEF WaitForProfiler, GoOn, processVars, targetVars, profilerVars
  <2> QED
    BY <2>1, <2>2, <2>3, <2>4, <2>5
<1>5. CASE GivesUp
  <2>1. /\ pc \in {"baseline", "grace", "record"} /\ pc' = "end"
        /\ pc = "grace" => ~graceValid
        /\ exitCode' = 1
        /\ target' = target /\ profiler' = profiler
        /\ graceValid' = graceValid
    BY <1>5, GivingUp DEF processVars, targetVars, profilerVars, callVars
  <2> QED
    BY <2>1
<1>6. CASE Interrupt
  BY <1>6 DEF Interrupt, Exit
<1>7. CASE ~Script /\ ~Interrupt
  <2>1. UNCHANGED <<pc, exitCode, graceValid>>
    BY <1>7, ProcessesLeaveScript DEF scriptVars, callVars
  <2>2. /\ target \in {"none", "gone"} => target' = target
        /\ profiler = "exited" => profiler' = profiler
    BY <1>7, OverStaysOver DEF Script, profilerVars
  <2> QED
    BY <2>1, <2>2
<1> QED
  BY <1>1, <1>2, <1>3, <1>4, <1>6, <1>7, <1>5

(* A refused grace period lets nobody past the first one.                  *)
LEMMA GraceKept ==
  ASSUME HarnessTypeOK, UsableInv, WaitInv, GraceInv,
         [HarnessNext]_harnessVars
  PROVE  GraceInv'
<1> SUFFICES ASSUME ~graceValid PROVE GraceInv'
  BY CallStays DEF GraceInv, callVars
<1>1. /\ pc \notin {"waitTarget", "waitProfiler", "record"}
      /\ exitCode # 0 /\ stats = <<>>
      /\ rawRows = <<>> \/ Len(rawRows) = 1
      /\ pc \in {"check", "baseline"} => rawRows = <<>>
  BY DEF GraceInv
<1>2. CASE CheckCall
  <2>1. /\ pc = "check" /\ pc' \in {"baseline", "end"}
        /\ UNCHANGED <<rawRows, stats>>
        /\ exitCode' = exitCode \/ exitCode' = 1
    BY <1>2 DEF CheckCall, Exit, csvVars
  <2> QED
    BY <1>1, <2>1 DEF GraceInv
<1>3. CASE Baseline
  <2>1. /\ pc = "baseline" /\ pc' = "launch" /\ exitCode' = exitCode
        /\ stats' = stats
    BY <1>3 DEF Baseline, GoOn
  <2>2. Len(rawRows') = 1
    BY <1>1, <1>3, <2>1, BaselineAddsARow
  <2> QED
    BY <1>1, <2>1, <2>2 DEF GraceInv
<1>4. CASE GivesUp
  <2>1. pc' = "end" /\ exitCode' = 1 /\ UNCHANGED <<rawRows, stats>>
    BY <1>4, GivingUp DEF csvVars
  <2> QED
    BY <1>1, <2>1 DEF GraceInv
<1>5. CASE Script /\ ~CheckCall /\ ~Baseline /\ ~GivesUp
  <2>1. ~Record /\ ~ResumeTarget
    BY <1>1 DEF Record, RecordThenAdvanceIf, ResumeTarget, ResumeTargetIf
  <2>2. UNCHANGED csvVars
        /\ \/ Moves("launch", "waitPid") \/ Moves("waitPid", "stop")
           \/ Moves("stop", "attach") \/ Moves("attach", "grace")
    BY <1>1, <1>5, <2>1 DEF Script, Launch, WaitForPid, StopTarget,
       StartProfiler, WaitForTarget, WaitForProfiler, GoOn, Moves, GivesUp
  <2> QED
    BY <1>1, <2>2 DEF GraceInv, Moves, csvVars
<1>6. CASE Interrupt
  BY <1>1, <1>6 DEF GraceInv, Interrupt, Exit, Terminated, csvVars
<1>7. CASE ~Script /\ ~Interrupt
  BY <1>1, <1>7, ProcessesLeaveScript DEF GraceInv, scriptVars, csvVars
<1> QED
  BY <1>2, <1>3, <1>4, <1>5, <1>6, <1>7

(* Old rows are found only where a profiler failed before it opened its    *)
(* file, so a group of stale metrics carries a failure.                    *)
LEMMA StaleKept ==
  ASSUME HarnessTypeOK, UsableInv, WaitInv, StaleInv,
         [HarnessNext]_harnessVars
  PROVE  StaleInv'
<1> USE DEF profilerVars
<1>1. backendList' = backendList
  BY CallStays DEF callVars
<1>2. ~Record => stats' = stats /\ backendIdx' = backendIdx
  <2>1. Script /\ ~Record => stats' = stats
    BY ScriptMoves, GivingUp DEF CheckCall, Baseline, csvVars
  <2>2. Script /\ ~Record => backendIdx' = backendIdx
    BY ScriptMoves, GivingUp DEF CheckCall, Baseline, Moves, loopVars
  <2>3. Interrupt => stats' = stats /\ backendIdx' = backendIdx
    BY DEF Interrupt, csvVars, loopVars
  <2>4. ~Script /\ ~Interrupt => stats' = stats /\ backendIdx' = backendIdx
    BY ProcessesLeaveScript DEF scriptVars, csvVars, loopVars
  <2> QED
    BY <2>1, <2>2, <2>3, <2>4
<1>3. CASE Record
  <2>1. pc = "record" /\ UNCHANGED profilerVars /\ profiler = "exited"
    BY <1>3 DEF Record, RecordThenAdvanceIf, processVars, WaitInv
  <2>2. Usable
    BY <2>1 DEF UsableInv
  <2>3. stats \in Seq(StatsRow) /\ StatsGroup \in StatsRow
    BY <2>1, <2>2, TypesInParts, RecordedTypes DEF FileTypes
  <2>4. StatsGroup.own \/ StatsGroup.exit # 0
    BY <2>1 DEF StatsGroup, StaleInv
  <2>5. StaleIsFlagged'
    <3>1. CASE stats' = stats
      BY <3>1 DEF StaleInv, StaleIsFlagged
    <3>2. CASE stats' = Append(stats, StatsGroup)
      <4>1. /\ Len(stats) \in Nat /\ Len(stats') = Len(stats) + 1
            /\ \A i \in 1 .. Len(stats) : stats'[i] = stats[i]
            /\ stats'[Len(stats) + 1] = StatsGroup
        BY <2>3, <3>2, AppendProperties, LenProperties
      <4>2. ASSUME NEW i \in 1 .. Len(stats')
            PROVE  stats'[i].own \/ stats'[i].exit # 0
        <5>1. CASE i \in 1 .. Len(stats)
          BY <4>1, <5>1 DEF StaleInv, StaleIsFlagged
        <5>2. CASE i = Len(stats) + 1
          BY <2>4, <4>1, <5>2
        <5> QED
          BY <4>1, <5>1, <5>2
      <4> QED
        BY <4>2 DEF StaleIsFlagged
    <3> QED
      BY <1>3, <2>1, <2>2, <3>1, <3>2, RecordMoves
  <2> QED
    BY <2>1, <2>5 DEF StaleInv
<1>4. CASE StartProfiler
  <2>1. /\ pc = "attach" /\ profiler' = "starting" /\ backendIdx' = backendIdx
        /\ output' = "old" => selected_backend # "perf"
    BY <1>4 DEF StartProfiler, GoOn, loopVars
  <2>2. selected_backend \in Backends
    BY <2>1, UsableList DEF UsableInv, HarnessTypeOK, selected_backend,
       BackendCount
  <2> QED
    BY <1>1, <1>2, <1>4, <2>1, <2>2
    DEF StaleInv, StaleIsFlagged, selected_backend, Backends, Record,
        RecordThenAdvanceIf
<1>5. CASE Profiler
  <2>1. UNCHANGED <<backendIdx, stats>>
    BY <1>5 DEF Profiler, StartFails, EbpfStarts, EbpfStartsWith, EbpfChecks,
         EbpfSamples, PerfStarts, PerfPrints, ProfilerEnds, ProfilerGoesOn,
         ProfilerIs, scriptVars, loopVars, csvVars
  <2>2. ASSUME output' = "old"
        PROVE  \/ profiler' = "starting" /\ selected_backend = "ebpf"
               \/ profiler' = "exited" /\ profilerExit' # 0
    BY <1>5, <2>2 DEF Profiler, StartFails, EbpfStarts, EbpfStartsWith,
         EbpfChecks, EbpfSamples, PerfStarts, PerfPrints, ProfilerEnds,
         ProfilerGoesOn, ProfilerIs, StaleInv
  <2> QED
    BY <1>1, <2>1, <2>2 DEF StaleInv, StaleIsFlagged, selected_backend
<1>6. CASE ~Record /\ ~StartProfiler /\ ~Profiler
  <2>1. UNCHANGED profilerVars
    BY <1>6 DEF HarnessNext, Script, CheckCall, Baseline, Launch, WaitForPid,
         StopTarget, ResumeTarget, ResumeTargetIf, WaitForTarget,
         WaitForProfiler, Interrupt, PublishPid, LaunchFails, TargetExits,
         TargetIs, ScriptOver, WaitForNobody, harnessVars, processVars,
         BaselineFails, GraceFails, RecordFails
  <2>2. UNCHANGED <<backendIdx, stats>>
    BY <1>2, <1>6
  <2> QED
    BY <1>1, <2>1, <2>2 DEF StaleInv, StaleIsFlagged, selected_backend
<1> QED
  BY <1>3, <1>4, <1>5, <1>6

(* Place r of turn q is counted by quotient and remainder.                 *)
LEMMA TurnAndPlace ==
  ASSUME NEW n \in Nat, n >= 1, NEW q \in Nat, NEW r \in 0 .. n - 1
  PROVE  (q * n + r) \div n = q /\ (q * n + r) % n = r
<1> DEFINE x == q * n + r
           d == x \div n
<1>1. q * n \in Nat /\ x \in Nat
  OBVIOUS
<1>2. d \in Int /\ n * d <= x /\ x < n * d + n /\ x % n = x - n * d
  BY <1>1
<1> HIDE DEF d
<1>3. n * d = d * n /\ n * d \in Int
  BY <1>2
<1>4. CASE d > q
  <2>1. \A a, b \in Int : a >= b => n * a >= n * b
    OBVIOUS
  <2>2. n * d >= n * (q + 1) /\ n * (q + 1) = q * n + n
    BY <1>2, <1>4, <2>1
  <2> QED
    BY <1>1, <1>2, <1>3, <2>2
<1>5. CASE d < q
  <2>1. \A a, b \in Int : a >= b => n * a >= n * b
    OBVIOUS
  <2>2. n * q >= n * (d + 1) /\ n * (d + 1) = n * d + n /\ n * q = q * n
    BY <1>2, <1>5, <2>1
  <2> QED
    BY <1>1, <1>2, <1>3, <2>2
<1>6. d = q
  BY <1>2, <1>4, <1>5
<1> QED
  BY <1>1, <1>2, <1>3, <1>6 DEF d

(* A group more, and the groups are still in order.                        *)
LEMMA NextGroup ==
  ASSUME HarnessTypeOK, Usable, pc = "record", HasAllMetrics, GroupsInOrder,
         Len(stats) = (runIdx - 1) * BackendCount + (backendIdx - 1),
         stats' = Append(stats, StatsGroup), UNCHANGED backendList
  PROVE  GroupsInOrder' /\ Len(stats') = Len(stats) + 1
<1> DEFINE n == BackendCount
           q == runIdx - 1
           r == backendIdx - 1
<1>1. n \in Nat /\ n >= 1 /\ q \in Nat /\ r \in 0 .. n - 1
  <2>1. backendIdx \in 1 .. BackendCount
    BY DEF HarnessTypeOK, BackendCount
  <2> QED
    BY <2>1, ListAndRuns, UsableList
<1>2. stats \in Seq(StatsRow) /\ StatsGroup \in StatsRow
  BY TypesInParts, RecordedTypes DEF FileTypes
<1>3. /\ Len(stats') = Len(stats) + 1
      /\ \A i \in 1 .. Len(stats) : stats'[i] = stats[i]
      /\ stats'[Len(stats) + 1] = StatsGroup
  BY <1>2, AppendProperties
<1>4. /\ StatsGroup.run = runIdx /\ StatsGroup.complete
      /\ StatsGroup.backend = backendList[backendIdx]
  BY DEF StatsGroup, selected_backend
<1>5. BackendCount' = BackendCount
  BY DEF BackendCount
<1>6. Len(stats) \in Nat
  BY <1>2, LenProperties
<1>7. (Len(stats) \div n) + 1 = runIdx /\ (Len(stats) % n) + 1 = backendIdx
  <2>1. (q * n + r) \div n = q /\ (q * n + r) % n = r
    BY <1>1, TurnAndPlace
  <2>2. Len(stats) = q * n + r
    OBVIOUS
  <2>3. Len(stats) \div n = q /\ Len(stats) % n = r
    BY <2>1, <2>2
  <2>4. runIdx \in Nat /\ backendIdx \in Nat
    BY ListAndRuns DEF HarnessTypeOK, BackendCount
  <2> HIDE DEF n
  <2> QED
    BY <2>3, <2>4
<1>8. ASSUME NEW i \in 1 .. Len(stats')
      PROVE  /\ stats'[i].run = (i - 1) \div BackendCount + 1
             /\ stats'[i].backend = backendList[((i - 1) % BackendCount) + 1]
             /\ stats'[i].complete
  <2>1. CASE i \in 1 .. Len(stats)
    BY <1>3, <2>1 DEF GroupsInOrder
  <2>2. CASE i = Len(stats) + 1
    <3>1. i - 1 = Len(stats)
      BY <1>6, <2>2
    <3>2. (i - 1) \div BackendCount + 1 = runIdx
          /\ ((i - 1) % BackendCount) + 1 = backendIdx
      BY <1>7, <3>1
    <3> QED
      BY <1>3, <1>4, <2>2, <3>2
  <2> QED
    BY <1>3, <1>6, <2>1, <2>2
<1> QED
  BY <1>3, <1>5, <1>8 DEF GroupsInOrder

(* Two rows more for the two processes.                                    *)
LEMMA NextRows ==
  ASSUME HarnessTypeOK, Usable, pc = "record",
         rawRows' = rawRows \o <<TimeRow(targetExit), TimeRow(profilerExit)>>
  PROVE  Len(rawRows') = Len(rawRows) + 2
<1> DEFINE RawRow == [timed : BOOLEAN, exit : ExitCode]
           two == <<TimeRow(targetExit), TimeRow(profilerExit)>>
<1>1. TimeRow(targetExit) \in RawRow /\ TimeRow(profilerExit) \in RawRow
  BY RecordedTypes
<1>2. rawRows \in Seq(RawRow)
  BY DEF HarnessTypeOK
<1> HIDE DEF RawRow
<1>3. two \in Seq(RawRow) /\ Len(two) = 2
  BY <1>1
<1> HIDE DEF two
<1>4. Len(rawRows \o two) = Len(rawRows) + Len(two)
  BY <1>2, <1>3, ConcatProperties
<1> QED
  BY <1>3, <1>4 DEF two

(* What the two loops count is what the files hold.                        *)
LEMMA CountKept ==
  ASSUME HarnessTypeOK, UsableInv, WaitInv, CountInv,
         [HarnessNext]_harnessVars
  PROVE  CountInv'
<1>1. /\ backendList' = backendList /\ BackendCount' = BackendCount
      /\ BackendCount \in Nat /\ RunCount \in Nat
      /\ Len(backendList) = BackendCount
      /\ Len(stats) \in Nat /\ Len(rawRows) \in Nat
  <2>1. stats \in Seq(StatsRow)
        /\ rawRows \in Seq([timed : BOOLEAN, exit : ExitCode])
    BY TypesInParts DEF FileTypes
  <2> QED
    BY <2>1, CallStays, ListAndRuns, LenProperties DEF callVars, BackendCount
<1>2. GroupsInOrder /\ stats' = stats => GroupsInOrder'
  BY <1>1 DEF GroupsInOrder
<1>3. exitCode' # 0 => SuccessIsComplete'
  BY DEF SuccessIsComplete
<1>4. pc # "end" => exitCode # 0
  BY DEF WaitInv, None
<1>5. CASE CheckCall
  <2>1. /\ pc = "check" /\ UNCHANGED <<csvVars, loopVars>>
        /\ \/ pc' = "baseline" /\ exitCode' = exitCode
           \/ pc' = "end" /\ exitCode' = 1
    BY <1>5 DEF CheckCall, Exit
  <2>2. /\ Len(stats') = 0 /\ Len(rawRows') = 0
        /\ runIdx' = 1 /\ backendIdx' = 1
    BY <2>1 DEF UsableInv, csvVars, loopVars
  <2>3. GroupsInOrder'
    BY <2>2 DEF GroupsInOrder
  <2>4. /\ 0 = (1 - 1) * BackendCount + (1 - 1)
        /\ 0 = (1 - 1) * (1 + 2 * BackendCount) + 2 * (1 - 1) + 0
    BY <1>1
  <2> QED
    BY <1>1, <1>3, <1>4, <2>1, <2>2, <2>3, <2>4 DEF CountInv
<1>6. CASE Baseline
  <2>1. /\ pc = "baseline" /\ pc' = "launch" /\ exitCode' = exitCode
        /\ UNCHANGED <<loopVars, stats>>
    BY <1>6 DEF Baseline, GoOn
  <2>2. Len(rawRows') = Len(rawRows) + 1
    BY <1>6, BaselineAddsARow
  <2>3. /\ Len(stats) = (runIdx - 1) * BackendCount + (backendIdx - 1)
        /\ Len(rawRows) = (runIdx - 1) * (1 + 2 * BackendCount)
                            + 2 * (backendIdx - 1) + 0
        /\ GroupsInOrder
    BY <2>1 DEF CountInv
  <2>4. runIdx \in Nat /\ backendIdx \in Nat
    BY <1>1, <2>1 DEF HarnessTypeOK
  <2> DEFINE a == (runIdx - 1) * (1 + 2 * BackendCount)
  <2>5. a \in Int
    BY <1>1, <2>4
  <2> HIDE DEF a
  <2>6. Len(rawRows') = a + 2 * (backendIdx - 1) + 1
    BY <1>1, <2>2, <2>3, <2>4, <2>5 DEF a
  <2> QED
    BY <1>1, <1>2, <1>3, <1>4, <2>1, <2>3, <2>6 DEF CountInv, loopVars, a
<1>7. CASE Record
  <2>1. pc = "record" /\ Usable
    BY <1>7 DEF Record, RecordThenAdvanceIf, UsableInv
  <2> DEFINE n == BackendCount
             m == 1 + 2 * n
             q == runIdx - 1
             r == backendIdx - 1
  <2>2. /\ GroupsInOrder /\ Len(stats) = q * n + r
        /\ Len(rawRows) = q * m + 2 * r + 1
    BY <2>1 DEF CountInv
  <2>3. /\ n \in Nat /\ m \in Nat /\ q \in Nat /\ r \in Nat /\ m = 1 + 2 * n
        /\ q * n \in Nat /\ q * m \in Nat
        /\ runIdx = q + 1 /\ backendIdx = r + 1
    <3>1. backendIdx \in 1 .. BackendCount /\ runIdx \in 1 .. RunCount
      BY <1>1, <2>1 DEF HarnessTypeOK
    <3>2. n \in Nat /\ m \in Nat /\ q \in Nat /\ r \in Nat
      BY <1>1, <3>1
    <3>3. \A a, b \in Nat : a * b \in Nat
      OBVIOUS
    <3>4. q * n \in Nat /\ q * m \in Nat
      BY <3>2, <3>3
    <3> QED
      BY <1>1, <3>1, <3>2, <3>4
  <2>4. (q + 1) * n = q * n + n /\ (q + 1) * m = q * m + m
    <3>1. \A a, b \in Nat : (a + 1) * b = a * b + b
      OBVIOUS
    <3> QED
      BY <2>3, <3>1
  <2>5. Len(rawRows') = Len(rawRows) + 2
    BY <1>7, <2>1, NextRows, RecordMoves
  <2>6. ASSUME HasAllMetrics
        PROVE  GroupsInOrder' /\ Len(stats') = Len(stats) + 1
    <3>1. stats' = Append(stats, StatsGroup)
      BY <1>7, <2>1, <2>6, RecordMoves DEF HasStats
    <3> QED
      BY <1>1, <2>1, <2>2, <2>6, <3>1, NextGroup
  <2>7. CASE ~HasAllMetrics
    <3>1. pc' = "end" /\ exitCode' = 1
      BY <1>7, <2>1, <2>7, RecordMoves
    <3> QED
      BY <1>3, <3>1 DEF CountInv
  <2> HIDE DEF n, m, q, r
  <2>8. CASE HasAllMetrics /\ backendIdx < BackendCount
    <3>1. /\ pc' = "launch" /\ exitCode' = exitCode
          /\ runIdx' = runIdx /\ backendIdx' = backendIdx + 1
      BY <1>1, <1>7, <2>1, <2>8, RecordMoves
    <3>2. runIdx' - 1 = q /\ backendIdx' - 1 = r + 1
      BY <2>3, <3>1
    <3>3. Len(stats') = q * n + (r + 1)
          /\ Len(rawRows') = q * m + 2 * (r + 1) + 1
      BY <2>2, <2>3, <2>5, <2>6, <2>8
    <3>4. /\ Len(stats') = (runIdx' - 1) * BackendCount' + (backendIdx' - 1)
          /\ Len(rawRows') = (runIdx' - 1) * (1 + 2 * BackendCount')
                               + 2 * (backendIdx' - 1) + 1
      BY <1>1, <3>2, <3>3 DEF n, m
    <3> QED
      BY <1>3, <1>4, <2>1, <2>6, <2>8, <3>1, <3>4 DEF CountInv
  <2>9. CASE HasAllMetrics /\ backendIdx = BackendCount /\ runIdx < RunCount
    <3>1. /\ pc' = "baseline" /\ exitCode' = exitCode
          /\ runIdx' = runIdx + 1 /\ backendIdx' = 1
      BY <1>1, <1>7, <2>1, <2>9, RecordMoves
    <3>2. runIdx' - 1 = q + 1 /\ r + 1 = n
      BY <2>3, <2>9, <3>1 DEF n
    <3>3. Len(stats') = (q + 1) * n + 0
          /\ Len(rawRows') = (q + 1) * m + 0 + 0
      BY <2>2, <2>3, <2>4, <2>5, <2>6, <2>9, <3>2
    <3>4. /\ Len(stats') = (runIdx' - 1) * BackendCount' + (backendIdx' - 1)
          /\ Len(rawRows') = (runIdx' - 1) * (1 + 2 * BackendCount')
                               + 2 * (backendIdx' - 1) + 0
      BY <1>1, <3>1, <3>2, <3>3 DEF n, m
    <3> QED
      BY <1>3, <1>4, <2>1, <2>6, <2>9, <3>1, <3>4 DEF CountInv
  <2>10. CASE HasAllMetrics /\ backendIdx = BackendCount /\ runIdx = RunCount
    <3>1. pc' = "end"
      BY <1>1, <1>7, <2>1, <2>10, RecordMoves
    <3>2. q + 1 = RunCount /\ r + 1 = n
      BY <2>3, <2>10 DEF n
    <3>3. Len(stats') = (q + 1) * n /\ Len(rawRows') = (q + 1) * m
      BY <2>2, <2>3, <2>4, <2>5, <2>6, <2>10, <3>2
    <3>4. /\ Len(stats') = RunCount * Len(backendList')
          /\ Len(rawRows') = RunCount * (1 + 2 * Len(backendList'))
      BY <1>1, <3>2, <3>3 DEF n, m
    <3>5. SuccessIsComplete'
      BY <2>6, <2>10, <3>4 DEF SuccessIsComplete, GroupsInOrder, BackendCount
    <3> QED
      BY <3>1, <3>5 DEF CountInv
  <2> QED
    BY <1>7, <2>1, <2>7, <2>8, <2>9, <2>10, RecordMoves
<1>8. CASE GivesUp
  BY <1>3, <1>8, GivingUp DEF CountInv
<1>9. CASE Script /\ ~CheckCall /\ ~Baseline /\ ~Record /\ ~GivesUp
  <2>1. /\ UNCHANGED <<stats, rawRows, runIdx, backendIdx, exitCode>>
        /\ pc \notin {"check", "end", "baseline"}
        /\ pc' \notin {"check", "end", "baseline"}
    BY <1>9, ScriptMoves DEF Moves, csvVars, loopVars
  <2> QED
    BY <1>1, <1>2, <1>3, <1>4, <2>1 DEF CountInv
<1>10. CASE Interrupt
  BY <1>3, <1>10 DEF Interrupt, Exit, CountInv, Terminated
<1>11. CASE ~Script /\ ~Interrupt
  <2>1. UNCHANGED <<stats, rawRows, runIdx, backendIdx, exitCode, pc>>
    BY <1>11, ProcessesLeaveScript DEF scriptVars, csvVars, loopVars
  <2> QED
    BY <1>1, <1>2, <2>1 DEF CountInv, SuccessIsComplete
<1> QED
  BY <1>5, <1>6, <1>7, <1>9, <1>10, <1>11, <1>8
-----------------------------------------------------------------------------
(* The beginning of a call.                                                *)
LEMMA HarnessInitial == HarnessInit => HarnessInv
<1> SUFFICES ASSUME HarnessInit PROVE HarnessInv
  OBVIOUS
<1> USE DEF HarnessInit
<1>1. /\ CallTypes /\ pidFile \in BOOLEAN
      /\ backendList \in Selections /\ installed \subseteq Backends
  BY DEF CallTypes
<1>2. PositionTypes /\ ProcessTypes
  BY HarnessAssumption DEF PositionTypes, ProcessTypes, ExitCode
<1>3. FileTypes
  <2>1. \A S : <<>> \in Seq(S)
    OBVIOUS
  <2> QED
    BY <2>1 DEF FileTypes
<1>4. HarnessTypeOK
  BY <1>1, <1>2, <1>3, TypesInParts
<1>5. UsableInv /\ WaitInv /\ GraceInv
  BY DEF UsableInv, WaitInv, GraceInv, None
<1>6. StaleInv /\ CountInv
  <2>1. Len(stats) = 0
    OBVIOUS
  <2> QED
    BY <2>1 DEF StaleInv, StaleIsFlagged, CountInv, SuccessIsComplete, None
<1> QED
  BY <1>4, <1>5, <1>6 DEF HarnessInv

(* Every step of the script, the target, the profiler and a signal.        *)
LEMMA HarnessStep ==
  ASSUME HarnessInv, [HarnessNext]_harnessVars
  PROVE  HarnessInv'
BY HarnessTypesKept, UsableKept, WaitKept, GraceKept, StaleKept, CountKept
DEF HarnessInv

(* The inductive invariant holds throughout every call of the script.      *)
THEOREM HarnessInvariant == HarnessSpec => []HarnessInv
<1>1. HarnessInit => HarnessInv
  BY HarnessInitial
<1>2. HarnessInv /\ [HarnessNext]_harnessVars => HarnessInv'
  BY HarnessStep
<1> QED
  BY <1>1, <1>2, PTL DEF HarnessSpec

(* Every variable of the script and of its processes keeps its type: the   *)
(* script never looks past its list or its runs, and its rows are those of *)
(* known backends.                                                         *)
THEOREM HarnessTypesOK == HarnessSpec => []HarnessTypeOK
<1>1. HarnessInv => HarnessTypeOK
  BY DEF HarnessInv
<1> QED
  BY <1>1, HarnessInvariant, PTL

(* A script that ends by itself has resumed its target and waited for both *)
(* processes, unless sleep refused the grace period; such a call never     *)
(* comes past its first baseline row, and of one whose list is not usable  *)
(* nothing is begun.                                                       *)
THEOREM ScriptLeavesNothing == HarnessSpec => []NothingLeftBehind
<1>1. HarnessInv => NothingLeftBehind
  <2> SUFFICES ASSUME HarnessInv PROVE NothingLeftBehind
    OBVIOUS
  <2> USE DEF HarnessInv, None, Terminated
  <2>1. exitCode \in {0, 1} /\ target # "none" /\ graceValid =>
          target = "gone" /\ profiler = "exited"
    BY DEF WaitInv
  <2>2. ~graceValid => exitCode # 0 /\ stats = <<>> /\ Len(rawRows) <= 1
    BY DEF GraceInv
  <2>3. pc # "check" /\ ~Usable =>
          rawRows = <<>> /\ target = "none" /\ exitCode \in {1, Terminated}
    BY DEF UsableInv
  <2> QED
    BY <2>1, <2>2, <2>3 DEF NothingLeftBehind
<1> QED
  BY <1>1, HarnessInvariant, PTL

(* Metrics of an earlier call are recorded only beside a failure.          *)
THEOREM StaleMetricsAreFlagged == HarnessSpec => []StaleIsFlagged
<1>1. HarnessInv => StaleIsFlagged
  BY DEF HarnessInv, StaleInv
<1> QED
  BY <1>1, HarnessInvariant, PTL

(* A script that reports success has recorded every run of every backend,  *)
(* in order, complete, and once, however many there are.                   *)
THEOREM SuccessMeansComplete == HarnessSpec => []SuccessIsComplete
<1>1. HarnessInv => SuccessIsComplete
  BY DEF HarnessInv, CountInv
<1> QED
  BY <1>1, HarnessInvariant, PTL
=============================================================================
