-------------------------- MODULE OverheadHarness --------------------------
(***************************************************************************)
(* playground/lib/measure_profiler_overhead.sh: the selected backends are  *)
(* checked; then, for every run, a baseline execution of the target, and   *)
(* one execution per backend that is paused, given a profiler and resumed, *)
(* and whose measurements are recorded.                                    *)
(*                                                                         *)
(* The script, the target under /usr/bin/time and the profiler under       *)
(* /usr/bin/time run concurrently; they meet in the PID file, in STOP and  *)
(* CONT, in two waits and in the files the profiler leaves.  The profiler  *)
(* is perf stat or cache_profiler, whose run loop is CacheProfilerApp; of  *)
(* it this module keeps where it looks at the target and when a row of its *)
(* own is in its output.                                                   *)
(***************************************************************************)
EXTENDS Integers, Sequences

CONSTANTS
  RunCount,        (* RUN_COUNT                                            *)
  Selections,      (* the lists PROFILER_BACKEND may select                *)
  OldOutput,       (* OUTPUT_DIR may hold files of an earlier call         *)
  TimeMayFail,     (* /usr/bin/time may fail to write its file             *)
  LaunchMayFail,   (* the launcher may die before it writes the PID file   *)
  MayInterrupt     (* the script may be interrupted                        *)

Backends == {"perf", "ebpf"}

ASSUME HarnessAssumption ==
  /\ RunCount \in Nat \ {0}
  /\ Selections \subseteq Seq(Backends \union {"other"})
  /\ {OldOutput, TimeMayFail, LaunchMayFail, MayInterrupt} \subseteq BOOLEAN

VARIABLES              (* what the script is called with                   *)
  backendList,         (* BACKEND_LIST                                     *)
  installed,           (* the profilers that are there to be executed      *)
  arguments,           (* "none", only the "separator", or a "command"     *)
  graceValid           (* sleep takes ATTACH_GRACE_SECONDS for a time      *)

VARIABLES              (* the script                                       *)
  pc,                  (* where it is, or "end"                            *)
  runIdx,
  backendIdx,          (* its position in backendList                      *)
  exitCode,            (* of the script, None until it ends                *)
  rawRows,             (* rows of RAW_CSV: is there a time, the exit code  *)
  stats                (* groups of rows of PROFILER_STATS_CSV             *)

VARIABLES              (* the other processes, and the files between them  *)
  target,              (* "none", "launched", "running", "stopped", "gone" *)
  targetExit,
  pidFile,             (* the PID file is not empty                        *)
  profiler,            (* "none", "starting", "attached", "sampling",      *)
                       (* "exited"                                         *)
  profilerExit,
  output               (* what the profiler's output holds: "absent",      *)
                       (* "old" rows, "empty", "partial" (a metric is      *)
                       (* missing), "uncounted" (a metric has no value) or *)
                       (* "own" rows                                       *)

callVars == <<backendList, installed, arguments, graceValid>>
loopVars == <<runIdx, backendIdx>>
csvVars == <<rawRows, stats>>
targetVars == <<target, targetExit, pidFile>>
profilerVars == <<profiler, profilerExit, output>>
processVars == <<targetVars, profilerVars>>
scriptVars == <<callVars, loopVars, csvVars, pc, exitCode>>
harnessVars == <<scriptVars, processVars>>

None == -1
Terminated == 143
ExitCode == {0, 1}

selected_backend == backendList[backendIdx]

HarnessTypeOK ==
  /\ backendList \in Selections
  /\ installed \subseteq Backends
  /\ arguments \in {"none", "separator", "command"}
  /\ graceValid \in BOOLEAN
  /\ pc \in {"check", "baseline", "launch", "waitPid", "stop", "attach",
             "grace", "waitTarget", "waitProfiler", "record", "end"}
  /\ runIdx \in 1 .. RunCount
  /\ pc \in {"check", "end"} \/ backendIdx \in 1 .. Len(backendList)
  /\ exitCode \in {None, 0, 1, Terminated}
  /\ rawRows \in Seq([timed : BOOLEAN, exit : ExitCode])
  /\ stats \in Seq([run : 1 .. RunCount, backend : Backends,
                    complete : BOOLEAN, own : BOOLEAN, exit : ExitCode])
  /\ target \in {"none", "launched", "running", "stopped", "gone"}
  /\ targetExit \in ExitCode
  /\ pidFile \in BOOLEAN
  /\ profiler \in {"none", "starting", "attached", "sampling", "exited"}
  /\ profilerExit \in ExitCode
  /\ output \in {"absent", "old", "empty", "partial", "uncounted", "own"}

HarnessInit ==
  /\ backendList \in Selections
  /\ installed \in SUBSET Backends
  /\ arguments \in {"none", "separator", "command"}
  /\ graceValid \in BOOLEAN
  /\ pc = "check"
  /\ runIdx = 1 /\ backendIdx = 1
  /\ exitCode = None
  /\ rawRows = <<>> /\ stats = <<>>
  /\ target = "none" /\ targetExit = 0 /\ pidFile = FALSE
  /\ profiler = "none" /\ profilerExit = 0 /\ output = "absent"

-----------------------------------------------------------------------------
(* The script goes on to the next of its steps, or it ends.                *)
GoOn(from, to) == pc = from /\ pc' = to /\ UNCHANGED <<callVars, exitCode>>

Exit(code) == pc' = "end" /\ exitCode' = code

(* /usr/bin/time writes its tuple on the first line of its file, but after *)
(* a non-zero exit that line is a message and the tuple comes second.      *)
TimeRow(code) == [timed |-> code = 0, exit |-> code]

(* Before anything is measured: there is a backend, each of them is known  *)
(* and installed, and there is an argument, if only the separator.         *)
Usable ==
  /\ backendList # <<>>
  /\ \A i \in 1 .. Len(backendList) : backendList[i] \in installed
  /\ arguments # "none"

CheckCall ==
  /\ pc = "check"
  /\ IF Usable THEN pc' = "baseline" /\ UNCHANGED exitCode ELSE Exit(1)
  /\ UNCHANGED <<callVars, loopVars, csvVars, processVars>>

(* What can be recorded of the target alone.  Without a command            *)
(* /usr/bin/time fails and writes no file; an old one may be there to read.*)
BaselineRows ==
  IF arguments = "command" THEN {TimeRow(code) : code \in ExitCode}
  ELSE IF OldOutput THEN [timed : BOOLEAN, exit : {1}] ELSE {}

(* The target alone; its exit code is recorded and otherwise ignored.      *)
Baseline ==
  /\ GoOn("baseline", "launch")
  /\ \E row \in BaselineRows : rawRows' = Append(rawRows, row)
  /\ UNCHANGED <<loopVars, stats, processVars>>

(* There is no time file to read: set -e ends the script.                  *)
BaselineFails ==
  /\ pc = "baseline"
  /\ TimeMayFail \/ arguments # "command"
  /\ Exit(1)
  /\ UNCHANGED <<callVars, loopVars, csvVars, processVars>>

(* The old PID file is removed and the launcher is started.                *)
Launch ==
  /\ GoOn("launch", "waitPid")
  /\ target' = "launched"
  /\ pidFile' = FALSE
  /\ UNCHANGED <<loopVars, csvVars, targetExit, profilerVars>>

(* The loop that waits for the PID file has no other way out.              *)
WaitForPid ==
  /\ GoOn("waitPid", "stop")
  /\ pidFile
  /\ UNCHANGED <<loopVars, csvVars, processVars>>

(* A target that is already gone is not an error here.                     *)
StopTarget ==
  /\ GoOn("stop", "attach")
  /\ target' = IF target = "running" THEN "stopped" ELSE target
  /\ UNCHANGED <<loopVars, csvVars, targetExit, pidFile, profilerVars>>

(* The CSV file that the run directory holds already: the one of the same  *)
(* backend earlier in the list, which has rows, or that of an earlier call.*)
CsvBefore ==
  IF \E i \in 1 .. backendIdx - 1 : backendList[i] = "ebpf" THEN {"old"}
  ELSE IF OldOutput THEN {"absent", "empty", "old"} ELSE {"absent"}

(* The redirection empties the output of perf; the CSV file stays as it is *)
(* until cache_profiler creates its logger.                                *)
StartProfiler ==
  /\ GoOn("attach", "grace")
  /\ profiler' = "starting"
  /\ output' \in IF selected_backend = "perf" THEN {"empty"} ELSE CsvBefore
  /\ UNCHANGED <<loopVars, csvVars, targetVars, profilerExit>>

ResumeTargetIf(condition) ==
  /\ GoOn("grace", "waitTarget")
  /\ graceValid
  /\ target' = IF target = "stopped" /\ condition THEN "running" ELSE target
  /\ UNCHANGED <<loopVars, csvVars, targetExit, pidFile, profilerVars>>

(* A mutant: a profiler that is not there yet keeps the target paused.     *)
ResumeTargetOfAttached == ResumeTargetIf(profiler = "attached")

(* ATTACH_GRACE_SECONDS are over, whatever the profiler has done by then.  *)
ResumeTarget == ResumeTargetIf(TRUE)

(* sleep refuses what it is given, and set -e ends the script there: the   *)
(* target stays paused and the profiler, which nobody waits for, runs on.  *)
GraceFails ==
  /\ pc = "grace"
  /\ ~graceValid
  /\ Exit(1)
  /\ UNCHANGED <<callVars, loopVars, csvVars, processVars>>

WaitForTarget ==
  /\ GoOn("waitTarget", "waitProfiler")
  /\ target = "gone"
  /\ UNCHANGED <<loopVars, csvVars, processVars>>

(* A mutant: the second wait is missing.                                   *)
WaitForProfilerNot ==
  /\ GoOn("waitProfiler", "record")
  /\ UNCHANGED <<loopVars, csvVars, processVars>>

WaitForProfiler ==
  /\ GoOn("waitProfiler", "record")
  /\ profiler = "exited"
  /\ UNCHANGED <<loopVars, csvVars, processVars>>

HasAllMetrics == output \in {"old", "own"}

(* perf's rows are written one by one until a metric is missing, but not   *)
(* at all if one has no value; those of a CSV row all at once.             *)
HasStats ==
  HasAllMetrics \/ (selected_backend = "perf" /\ output # "uncounted")

(* The rows of one backend: the metrics of the last CSV row, or those of   *)
(* perf up to the first one that is missing.                               *)
StatsGroup == [run |-> runIdx, backend |-> selected_backend,
               complete |-> HasAllMetrics, own |-> output # "old",
               exit |-> profilerExit]

(* A mutant: off by one at the end of the list.                            *)
AdvancePastTheEnd ==
  IF backendIdx <= Len(backendList)
    THEN /\ backendIdx' = backendIdx + 1
         /\ pc' = "launch"
         /\ UNCHANGED <<runIdx, exitCode>>
    ELSE Exit(0) /\ UNCHANGED loopVars

(* The backend after this one, the next run, or the end.                   *)
Advance ==
  IF backendIdx < Len(backendList)
    THEN /\ backendIdx' = backendIdx + 1
         /\ pc' = "launch"
         /\ UNCHANGED <<runIdx, exitCode>>
    ELSE IF runIdx < RunCount
           THEN /\ runIdx' = runIdx + 1
                /\ backendIdx' = 1
                /\ pc' = "baseline"
                /\ UNCHANGED exitCode
           ELSE Exit(0) /\ UNCHANGED loopVars

(* The rows of both processes are recorded in any case.                    *)
RecordThenAdvanceIf(condition) ==
  /\ pc = "record"
  /\ rawRows' = rawRows \o <<TimeRow(targetExit), TimeRow(profilerExit)>>
  /\ stats' = IF HasStats THEN Append(stats, StatsGroup) ELSE stats
  /\ IF condition THEN Advance ELSE Exit(1) /\ UNCHANGED loopVars
  /\ UNCHANGED <<callVars, processVars>>

(* A mutant: a profiler that left no metrics is passed over.               *)
RecordWhatIsThere == RecordThenAdvanceIf(TRUE)

(* The script ends if the profiler left nothing to record, or not all.     *)
Record == RecordThenAdvanceIf(HasAllMetrics)

(* A time file stays empty: the script gives up before it records anything.*)
RecordFails ==
  /\ TimeMayFail
  /\ pc = "record"
  /\ Exit(1)
  /\ UNCHANGED <<callVars, loopVars, csvVars, processVars>>

(* SIGTERM or SIGKILL to the script, which has no trap: what runs in the   *)
(* background stays as it is.                                              *)
Interrupt ==
  /\ MayInterrupt
  /\ pc # "end"
  /\ Exit(Terminated)
  /\ UNCHANGED <<callVars, loopVars, csvVars, processVars>>

Script ==
  \/ CheckCall \/ Baseline \/ BaselineFails \/ Launch \/ WaitForPid
  \/ StopTarget \/ StartProfiler \/ ResumeTarget \/ GraceFails
  \/ WaitForTarget \/ WaitForProfiler \/ Record \/ RecordFails

-----------------------------------------------------------------------------
TargetIs(before, after) ==
  target = before /\ target' = after /\ UNCHANGED <<scriptVars, profilerVars>>

(* The launcher writes its PID, then becomes the target.                   *)
PublishPid ==
  TargetIs("launched", "running") /\ pidFile' = TRUE /\ UNCHANGED targetExit

LaunchFails ==
  /\ LaunchMayFail
  /\ TargetIs("launched", "gone")
  /\ targetExit' = 1
  /\ UNCHANGED pidFile

(* /usr/bin/time reaps the target at once.                                 *)
TargetExits ==
  /\ TargetIs("running", "gone")
  /\ targetExit' \in ExitCode
  /\ UNCHANGED pidFile

ProfilerIs(before, after) ==
  profiler = before /\ profiler' = after /\ UNCHANGED <<scriptVars, targetVars>>

ProfilerEnds(before, code) ==
  ProfilerIs(before, "exited") /\ profilerExit' = code

ProfilerGoesOn(before, after) ==
  ProfilerIs(before, after) /\ UNCHANGED profilerExit

(* sudo refuses, the arguments or the file are wrong: nothing was touched. *)
StartFails == ProfilerEnds("starting", 1) /\ UNCHANGED output

EbpfStartsWith(content) ==
  /\ \/ ProfilerGoesOn("starting", "attached")
     \/ ProfilerEnds("starting", 1)
  /\ selected_backend = "ebpf"
  /\ output' = content

(* A mutant: the CSV file is opened for appending.                         *)
EbpfStartsAppending ==
  EbpfStartsWith(IF output = "absent" THEN "empty" ELSE output)

(* cache_profiler truncates its CSV file, and may still fail to initialize.*)
EbpfStarts == EbpfStartsWith("empty")

(* A mutant: the target's exit goes unnoticed.                             *)
EbpfChecksNothing ==
  /\ ProfilerGoesOn("attached", "sampling")
  /\ selected_backend = "ebpf"
  /\ UNCHANGED output

(* Its loop looks whether the target is alive before it sleeps, and logs a *)
(* row after it, unless sampling fails.                                    *)
EbpfChecks ==
  /\ IF target = "gone" THEN ProfilerEnds("attached", 0)
     ELSE ProfilerGoesOn("attached", "sampling")
  /\ selected_backend = "ebpf"
  /\ UNCHANGED output

EbpfSamples ==
  \/ ProfilerGoesOn("sampling", "attached") /\ output' = "own"
  \/ ProfilerEnds("sampling", 1) /\ UNCHANGED output

(* perf stat -p opens its counters on a live target only.                  *)
PerfStarts ==
  /\ ProfilerGoesOn("starting", "attached")
  /\ selected_backend = "perf"
  /\ target # "gone"
  /\ UNCHANGED output

(* It prints its counts when the target exits; some may be missing.        *)
PerfPrints ==
  /\ ProfilerEnds("attached", 0)
  /\ selected_backend = "perf"
  /\ target = "gone"
  /\ output' \in {"partial", "uncounted", "own"}

Profiler ==
  \/ StartFails \/ EbpfStarts \/ EbpfChecks \/ EbpfSamples
  \/ PerfStarts \/ PerfPrints

(* The script is over.                                                     *)
ScriptOver == pc = "end" /\ UNCHANGED harnessVars

(* The script polls for ever for a PID that nobody will write.             *)
NobodyPublishes == pc = "waitPid" /\ target = "gone" /\ ~pidFile

WaitForNobody == NobodyPublishes /\ UNCHANGED harnessVars

HarnessNext ==
  \/ Script \/ Interrupt
  \/ PublishPid \/ LaunchFails \/ TargetExits
  \/ Profiler
  \/ ScriptOver \/ WaitForNobody

HarnessSpec == HarnessInit /\ [][HarnessNext]_harnessVars

(* All three processes run on, and the target ends once it is allowed to.  *)
FairHarnessSpec ==
  /\ HarnessSpec
  /\ WF_harnessVars(Script)
  /\ WF_harnessVars(PublishPid \/ LaunchFails)
  /\ WF_harnessVars(TargetExits)
  /\ WF_harnessVars(Profiler)

-----------------------------------------------------------------------------
(* A script that ends by itself, with success or not, leaves no process    *)
(* behind, paused or not: it has resumed the target and waited for both.   *)
(* There is one exception, a grace period that sleep refuses: that is      *)
(* found out with the first target paused and its profiler started, and    *)
(* ends the script there, after one row and never with success.  Of a call *)
(* whose backends cannot all be used nothing is ever begun: the whole list *)
(* is checked before the first run.                                        *)
NothingLeftBehind ==
  /\ exitCode \in {0, 1} /\ target # "none" /\ graceValid =>
       target = "gone" /\ profiler = "exited"
  /\ ~graceValid =>
       exitCode # 0 /\ stats = <<>> /\ Len(rawRows) <= 1
  /\ pc # "check" /\ ~Usable =>
       rawRows = <<>> /\ target = "none" /\ exitCode \in {1, Terminated}

(* "This script enforces this schema so outputs are directly comparable":  *)
(* after success there is one complete group of metrics for every run and  *)
(* backend, in order, and one row for every measured process.              *)
SuccessIsComplete ==
  exitCode = 0 =>
    LET n == Len(backendList) IN
    /\ Len(rawRows) = RunCount * (1 + 2 * n)
    /\ Len(stats) = RunCount * n
    /\ \A i \in 1 .. Len(stats) :
         /\ stats[i].run = (i - 1) \div n + 1
         /\ stats[i].backend = backendList[((i - 1) % n) + 1]
         /\ stats[i].complete

(* Metrics that an earlier call of the script left in the output directory *)
(* are recorded only beside a profiler that reports failure.               *)
StaleIsFlagged ==
  \A i \in 1 .. Len(stats) : stats[i].own \/ stats[i].exit # 0

(* A paused target is resumed, however the profiler fares, unless the      *)
(* script is terminated.  It depends on a grace period that sleep accepts, *)
(* which nothing checks: with another one the target stays paused.         *)
PausedTargetResumes ==
  (target = "stopped" /\ graceValid)
    ~> (target # "stopped" \/ exitCode = Terminated)

(* The script ends, unless the launcher died without publishing its PID.   *)
HarnessEnds == <>(pc = "end" \/ NobodyPublishes)
=============================================================================
