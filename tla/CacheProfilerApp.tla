-------------------------- MODULE CacheProfilerApp --------------------------
(***************************************************************************)
(* CacheProfilerApp: its constructor, run and its destruction, around the  *)
(* CSV logger of CsvCacheSampleLogger.  The loop of run reacts to a stop   *)
(* signal, to the target's exit, to a failed sample and to the duration    *)
(* limit, and looks at each of them at one place only.                     *)
(*                                                                         *)
(* Its surroundings are the target, which runs, exits (a zombie until its  *)
(* parent reaps it, then gone) and whose PID may be given to another       *)
(* process; SIGINT and SIGTERM; and the clock, counted in microseconds of  *)
(* which UsPerMs make one millisecond.                                     *)
(***************************************************************************)
EXTENDS CsvCacheSampleLogger

CONSTANTS
  sampleIntervalMs,    (* ProfilingConfig                                  *)
  profileDurationMs,
  UsPerMs,             (* 1000 in the code                                 *)
  UintRange,           (* 2^32: the range of the argument of usleep        *)
  ReadUs,              (* what reading one sample takes                    *)
  MaxElapsed,          (* bound: the clock stops there                     *)
  ProfilerMayFail,     (* whether initializeProfiling or sampleOnce fails  *)
  ReapIsCertain,       (* whether the target's parent reaps it             *)
  PidReuse             (* whether the PID may be given to a new process    *)

ASSUME AppAssumption ==
  /\ {ProfilerMayFail, ReapIsCertain, PidReuse} \subseteq BOOLEAN
  /\ {sampleIntervalMs, profileDurationMs, UsPerMs, UintRange, ReadUs,
      MaxElapsed} \subseteq Nat \ {0}

VARIABLES              (* the configuration of a run, chosen by main       *)
  csvLogEnabled,       (* CacheSampleLoggerConfig                          *)
  terminalLogEnabled,
  hasDurationLimit     (* ProfilingConfig                                  *)

VARIABLES
  pc,             (* where the program is                                  *)
  handlersSet,    (* signal() was called for SIGINT and SIGTERM            *)
  gStopRequested,
  status,         (* what run returns: 0, or the negative error            *)
  elapsed,        (* microseconds since startTime                          *)
  elapsedMs,      (* the local variable, at the last sample                *)
  target          (* "running", "zombie", "gone" or "reused"               *)

(* History variables: no guard reads them.                                 *)
VARIABLES
  sinceRow,       (* microseconds since the last sample was logged         *)
  rowsAfterExit   (* samples logged since the target was reaped            *)

signalVars == <<handlersSet, gStopRequested>>
clockVars == <<elapsed, elapsedMs, sinceRow>>
targetVars == <<target, rowsAfterExit>>
configVars == <<csvLogEnabled, terminalLogEnabled, hasDurationLimit>>
runVars == <<loggerVars, pc, status, signalVars, clockVars, targetVars,
             configVars>>

(* Mutant: milliseconds are taken for microseconds.                        *)
SleepUsUnscaled == sampleIntervalMs % UintRange

(* The argument of usleep: a product of two 32-bit unsigned integers.      *)
SleepUs == (sampleIntervalMs * UsPerMs) % UintRange

Min2(a, b) == IF a <= b THEN a ELSE b

(* The process is over.                                                    *)
Ended == pc \in {"done", "dead"}

(* run returned, or will not return any more.                              *)
RunEnded == pc \in {"returned", "destroying"} \/ Ended

AppTypeOK ==
  /\ LoggerTypeOK
  /\ {csvLogEnabled, terminalLogEnabled, hasDurationLimit} \subseteq BOOLEAN
  /\ pc \in {"construct", "run", "initialize", "loop", "alive", "sleep",
             "sample", "log", "limit", "exiting", "returned", "destroying",
             "done", "dead"}
  /\ handlersSet \in BOOLEAN
  /\ gStopRequested \in BOOLEAN
  /\ status \in {0, -1}
  /\ elapsed \in 0 .. MaxElapsed
  /\ elapsedMs \in 0 .. MaxElapsed
  /\ target \in {"running", "zombie", "gone", "reused"}
  /\ sinceRow \in Nat
  /\ rowsAfterExit \in 0 .. MaxRows

AppInit ==
  /\ LoggerInit
  /\ csvLogEnabled \in BOOLEAN
  /\ terminalLogEnabled \in BOOLEAN
  /\ hasDurationLimit \in BOOLEAN
  /\ pc = "construct"
  /\ handlersSet = FALSE
  /\ gStopRequested = FALSE
  /\ status = 0
  /\ elapsed = 0
  /\ elapsedMs = 0
  /\ target = "running"
  /\ sinceRow = 0
  /\ rowsAfterExit = 0

-----------------------------------------------------------------------------
Goto(label) == pc' = label

(* Mutant: the error is returned with its sign lost.                       *)
ReturnPositive(code) == pc' = "returned" /\ status' = -code

Return(code) == pc' = "returned" /\ status' = code

(* An exit of the loop: run returns 0 if `stop`, else it goes on.          *)
ReturnIf(stop, label) ==
  IF stop THEN Return(0) ELSE Goto(label) /\ UNCHANGED status

Pass(us) ==
  /\ elapsed' = Min2(elapsed + us, MaxElapsed)
  /\ sinceRow' = sinceRow + us

(* The constructor makes the CSV logger and keeps the outcome of create.   *)
Construct ==
  /\ pc = "construct"
  /\ Goto("run")
  /\ \/ ~csvLogEnabled /\ UNCHANGED loggerVars
     \/ csvLogEnabled /\ (Create \/ CreateFails)
  /\ status' = IF lifecycle' = "rejected"
                  \/ ~(csvLogEnabled \/ terminalLogEnabled) THEN -1 ELSE 0
  /\ UNCHANGED <<signalVars, clockVars, targetVars>>

(* run returns a failed logger setup, else it sets the signal handlers.    *)
Run ==
  /\ pc = "run"
  /\ IF status # 0
       THEN Goto("returned") /\ UNCHANGED handlersSet
       ELSE Goto("initialize") /\ handlersSet' = TRUE
  /\ UNCHANGED <<loggerVars, gStopRequested, status, clockVars, targetVars>>

Initialize ==
  /\ pc = "initialize"
  /\ \/ Goto("loop") /\ UNCHANGED status
     \/ ProfilerMayFail /\ Return(-1)
  /\ UNCHANGED <<loggerVars, signalVars, clockVars, targetVars>>

CheckStopIf(stop) ==
  /\ pc = "loop"
  /\ ReturnIf(stop, "alive")
  /\ UNCHANGED <<loggerVars, signalVars, clockVars, targetVars>>

(* Mutant: while (true).                                                   *)
CheckStopNever == CheckStopIf(FALSE)

(* The condition of the loop.                                              *)
CheckStop == CheckStopIf(gStopRequested)

(* Mutant: every error of kill is taken for a live process.                *)
isProcessAliveAlways == TRUE

(* kill(pid, 0) finds a zombie, and whatever process has the PID now.      *)
isProcessAlive == target # "gone"

(* Of a target that is gone the CSV logger, if there is one, is told.      *)
CheckAliveTelling(hasLogger, label) ==
  /\ pc = "alive"
  /\ IF isProcessAlive
       THEN Goto("sleep") /\ UNCHANGED loggerVars
       ELSE /\ Goto(label)
            /\ IF hasLogger THEN LogTargetExit ELSE UNCHANGED loggerVars
  /\ UNCHANGED <<status, signalVars, clockVars, targetVars>>

(* Mutants: the loop is left without a last flush; or it is not left.      *)
CheckAliveWithoutFlush == CheckAliveTelling(FALSE, "exiting")
CheckAliveContinuing == CheckAliveTelling(csvLogEnabled, "limit")

CheckAlive == CheckAliveTelling(csvLogEnabled, "exiting")

(* logTargetExit has flushed, and run returns.                             *)
ReturnOnExit ==
  /\ pc = "exiting"
  /\ ~flushing
  /\ Return(0)
  /\ UNCHANGED <<loggerVars, signalVars, clockVars, targetVars>>

(* sampleOnce, its usleep.                                                 *)
Sleep ==
  /\ pc = "sleep"
  /\ Goto("sample")
  /\ Pass(SleepUs)
  /\ UNCHANGED <<loggerVars, signalVars, status, elapsedMs, targetVars>>

(* A signal handler that runs during usleep ends it early.                 *)
SleepInterrupted ==
  /\ pc = "sleep"
  /\ gStopRequested' = TRUE
  /\ Goto("sample")
  /\ \E us \in 0 .. SleepUs : Pass(us)
  /\ UNCHANGED <<loggerVars, handlersSet, status, elapsedMs, targetVars>>

(* sampleOnce, its readTotals; a good sample is given the time `uptime`.   *)
SampleAt(uptime) ==
  /\ pc = "sample"
  /\ Pass(ReadUs)
  /\ \/ Goto("log") /\ elapsedMs' = uptime /\ UNCHANGED status
     \/ ProfilerMayFail /\ Return(-1) /\ UNCHANGED elapsedMs
  /\ UNCHANGED <<loggerVars, signalVars, targetVars>>

(* Mutant: the uptime is not computed again.                               *)
SampleWithOldUptime == SampleAt(elapsedMs)

(* The uptime is computed after the sample was read.                       *)
Sample == SampleAt(elapsed' \div UsPerMs)

(* Past the bound MaxRows the run goes on, but hands no samples to the CSV *)
(* logger any more.                                                        *)
Log ==
  /\ pc = "log"
  /\ Goto("limit")
  /\ IF csvLogEnabled /\ rowCount < MaxRows THEN LogSample ELSE UNCHANGED loggerVars
  /\ sinceRow' = 0
  /\ rowsAfterExit' = IF target = "gone"
                        THEN Min2(rowsAfterExit + 1, MaxRows)
                        ELSE rowsAfterExit
  /\ UNCHANGED <<signalVars, status, elapsed, elapsedMs, target>>

CheckLimitIf(reached) ==
  /\ pc = "limit"
  /\ ~flushing
  /\ ReturnIf(hasDurationLimit /\ reached, "loop")
  /\ UNCHANGED <<loggerVars, signalVars, clockVars, targetVars>>

(* Mutant: the time compared is the one before the sleep and the reading.  *)
CheckLimitBeforeTurn ==
  CheckLimitIf(
    (elapsed - SleepUs - ReadUs) \div UsPerMs >= profileDurationMs)

CheckLimit == CheckLimitIf(elapsedMs >= profileDurationMs)

(* main returns: the app is destroyed, and with it the CSV logger.         *)
DestroyApp ==
  /\ pc = "returned"
  /\ IF lifecycle = "open"
       THEN Goto("destroying") /\ Destroy
       ELSE Goto("done") /\ UNCHANGED loggerVars
  /\ UNCHANGED <<signalVars, status, clockVars, targetVars>>

FinishDestroy ==
  /\ pc = "destroying"
  /\ lifecycle = "closed"
  /\ Goto("done")
  /\ UNCHANGED <<loggerVars, signalVars, status, clockVars, targetVars>>

(* The logger's own steps, while a call of it is under way.                *)
LoggerStep == Step /\ UNCHANGED <<pc, status, signalVars, clockVars, targetVars>>

App ==
  \/ Construct \/ Run \/ Initialize
  \/ CheckStop \/ CheckAlive \/ Sleep \/ Sample \/ Log \/ CheckLimit
  \/ ReturnOnExit \/ DestroyApp \/ FinishDestroy
  \/ LoggerStep

-----------------------------------------------------------------------------
(* The process dies at once, and with it what the CSV logger has in memory.*)
Die ==
  /\ Goto("dead")
  /\ IF lifecycle = "open" THEN Kill ELSE UNCHANGED loggerVars

(* SIGINT or SIGTERM: it sets the flag once the handlers are set, until    *)
(* then it ends the process.                                               *)
StopSignal ==
  /\ ~Ended
  /\ \/ handlersSet /\ gStopRequested' = TRUE /\ UNCHANGED <<loggerVars, pc>>
     \/ ~handlersSet /\ Die /\ UNCHANGED gStopRequested
  /\ UNCHANGED <<handlersSet, status, clockVars, targetVars>>

KillApp ==
  /\ ~Ended
  /\ Die
  /\ UNCHANGED <<signalVars, status, clockVars, targetVars>>

(* The life of the target, which the program's own state does not see.     *)
TargetBecomes(fate) ==
  /\ target' = fate
  /\ UNCHANGED <<loggerVars, pc, status, signalVars, clockVars>>

TargetExits ==
  /\ target \in {"running", "reused"}
  /\ TargetBecomes("zombie")
  /\ UNCHANGED rowsAfterExit

TargetIsReaped ==
  /\ target = "zombie"
  /\ TargetBecomes("gone")
  /\ UNCHANGED rowsAfterExit

PidIsReused ==
  /\ PidReuse
  /\ target = "gone"
  /\ TargetBecomes("reused")
  /\ rowsAfterExit' = 0

Environment ==
  StopSignal \/ SleepInterrupted \/ KillApp
    \/ TargetExits \/ TargetIsReaped \/ PidIsReused

(* Nothing is left to do.                                                  *)
Over == Ended /\ UNCHANGED runVars

AppNext == (App \/ Environment \/ Over) /\ UNCHANGED configVars

AppSpec == AppInit /\ [][AppNext]_runVars

(* The program runs on, usleep included, and a zombie is reaped if the     *)
(* target's parent is known to do so.                                      *)
FairAppSpec ==
  /\ AppSpec
  /\ WF_runVars(App /\ UNCHANGED configVars)
  /\ ReapIsCertain => WF_runVars(TargetIsReaped /\ UNCHANGED configVars)

-----------------------------------------------------------------------------
(* Whatever ends run on the target's exit, every sample is in the file     *)
(* before it returns, unless the stream failed.                            *)
ExitSavesRows ==
  (pc = "exiting" /\ ~flushing /\ csvLogEnabled /\ ~streamBad)
    => file = LoggedRows

(* A limited run overshoots its limit by less than one sampling period and *)
(* the reading of its last sample (what logging takes is not counted).     *)
OvershootBounded ==
  hasDurationLimit =>
    elapsed < profileDurationMs * UsPerMs + SleepUs + ReadUs

(* A target that is gone is noticed at the next turn of the loop: at most  *)
(* one more sample is logged for it, unless somebody else gets its PID.    *)
AtMostOneRowAfterExit == rowsAfterExit <= 1

(* A stop signal that was caught ends run, wherever it strikes.            *)
StopEndsRun == gStopRequested ~> RunEnded

(* A limited run ends, whatever the target does.                           *)
LimitEndsRun == hasDurationLimit ~> RunEnded

(* A run ends once its target was reaped, if nobody else gets the PID.     *)
ReapedTargetEndsRun ==
  (target = "gone") ~> (RunEnded \/ target = "reused")

(* "profiling continues until the profiler is stopped or the target PID    *)
(* exits": a target that exited ends the run.                              *)
ExitedTargetEndsRun == (target = "zombie") ~> RunEnded

(* Samples come at least interval_ms apart, taken modulo the range of      *)
(* usleep's argument, unless a stop signal cuts the sleep short.           *)
SamplesAreSpaced ==
  pc = "log" /\ ~gStopRequested =>
    sinceRow >= (sampleIntervalMs * UsPerMs) % UintRange

(* "interval_ms: sampling period between emitted cumulative snapshots":    *)
(* samples come at least interval_ms apart.                                *)
IntervalIsKept ==
  pc = "log" /\ ~gStopRequested => sinceRow >= sampleIntervalMs * UsPerMs
=============================================================================
