-------------------------- MODULE ProfilerSession --------------------------
(***************************************************************************)
(* One session end to end: the run loop and CSV logger of CacheProfilerApp *)
(* on top of the reader and the sampler, and the target whose life both    *)
(* sides see.                                                              *)
(*                                                                         *)
(* initializeProfiling is the set-up of CacheSampler, sampleOnce one read  *)
(* of CacheSampleReader, and a row is the sample that was logged.  The     *)
(* target works and is scheduled only while it lives; it exits on a CPU,   *)
(* and may be reaped before that CPU switches away from it for good.       *)
(***************************************************************************)
EXTENDS CacheSampleReader, Sequences

CONSTANTS              (* those of CacheProfilerApp                        *)
  FlushSampleCount, MaxRows, WriteMayFail, sampleIntervalMs,
  profileDurationMs, UsPerMs, UintRange, ReadUs, MaxElapsed,
  ProfilerMayFail, ReapIsCertain, PidReuse

ASSUME SessionAssumption ==
  /\ FlushSampleCount \in Nat /\ MaxRows \in Nat
  /\ WriteMayFail \in BOOLEAN
  /\ {ProfilerMayFail, ReapIsCertain, PidReuse} \subseteq BOOLEAN
  /\ {sampleIntervalMs, profileDurationMs, UsPerMs, UintRange, ReadUs,
      MaxElapsed} \subseteq Nat \ {0}

VARIABLES              (* those of CacheProfilerApp                        *)
  lifecycle, rowCount, pendingRows, putArea, file, streamBad, flushing,
  insertIdx, closing, shortRows, csvLogEnabled, terminalLogEnabled,
  hasDurationLimit, pc, handlersSet, gStopRequested, status, elapsed,
  elapsedMs, target, sinceRow, rowsAfterExit

(* History variables: no guard reads them.                                 *)
VARIABLES
  rows,         (* rows[i]: the sample handed to the logger as row i       *)
  earnedAtArm,  (* `earned` when the target PID was published              *)
  settled,      (* settled[c][e]: what the target had caused on c since    *)
                (* then by the last switch that c has finished             *)
  owed          (* `settled` when the last read began                      *)

App == INSTANCE CacheProfilerApp

accountVars == <<rows, earnedAtArm, settled, owed>>
configVars == <<csvLogEnabled, terminalLogEnabled, hasDurationLimit>>
runVars == <<lifecycle, rowCount, pendingRows, putArea, file, streamBad,
             flushing, insertIdx, closing, shortRows, configVars, pc,
             handlersSet, gStopRequested, status, elapsed, elapsedMs, target,
             sinceRow, rowsAfterExit>>
sessionVars == <<allVars, runVars, accountVars>>

SessionInit ==
  /\ ReaderInit
  /\ App!AppInit
  /\ csvLogEnabled
  /\ ~terminalLogEnabled /\ ~hasDurationLimit
  /\ rows = <<>>
  /\ earnedAtArm = Zero
  /\ settled = Zero
  /\ owed = Zero

-----------------------------------------------------------------------------
(* initializeProfiling: the set-up, whose last step publishes the PID.     *)
SetUpStep ==
  /\ pc = "initialize"
  /\ OpenCounter \/ BindCounter \/ AttachProgram
  /\ UNCHANGED <<readerVars, runVars, accountVars>>

InitializeSucceeds ==
  /\ App!Initialize /\ pc' = "loop"
  /\ ConfigureTargetPid
  /\ earnedAtArm' = earned
  /\ UNCHANGED <<readerVars, configVars, rows, settled, owed>>

InitializeFails ==
  /\ App!Initialize /\ pc' = "returned"
  /\ UNCHANGED <<allVars, configVars, accountVars>>

(* sampleOnce after its sleep: readTotals, and what run makes of it.       *)
StartReading ==
  /\ pc = "sample"
  /\ BeginRead
  /\ owed' = settled
  /\ UNCHANGED <<runVars, rows, earnedAtArm, settled>>

KeepReading ==
  /\ pc = "sample"
  /\ CopySlot
  /\ UNCHANGED <<runVars, accountVars>>

SampleSucceeds ==
  /\ EndRead
  /\ App!Sample /\ pc' = "log"
  /\ UNCHANGED <<configVars, accountVars>>

SampleFails ==
  /\ LookupFails
  /\ App!Sample /\ pc' = "returned"
  /\ UNCHANGED <<configVars, accountVars>>

(* Mutant: the local variable is logged with the values it started with.   *)
LogUnassigned ==
  /\ App!Log
  /\ rows' = Append(rows, NoSlots)
  /\ UNCHANGED <<allVars, configVars, earnedAtArm, settled, owed>>

LogSample ==
  /\ App!Log
  /\ rows' = Append(rows, sample)
  /\ UNCHANGED <<allVars, configVars, earnedAtArm, settled, owed>>

(* The rest of run.  The loop is followed for MaxRows samples.             *)
RunStep ==
  /\ \/ App!Construct \/ App!Run \/ App!CheckStop \/ App!CheckAlive
     \/ App!CheckLimit \/ App!ReturnOnExit
     \/ App!DestroyApp \/ App!FinishDestroy \/ App!LoggerStep
     \/ rowCount < MaxRows /\ (App!Sleep \/ App!SleepInterrupted)
     \/ App!StopSignal \/ App!KillApp \/ App!TargetIsReaped \/ App!Over
  /\ UNCHANGED <<allVars, configVars, accountVars>>

Session ==
  \/ SetUpStep \/ InitializeSucceeds \/ InitializeFails
  \/ StartReading \/ KeepReading \/ SampleSucceeds \/ SampleFails
  \/ LogSample \/ RunStep

-----------------------------------------------------------------------------
(* The target exits while it runs on some CPU; it does not work after it.  *)
TargetExits ==
  /\ \E c \in Cpu : running[c] = Target /\ ~inSwitch[c]
  /\ App!TargetExits
  /\ UNCHANGED <<allVars, configVars, accountVars>>

Schedulable ==
  IF target = "running" THEN Process ELSE Process \ {Target}

(* A switch that c finishes ends what its outgoing process did.            *)
Settle(c) ==
  settled' = IF target_pid # Target THEN settled
             ELSE [settled EXCEPT ![c] =
                     [e \in Event |-> earned[c][e] - earnedAtArm[c][e]]]

(* The kernel, as long as run may still look at its counts.                *)
KernelStep(c) ==
  /\ ~App!RunEnded
  /\ \/ /\ \/ running[c] \in Schedulable /\ Work(c)
           \/ SampleOnSchedSwitch(c)
           \/ SampleEvent(c)
           \/ \E p \in Schedulable : UnobservedSwitch(c, p)
        /\ UNCHANGED settled
     \/ (\E p \in Schedulable : SwitchTo(c, p)) /\ Settle(c)
  /\ UNCHANGED <<readerVars, runVars, rows, earnedAtArm, owed>>

SessionNext == Session \/ TargetExits \/ \E c \in Cpu : KernelStep(c)

SessionSpec == SessionInit /\ [][SessionNext]_sessionVars

-----------------------------------------------------------------------------
(* No row in the file ever reports more than the target itself had caused  *)
(* by now, beyond what reads without a baseline brought in, through torn   *)
(* reads, late flushes and rows that outlive the target.                   *)
RowsAreHonest ==
  \A i \in 1 .. Len(file), c \in Cpu, e \in Event :
    rows[file[i]][e][c] <= earned[c][e] + inherited[c][e]

(* "each metric is cumulative since profiling initialization": with a good *)
(* stream and counters that can be read, the last row of a run that ended  *)
(* well reports all that the target had caused on each CPU from then to    *)
(* the last switch the CPU had finished when the last read began, whoever  *)
(* was on the CPU by then.  If the target had been switched out for good,  *)
(* that is all it ever caused.                                             *)
LastRowIsComplete ==
  pc = "done" /\ status = 0 /\ ~streamBad /\ ~ReadMayFail =>
    IF file = <<>> THEN owed = Zero
    ELSE \A c \in Cpu, e \in Event :
           rows[file[Len(file)]][e][c] >= owed[c][e]

(* Row by row, the file of a good stream never reports an event lower than *)
(* before, although samples are torn, rows are buffered and flushed late.  *)
RowsNeverDecrease ==
  ~streamBad =>
    \A i, j \in 1 .. Len(file), c \in Cpu, e \in Event :
      i < j => rows[file[i]][e][c] <= rows[file[j]][e][c]
=============================================================================
