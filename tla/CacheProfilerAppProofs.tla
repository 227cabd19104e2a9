----------------------- MODULE CacheProfilerAppProofs -----------------------
(***************************************************************************)
(* Machine-checked proofs about CacheProfilerApp, for any flush threshold, *)
(* interval, duration limit, clock and number of samples: run leaves no    *)
(* row behind when it ends on the target's exit, oversteps its duration    *)
(* limit by less than a sampling period, logs one row at most of a target  *)
(* that is gone, and keeps its samples apart.                              *)
(*                                                                         *)
(* Every step of the program is a step of its CSV logger or leaves it      *)
(* alone, so the logger's inductive invariant is kept as it is.  What is   *)
(* added to it ties the place in run to the logger, to the clock and to    *)
(* the target's fate.                                                      *)
(***************************************************************************)
EXTENDS CacheProfilerApp, CsvCacheSampleLoggerProofs

(* The numbers among the variables, and the places.                        *)
RunTypes ==
  /\ pc \in {"construct", "run", "initialize", "loop", "alive", "sleep",
             "sample", "log", "limit", "exiting", "returned", "destroying",
             "done", "dead"}
  /\ status \in {0, -1}
  /\ elapsed \in 0 .. MaxElapsed
  /\ elapsedMs \in 0 .. MaxElapsed
  /\ target \in {"running", "zombie", "gone", "reused"}
  /\ sinceRow \in Nat
  /\ rowsAfterExit \in 0 .. MaxRows

(* The flags.                                                              *)
FlagTypes ==
  /\ csvLogEnabled \in BOOLEAN
  /\ terminalLogEnabled \in BOOLEAN
  /\ hasDurationLimit \in BOOLEAN
  /\ handlersSet \in BOOLEAN
  /\ gStopRequested \in BOOLEAN

(* A flush that run began on the target's exit forgets every row once it   *)
(* is over, unless the stream failed; only a process that died has lost    *)
(* rows another way.                                                       *)
ExitInv ==
  /\ lifecycle = "killed" => pc = "dead"
  /\ pc = "exiting" /\ ~flushing /\ csvLogEnabled /\ ~streamBad =>
       pendingRows = <<>>

BeforeLimit == pc \in {"construct", "run", "initialize", "loop", "alive",
                       "sleep"}

(* Below the limit when a turn of the loop begins, the clock has gained at *)
(* most the sleep and the reading when the limit is compared again.        *)
LimitInv ==
  /\ elapsed < profileDurationMs * UsPerMs + SleepUs + ReadUs
  /\ BeforeLimit => elapsed < profileDurationMs * UsPerMs
  /\ pc = "sample" => elapsed < profileDurationMs * UsPerMs + SleepUs
  /\ pc \in {"log", "limit"} => elapsedMs = elapsed \div UsPerMs

(* A row of a target that is gone was logged in the turn of the loop that  *)
(* was under way; none follows.                                            *)
LastTurnInv ==
  /\ rowsAfterExit > 0 =>
       /\ rowsAfterExit = 1 /\ target = "gone"
       /\ pc \notin {"sleep", "sample", "log"}

(* A whole sleep lies before a sample.                                     *)
SpacingInv ==
  pc \in {"sample", "log"} /\ ~gStopRequested => sinceRow >= SleepUs

AppInv ==
  /\ LoggerInv /\ RunTypes /\ FlagTypes
  /\ ExitInv /\ (hasDurationLimit => LimitInv) /\ LastTurnInv /\ SpacingInv
-----------------------------------------------------------------------------
(* The numbers the constants stand for.                                    *)
LEMMA AppBounds ==
  /\ FlushSampleCount \in Nat /\ MaxRows \in Nat
  /\ sampleIntervalMs \in Nat \ {0} /\ profileDurationMs \in Nat \ {0}
  /\ UsPerMs \in Nat \ {0} /\ UintRange \in Nat \ {0}
  /\ ReadUs \in Nat \ {0} /\ MaxElapsed \in Nat \ {0}
BY LoggerAssumption, AppAssumption

(* A product of numbers is one.                                            *)
LEMMA ProductIsNat == \A m, n \in Nat : m * n \in Nat
OBVIOUS

(* The sleep is a number, the asked one if it fits its type.               *)
LEMMA SleepIsNat ==
  /\ SleepUs \in Nat
  /\ sampleIntervalMs * UsPerMs < UintRange =>
       SleepUs = sampleIntervalMs * UsPerMs
<1>1. sampleIntervalMs * UsPerMs \in Nat
  BY AppBounds, ProductIsNat
<1>2. \A m \in Nat, n \in Nat \ {0} : m % n \in Nat /\ (m < n => m % n = m)
  OBVIOUS
<1> QED
  BY <1>1, <1>2, AppBounds DEF SleepUs

(* The time in whole milliseconds is at most the time.                     *)
LEMMA WholeMilliseconds ==
  \A us \in Nat : us \div UsPerMs \in 0 .. us
<1> SUFFICES ASSUME NEW us \in Nat PROVE us \div UsPerMs \in 0 .. us
  OBVIOUS
<1>1. \A q, n \in Nat : n >= 1 => q <= n * q
  OBVIOUS
<1>2. us \div UsPerMs \in Nat /\ UsPerMs * (us \div UsPerMs) <= us
  BY AppBounds
<1>3. us \div UsPerMs <= UsPerMs * (us \div UsPerMs)
  BY <1>1, <1>2, AppBounds
<1> QED
  BY <1>2, <1>3, AppBounds, ProductIsNat

(* Fewer whole milliseconds than the limit has are less time than it.      *)
LEMMA BelowLimit ==
  ASSUME NEW us \in Nat, us \div UsPerMs < profileDurationMs
  PROVE  us < profileDurationMs * UsPerMs
<1> DEFINE ms == us \div UsPerMs
<1>1. ms \in Nat /\ us < UsPerMs * ms + UsPerMs
  BY AppBounds
<1>2. ms + 1 <= profileDurationMs
  BY <1>1, AppBounds
<1> HIDE DEF ms
<1>3. (ms + 1) * UsPerMs <= profileDurationMs * UsPerMs
  <2>1. \A a, b, n \in Nat : a <= b => a * n <= b * n
    OBVIOUS
  <2> QED
    BY <1>1, <1>2, <2>1, AppBounds
<1>4. (ms + 1) * UsPerMs = UsPerMs * ms + UsPerMs
  BY <1>1, AppBounds
<1> QED
  BY <1>1, <1>3, <1>4, AppBounds, ProductIsNat

(* The clock stops at its bound.                                           *)
LEMMA PassEffect ==
  ASSUME RunTypes, NEW us \in Nat, Pass(us)
  PROVE  /\ elapsed' \in 0 .. MaxElapsed /\ elapsed' <= elapsed + us
         /\ sinceRow' \in Nat /\ sinceRow' >= us /\ sinceRow' >= sinceRow
BY AppBounds DEF RunTypes, Pass, Min2

(* What run and its surroundings do to the CSV logger are steps of it.     *)
LEMMA AppStepIsLoggerStep ==
  ASSUME [AppNext]_runVars
  PROVE  [LoggerNext]_loggerVars
<1> USE DEF LoggerNext, Call
<1>1. CASE Construct
  BY <1>1 DEF Construct
<1>2. CASE CheckAlive
  BY <1>2 DEF CheckAlive, CheckAliveTelling
<1>3. CASE Log
  BY <1>3 DEF Log
<1>4. CASE DestroyApp
  BY <1>4 DEF DestroyApp
<1>5. CASE LoggerStep
  BY <1>5 DEF LoggerStep
<1>6. CASE StopSignal \/ KillApp
  BY <1>6 DEF StopSignal, KillApp, Die
<1>7. CASE Run \/ Initialize \/ CheckStop \/ CheckLimit \/ ReturnOnExit
             \/ FinishDestroy
  BY <1>7 DEF Run, Initialize, CheckStop, CheckStopIf, CheckLimit,
       CheckLimitIf, ReturnOnExit, FinishDestroy
<1>8. CASE Sleep \/ SleepInterrupted \/ Sample
  BY <1>8 DEF Sleep, SleepInterrupted, Sample, SampleAt
<1>9. CASE TargetExits \/ TargetIsReaped \/ PidIsReused
  BY <1>9 DEF TargetExits, TargetIsReaped, PidIsReused, TargetBecomes
<1>10. CASE Over \/ UNCHANGED runVars
  BY <1>10 DEF Over, runVars
<1> QED
  BY <1>1, <1>2, <1>3, <1>4, <1>5, <1>6, <1>7, <1>8, <1>9, <1>10
  DEF AppNext, App, Environment

(* The flags stay flags.                                                   *)
LEMMA FlagsStayFlags ==
  ASSUME FlagTypes, [AppNext]_runVars
  PROVE  FlagTypes' /\ UNCHANGED configVars
<1> USE DEF FlagTypes, configVars, signalVars
<1>1. UNCHANGED configVars
  BY DEF AppNext, runVars
<1>2. /\ handlersSet' = handlersSet \/ handlersSet' = TRUE
      /\ gStopRequested' = gStopRequested \/ gStopRequested' = TRUE
  <2>1. CASE Run \/ SleepInterrupted \/ StopSignal
    BY <2>1 DEF Run, SleepInterrupted, StopSignal
  <2>2. CASE Construct \/ Initialize \/ CheckStop \/ CheckAlive \/ Sleep
    BY <2>2 DEF Construct, Initialize, CheckStop, CheckStopIf, CheckAlive,
         CheckAliveTelling, Sleep
  <2>3. CASE Sample \/ Log \/ CheckLimit \/ ReturnOnExit
    BY <2>3 DEF Sample, SampleAt, Log, CheckLimit, CheckLimitIf, ReturnOnExit
  <2>4. CASE DestroyApp \/ FinishDestroy \/ LoggerStep \/ KillApp
    BY <2>4 DEF DestroyApp, FinishDestroy, LoggerStep, KillApp
  <2>5. CASE TargetExits \/ TargetIsReaped \/ PidIsReused
    BY <2>5 DEF TargetExits, TargetIsReaped, PidIsReused, TargetBecomes
  <2>6. CASE Over \/ UNCHANGED runVars
    BY <2>6 DEF Over, runVars
  <2> QED
    BY <2>1, <2>2, <2>3, <2>4, <2>5, <2>6 DEF AppNext, App, Environment
<1> QED
  BY <1>1, <1>2

(* The numbers and places stay what they are, the places by the text of    *)
(* run and the numbers by the bounds of the clock.                         *)
LEMMA RunTypesKept ==
  ASSUME RunTypes, [AppNext]_runVars
  PROVE  RunTypes'
<1> USE AppBounds DEF signalVars, clockVars, targetVars, Goto, Return,
          ReturnIf
<1>1. CASE Construct \/ Run \/ Initialize \/ CheckStop \/ CheckAlive
  BY <1>1 DEF Construct, Run, Initialize, CheckStop, CheckStopIf, CheckAlive,
       CheckAliveTelling, RunTypes
<1>2. CASE Sleep
  <2>1. elapsed' \in 0 .. MaxElapsed /\ sinceRow' \in Nat
    BY <1>2, PassEffect, SleepIsNat DEF Sleep
  <2> QED
    BY <1>2, <2>1 DEF Sleep, RunTypes
<1>3. CASE SleepInterrupted
  <2>1. PICK us \in 0 .. SleepUs : Pass(us)
    BY <1>3 DEF SleepInterrupted
  <2>2. elapsed' \in 0 .. MaxElapsed /\ sinceRow' \in Nat
    BY <2>1, PassEffect, SleepIsNat
  <2> QED
    BY <1>3, <2>2 DEF SleepInterrupted, RunTypes
<1>4. CASE Sample
  <2>1. elapsed' \in 0 .. MaxElapsed /\ sinceRow' \in Nat
    BY <1>4, PassEffect DEF Sample, SampleAt
  <2>2. elapsed' \div UsPerMs \in 0 .. MaxElapsed
    <3>1. elapsed' \in Nat /\ elapsed' <= MaxElapsed
      BY <2>1
    <3>2. PICK ms \in 0 .. elapsed' : ms = elapsed' \div UsPerMs
      BY <3>1, WholeMilliseconds
    <3>3. ms \in 0 .. MaxElapsed
      BY <3>1
    <3> QED
      BY <3>2, <3>3, Zenon
  <2> QED
    BY <1>4, <2>1, <2>2 DEF Sample, SampleAt, RunTypes
<1>5. CASE Log
  BY <1>5 DEF Log, Min2, RunTypes
<1>6. CASE CheckLimit \/ ReturnOnExit \/ DestroyApp \/ FinishDestroy
             \/ LoggerStep
  BY <1>6 DEF CheckLimit, CheckLimitIf, ReturnOnExit, DestroyApp,
       FinishDestroy, LoggerStep, RunTypes
<1>7. CASE StopSignal \/ KillApp
  BY <1>7 DEF StopSignal, KillApp, Die, RunTypes
<1>8. CASE TargetExits \/ TargetIsReaped \/ PidIsReused
  BY <1>8 DEF TargetExits, TargetIsReaped, PidIsReused, TargetBecomes,
       RunTypes
<1>9. CASE Over \/ UNCHANGED runVars
  BY <1>9 DEF Over, runVars, RunTypes
<1> QED
  BY <1>1, <1>2, <1>3, <1>4, <1>5, <1>6, <1>7, <1>8, <1>9
  DEF AppNext, App, Environment

(* What run finds pending on its way out, and what the logger's own steps  *)
(* and a death leave.                                                      *)
LEMMA ExitKept ==
  ASSUME LifeInv, RunTypes, ExitInv, [AppNext]_runVars
  PROVE  ExitInv'
<1> USE DEF ExitInv, signalVars, clockVars, targetVars, configVars, Goto,
          Return, ReturnIf
<1>1. csvLogEnabled' = csvLogEnabled
  BY DEF AppNext, runVars
<1>2. CASE Construct
  BY <1>2 DEF Construct, Create, CreateFails, loggerVars
<1>3. CASE CheckAlive
  <2>1. lifecycle' # "killed"
    BY <1>3 DEF CheckAlive, CheckAliveTelling, LogTargetExit, CallFlush,
         loggerVars
  <2>2. ASSUME pc' = "exiting", csvLogEnabled PROVE flushing'
    BY <1>3, <2>2 DEF CheckAlive, CheckAliveTelling, LogTargetExit, CallFlush
  <2> QED
    BY <1>1, <2>1, <2>2
<1>4. CASE Log
  <2>1. lifecycle' # "killed" /\ pc' = "limit"
    BY <1>4 DEF Log, LogSample, TakeRow, loggerVars
  <2> QED
    BY <2>1
<1>5. CASE DestroyApp
  <2>1. lifecycle' # "killed" /\ pc' # "exiting"
    BY <1>5 DEF DestroyApp, Destroy, CallFlush, loggerVars
  <2> QED
    BY <2>1
<1>6. CASE LoggerStep
  <2>1. CASE InsertRow
    BY <1>1, <1>6, <2>1 DEF LoggerStep, InsertRow, LifeInv
  <2>2. CASE Flush
    <3>1. lifecycle' = lifecycle /\ pc' = pc
          /\ (~streamBad' => pendingRows' = <<>>)
      BY <1>6, <2>2 DEF LoggerStep, Flush, FlushKeeping
    <3> QED
      BY <3>1
  <2>3. CASE Close
    BY <1>1, <1>6, <2>3 DEF LoggerStep, Close, flushVars
  <2> QED
    BY <1>6, <2>1, <2>2, <2>3 DEF LoggerStep, Step
<1>7. CASE StopSignal \/ KillApp
  <2>1. CASE UNCHANGED <<loggerVars, pc>>
    BY <1>1, <2>1 DEF loggerVars, streamVars, flushVars
  <2>2. CASE Die
    BY <2>2 DEF Die, Kill
  <2> QED
    BY <1>7, <2>1, <2>2 DEF StopSignal, KillApp
<1>8. CASE Run \/ Initialize \/ CheckStop \/ CheckLimit \/ ReturnOnExit
             \/ FinishDestroy
  <2>1. pc' # "exiting" /\ pc # "dead" /\ UNCHANGED loggerVars
    BY <1>8 DEF Run, Initialize, CheckStop, CheckStopIf, CheckLimit,
         CheckLimitIf, ReturnOnExit, FinishDestroy
  <2> QED
    BY <2>1 DEF loggerVars
<1>9. CASE Sleep \/ SleepInterrupted \/ Sample
  <2>1. pc' # "exiting" /\ pc # "dead" /\ UNCHANGED loggerVars
    BY <1>9 DEF Sleep, SleepInterrupted, Sample, SampleAt
  <2> QED
    BY <2>1 DEF loggerVars
<1>10. CASE TargetExits \/ TargetIsReaped \/ PidIsReused \/ Over
              \/ UNCHANGED runVars
  <2>1. UNCHANGED <<loggerVars, pc>>
    BY <1>10 DEF TargetExits, TargetIsReaped, PidIsReused, TargetBecomes,
         Over, runVars
  <2> QED
    BY <1>1, <2>1 DEF loggerVars, streamVars, flushVars
<1> QED
  BY <1>2, <1>3, <1>4, <1>5, <1>6, <1>7, <1>8, <1>9, <1>10
  DEF AppNext, App, Environment

(* A step that lets no time pass, and stays before the comparison with the *)
(* limit or leaves the loop.                                               *)
QuickStep ==
  /\ UNCHANGED clockVars
  /\ \/ pc' = pc
     \/ BeforeLimit /\ pc' \notin {"sample", "log", "limit"}
     \/ pc' \in {"exiting", "returned", "destroying", "done", "dead"}

(* What lets time pass, what logs a row and what compares with the limit;  *)
(* all other steps are quick.                                              *)
LEMMA OtherStepsAreQuick ==
  ASSUME [AppNext]_runVars
  PROVE  \/ Sleep \/ SleepInterrupted \/ Sample \/ Log \/ CheckLimit
         \/ QuickStep
<1> USE DEF Goto, Return, ReturnIf, BeforeLimit, QuickStep
<1>1. CASE Construct \/ Run \/ Initialize \/ CheckStop \/ CheckAlive
  BY <1>1 DEF Construct, Run, Initialize, CheckStop, CheckStopIf, CheckAlive,
       CheckAliveTelling
<1>2. CASE ReturnOnExit \/ DestroyApp \/ FinishDestroy \/ LoggerStep
  BY <1>2 DEF ReturnOnExit, DestroyApp, FinishDestroy, LoggerStep
<1>3. CASE StopSignal \/ KillApp
  BY <1>3 DEF StopSignal, KillApp, Die
<1>4. CASE TargetExits \/ TargetIsReaped \/ PidIsReused
  BY <1>4 DEF TargetExits, TargetIsReaped, PidIsReused, TargetBecomes
<1>5. CASE Over \/ UNCHANGED runVars
  BY <1>5 DEF Over, runVars
<1> QED
  BY <1>1, <1>2, <1>3, <1>4, <1>5 DEF AppNext, App, Environment

(* The clock and the limit.                                                *)
LEMMA LimitKept ==
  ASSUME RunTypes, hasDurationLimit, LimitInv, [AppNext]_runVars
  PROVE  LimitInv'
<1> DEFINE limit == profileDurationMs * UsPerMs
<1>1. /\ limit \in Nat /\ SleepUs \in Nat
      /\ ReadUs \in Nat /\ ReadUs > 0
      /\ elapsed \in Nat /\ elapsedMs \in Nat
  BY AppBounds, ProductIsNat, SleepIsNat DEF RunTypes
<1>2. /\ elapsed < limit + SleepUs + ReadUs
      /\ BeforeLimit => elapsed < limit
      /\ pc = "sample" => elapsed < limit + SleepUs
      /\ pc \in {"log", "limit"} => elapsedMs = elapsed \div UsPerMs
  BY DEF LimitInv
<1>3. SUFFICES /\ elapsed' < limit + SleepUs + ReadUs
               /\ BeforeLimit' => elapsed' < limit
               /\ pc' = "sample" => elapsed' < limit + SleepUs
               /\ pc' \in {"log", "limit"} =>
                    elapsedMs' = elapsed' \div UsPerMs
  BY DEF LimitInv
<1> HIDE DEF limit
<1>4. CASE Sleep \/ SleepInterrupted
  <2>1. pc = "sleep" /\ pc' = "sample"
    BY <1>4 DEF Sleep, SleepInterrupted, Goto
  <2>2. PICK us \in 0 .. SleepUs : Pass(us)
    BY <1>1, <1>4 DEF Sleep, SleepInterrupted
  <2>3. elapsed' \in Nat /\ elapsed' <= elapsed + us
    BY <1>1, <2>2, PassEffect, AppBounds
  <2> QED
    BY <1>1, <1>2, <2>1, <2>2, <2>3 DEF BeforeLimit
<1>5. CASE Sample
  <2>1. pc = "sample" /\ pc' \in {"log", "returned"}
    BY <1>5 DEF Sample, SampleAt, Goto, Return
  <2>2. elapsed' \in Nat /\ elapsed' <= elapsed + ReadUs
    BY <1>1, <1>5, PassEffect, AppBounds DEF Sample, SampleAt
  <2>3. pc' = "log" => elapsedMs' = elapsed' \div UsPerMs
    BY <1>5 DEF Sample, SampleAt, Return
  <2> QED
    BY <1>1, <1>2, <2>1, <2>2, <2>3 DEF BeforeLimit
<1>6. CASE Log
  <2>1. pc = "log" /\ pc' = "limit" /\ UNCHANGED <<elapsed, elapsedMs>>
    BY <1>6 DEF Log, Goto
  <2> QED
    BY <1>2, <2>1 DEF BeforeLimit
<1>7. CASE CheckLimit
  <2>1. pc = "limit" /\ UNCHANGED <<elapsed, elapsedMs>>
        /\ IF elapsedMs >= profileDurationMs THEN pc' = "returned"
                                             ELSE pc' = "loop"
    BY <1>7 DEF CheckLimit, CheckLimitIf, ReturnIf, Return, Goto, clockVars
  <2>2. elapsedMs < profileDurationMs => elapsed < limit
    BY <1>1, <1>2, <2>1, BelowLimit DEF limit
  <2> QED
    BY <1>1, <1>2, <2>1, <2>2, AppBounds DEF BeforeLimit
<1>8. CASE QuickStep
  BY <1>2, <1>8 DEF QuickStep, clockVars, BeforeLimit
<1> QED
  BY <1>4, <1>5, <1>6, <1>7, <1>8, OtherStepsAreQuick

(* What changes the fate of the target or counts rows of a dead one.       *)
LEMMA OtherStepsIgnoreTarget ==
  ASSUME [AppNext]_runVars
  PROVE  \/ Log \/ TargetExits \/ TargetIsReaped \/ PidIsReused
         \/ UNCHANGED targetVars
<1>1. CASE Construct \/ Run \/ Initialize \/ CheckStop \/ CheckAlive \/ Sleep
  BY <1>1 DEF Construct, Run, Initialize, CheckStop, CheckStopIf, CheckAlive,
       CheckAliveTelling, Sleep
<1>2. CASE Sample \/ CheckLimit \/ ReturnOnExit \/ DestroyApp
             \/ FinishDestroy \/ LoggerStep
  BY <1>2 DEF Sample, SampleAt, CheckLimit, CheckLimitIf, ReturnOnExit,
       DestroyApp, FinishDestroy, LoggerStep
<1>3. CASE SleepInterrupted \/ StopSignal \/ KillApp
  BY <1>3 DEF SleepInterrupted, StopSignal, KillApp
<1>4. CASE Over \/ UNCHANGED runVars
  BY <1>4 DEF Over, runVars
<1> QED
  BY <1>1, <1>2, <1>3, <1>4 DEF AppNext, App, Environment

(* The loop looks at the target between one row and the next.              *)
LEMMA LastTurnKept ==
  ASSUME RunTypes, LastTurnInv, [AppNext]_runVars
  PROVE  LastTurnInv'
<1>1. rowsAfterExit \in Nat /\ MaxRows \in Nat
  BY AppBounds DEF RunTypes
<1>2. CASE Log
  <2>1. /\ pc = "log" /\ pc' = "limit" /\ target' = target
        /\ rowsAfterExit' = IF target = "gone"
                              THEN Min2(rowsAfterExit + 1, MaxRows)
                              ELSE rowsAfterExit
    BY <1>2 DEF Log, Goto
  <2>2. rowsAfterExit = 0
    BY <1>1, <2>1 DEF LastTurnInv
  <2> QED
    BY <1>1, <2>1, <2>2 DEF LastTurnInv, Min2
<1>3. CASE TargetExits \/ TargetIsReaped \/ PidIsReused
  <2>1. rowsAfterExit' = 0
    BY <1>1, <1>3 DEF TargetExits, TargetIsReaped, PidIsReused, LastTurnInv,
         RunTypes
  <2> QED
    BY <2>1 DEF LastTurnInv
<1>4. CASE UNCHANGED targetVars
  <2>1. target' = target /\ rowsAfterExit' = rowsAfterExit
    BY <1>4 DEF targetVars
  <2>2. ASSUME pc \notin {"sleep", "sample", "log"}, target = "gone"
        PROVE  pc' \notin {"sleep", "sample", "log"}
    <3>1. CASE CheckAlive
      BY <2>2, <3>1 DEF CheckAlive, CheckAliveTelling, isProcessAlive, Goto
    <3>2. CASE Construct \/ Run \/ Initialize \/ CheckStop \/ CheckLimit
      BY <3>2 DEF Construct, Run, Initialize, CheckStop, CheckStopIf,
           CheckLimit, CheckLimitIf, ReturnIf, Return, Goto
    <3>3. CASE ReturnOnExit \/ DestroyApp \/ FinishDestroy \/ LoggerStep
      BY <2>2, <3>3 DEF ReturnOnExit, DestroyApp, FinishDestroy, LoggerStep,
           Return, Goto
    <3>4. CASE StopSignal \/ KillApp
      BY <2>2, <3>4 DEF StopSignal, KillApp, Die, Goto
    <3>5. CASE Sleep \/ SleepInterrupted \/ Sample \/ Log
      BY <2>2, <3>5 DEF Sleep, SleepInterrupted, Sample, SampleAt, Log
    <3>6. CASE TargetExits \/ TargetIsReaped \/ PidIsReused
      BY <2>2, <3>6 DEF TargetExits, TargetIsReaped, PidIsReused,
           TargetBecomes
    <3>7. CASE Over \/ UNCHANGED runVars
      BY <2>2, <3>7 DEF Over, runVars
    <3> QED
      BY <3>1, <3>2, <3>3, <3>4, <3>5, <3>6, <3>7
      DEF AppNext, App, Environment
  <2> QED
    BY <2>1, <2>2 DEF LastTurnInv
<1> QED
  BY <1>2, <1>3, <1>4, OtherStepsIgnoreTarget

(* The stop flag is never taken back.                                      *)
LEMMA StopFlagStays ==
  ASSUME FlagTypes, [AppNext]_runVars, ~gStopRequested'
  PROVE  ~gStopRequested /\ ~SleepInterrupted
<1> USE DEF signalVars, FlagTypes
<1>1. ~SleepInterrupted
  BY DEF SleepInterrupted
<1>2. CASE Construct \/ Run \/ Initialize \/ CheckStop \/ CheckAlive \/ Sleep
  BY <1>1, <1>2 DEF Construct, Run, Initialize, CheckStop, CheckStopIf,
       CheckAlive, CheckAliveTelling, Sleep
<1>3. CASE Sample \/ Log \/ CheckLimit \/ ReturnOnExit
  BY <1>1, <1>3 DEF Sample, SampleAt, Log, CheckLimit, CheckLimitIf,
       ReturnOnExit
<1>4. CASE DestroyApp \/ FinishDestroy \/ LoggerStep
  BY <1>1, <1>4 DEF DestroyApp, FinishDestroy, LoggerStep
<1>5. CASE StopSignal \/ KillApp
  BY <1>1, <1>5 DEF StopSignal, KillApp
<1>6. CASE TargetExits \/ TargetIsReaped \/ PidIsReused
  BY <1>1, <1>6 DEF TargetExits, TargetIsReaped, PidIsReused, TargetBecomes
<1>7. CASE Over \/ UNCHANGED runVars
  BY <1>1, <1>7 DEF Over, runVars
<1> QED
  BY <1>1, <1>2, <1>3, <1>4, <1>5, <1>6, <1>7
  DEF AppNext, App, Environment

(* A sample is read after a sleep that nobody cut short.                   *)
LEMMA SpacingKept ==
  ASSUME RunTypes, FlagTypes, SpacingInv, [AppNext]_runVars
  PROVE  SpacingInv'
<1> SUFFICES ASSUME pc' \in {"sample", "log"}, ~gStopRequested'
             PROVE  sinceRow' >= SleepUs
  BY DEF SpacingInv
<1>1. ~gStopRequested /\ ~SleepInterrupted
  BY StopFlagStays
<1>2. SleepUs \in Nat /\ ReadUs \in Nat /\ sinceRow \in Nat
  BY AppBounds, SleepIsNat DEF RunTypes
<1>3. CASE Sleep
  BY <1>2, <1>3, PassEffect DEF Sleep
<1>4. CASE Sample
  <2>1. pc = "sample"
    BY <1>4 DEF Sample, SampleAt
  <2>2. sinceRow' \in Nat /\ sinceRow' >= sinceRow
    BY <1>2, <1>4, PassEffect DEF Sample, SampleAt
  <2> QED
    BY <1>1, <1>2, <2>1, <2>2 DEF SpacingInv
<1>5. ~Log /\ ~CheckLimit
  BY DEF Log, CheckLimit, CheckLimitIf, ReturnIf, Return, Goto
<1>6. CASE QuickStep
  BY <1>1, <1>6 DEF SpacingInv, clockVars, QuickStep
<1> QED
  BY <1>1, <1>3, <1>4, <1>5, <1>6, OtherStepsAreQuick

-----------------------------------------------------------------------------
(* Where main begins.                                                      *)
LEMMA AppInitEstablishes == AppInit => AppInv
<1> SUFFICES ASSUME AppInit PROVE AppInv
  OBVIOUS
<1>1. LoggerInv
  BY LoggerInitEstablishes DEF AppInit
<1>2. /\ pc = "construct" /\ status = 0 /\ elapsed = 0 /\ elapsedMs = 0
      /\ target = "running" /\ sinceRow = 0 /\ rowsAfterExit = 0
  BY DEF AppInit
<1>3. FlagTypes
  BY DEF AppInit, FlagTypes
<1>4. RunTypes
  BY <1>2, AppBounds DEF RunTypes
<1>5. ExitInv
  BY <1>2 DEF AppInit, LoggerInit, ExitInv
<1>6. LimitInv
  <2>1. \A m, n \in Nat \ {0} : m * n \in Nat /\ m * n > 0
    OBVIOUS
  <2>2. profileDurationMs * UsPerMs \in Nat /\ profileDurationMs * UsPerMs > 0
    BY <2>1, AppBounds
  <2> QED
    BY <1>2, <2>2, AppBounds, SleepIsNat DEF LimitInv, BeforeLimit
<1>7. LastTurnInv /\ SpacingInv
  BY <1>2 DEF LastTurnInv, SpacingInv
<1> QED
  BY <1>1, <1>3, <1>4, <1>5, <1>6, <1>7 DEF AppInv

(* Every step of the program and of its surroundings.                      *)
LEMMA AppStepKeeps ==
  ASSUME AppInv, [AppNext]_runVars
  PROVE  AppInv'
<1> USE DEF AppInv
<1>1. LoggerInv'
  BY AppStepIsLoggerStep, LoggerStepKeeps
<1>2. FlagTypes' /\ hasDurationLimit' = hasDurationLimit
  BY FlagsStayFlags DEF configVars
<1>3. RunTypes'
  BY RunTypesKept
<1>4. ExitInv'
  BY ExitKept DEF LoggerInv
<1>5. hasDurationLimit => LimitInv'
  BY LimitKept
<1>6. LastTurnInv'
  BY LastTurnKept
<1>7. SpacingInv'
  BY SpacingKept
<1> QED
  BY <1>1, <1>2, <1>3, <1>4, <1>5, <1>6, <1>7

(* The inductive invariant holds throughout every run of the program.      *)
THEOREM AppInvariant == AppSpec => []AppInv
<1>1. AppInit => AppInv
  BY AppInitEstablishes
<1>2. AppInv /\ [AppNext]_runVars => AppInv'
  BY AppStepKeeps
<1> QED
  BY <1>1, <1>2, PTL DEF AppSpec

(* Every variable of run and of its surroundings keeps its type; of the    *)
(* numbers, run returns 0 or a negative error and the clock stays bounded. *)
THEOREM AppTypesOK == AppSpec => []AppTypeOK
<1>1. AppInv => AppTypeOK
  <2> SUFFICES ASSUME AppInv PROVE AppTypeOK
    OBVIOUS
  <2>1. {csvLogEnabled, terminalLogEnabled, hasDurationLimit} \subseteq BOOLEAN
    BY DEF AppInv, FlagTypes
  <2> QED
    BY <2>1 DEF AppInv, LoggerInv, RunTypes, FlagTypes, AppTypeOK
<1> QED
  BY <1>1, AppInvariant, PTL

(* When run leaves its loop because the target exited, every sample it     *)
(* handed to the CSV logger is in the file before it returns, unless the   *)
(* stream failed: whatever flush was under way, whenever the target went.  *)
THEOREM ExitSavesEveryRow == AppSpec => []ExitSavesRows
<1>1. AppInv => ExitSavesRows
  <2> SUFFICES ASSUME AppInv, pc = "exiting", ~flushing, csvLogEnabled,
                      ~streamBad
               PROVE  file = LoggedRows
    BY DEF ExitSavesRows
  <2>1. LoggerTypeOK /\ GoodInv
    BY DEF AppInv, LoggerInv
  <2>2. pendingRows = <<>> /\ lifecycle # "killed"
    BY DEF AppInv, ExitInv
  <2>3. Len(pendingRows) = 0 /\ Len(putArea) = 0
    BY <2>1, <2>2 DEF GoodInv
  <2>4. /\ Len(file) + Len(putArea) = Inserted
        /\ \A i \in 1 .. Len(file) : file[i] = i
    BY <2>1, <2>2 DEF GoodInv
  <2>5. Inserted = rowCount
    BY <2>1, <2>3, Areas DEF Inserted
  <2>6. Len(file) = rowCount
    BY <2>1, <2>3, <2>4, <2>5, Areas
  <2> QED
    BY <2>1, <2>4, <2>6, Areas, AllLogged DEF LoggerTypeOK
<1> QED
  BY <1>1, AppInvariant, PTL

(* A run with a duration limit oversteps it by less than one sleep and the *)
(* reading of one sample, although it compares whole milliseconds and only *)
(* after a sample was logged.                                              *)
THEOREM LimitedRunStopsInTime == AppSpec => []OvershootBounded
<1>1. AppInv => OvershootBounded
  BY DEF AppInv, LimitInv, OvershootBounded
<1> QED
  BY <1>1, AppInvariant, PTL

(* The loop logs one more row at most of a target that is gone, unless its *)
(* PID was given to another process.                                       *)
THEOREM NoRowsOfTheDead == AppSpec => []AtMostOneRowAfterExit
<1>1. AppInv => AtMostOneRowAfterExit
  BY AppBounds DEF AppInv, LastTurnInv, RunTypes, AtMostOneRowAfterExit
<1> QED
  BY <1>1, AppInvariant, PTL

(* Samples are at least one interval apart if no stop signal cuts a sleep  *)
(* short, for every interval the command line accepts: the interval is the *)
(* one that usleep gets, which is interval_ms in microseconds modulo 2^32. *)
THEOREM SamplesKeepTheInterval == AppSpec => []SamplesAreSpaced
<1>1. AppInv => SamplesAreSpaced
  BY SleepIsNat DEF AppInv, SpacingInv, SamplesAreSpaced, SleepUs
<1> QED
  BY <1>1, AppInvariant, PTL
-----------------------------------------------------------------------------
(* The program uses its logger as the logger may be used: run calls it     *)
(* only when it is open and no call is under way, and makes, destroys and  *)
(* kills it at the right moments.                                          *)
THEOREM AppUsesTheLogger == AppSpec => LoggerSpec
<1>1. AppInit => LoggerInit
  BY DEF AppInit
<1>2. [AppNext]_runVars => [LoggerNext]_loggerVars
  BY AppStepIsLoggerStep
<1> QED
  BY <1>1, <1>2, PTL DEF AppSpec, LoggerSpec

(* So what is proved of the logger holds of the whole program: the order   *)
(* of the file, what a crash loses, when rows are forgotten, and that what *)
(* the program does to its file is what RowLog allows.                     *)
THEOREM AppKeepsTheLog ==
  AppSpec => /\ []FileIsPrefix /\ []LossBounded
             /\ ForgottenRowsAreSaved /\ ImplementsRowLog
BY AppUsesTheLogger, FileIsInOrder, CrashLosesLessThanAFlush,
   NothingForgottenUnsaved, LoggerRefinesRowLog
=============================================================================
