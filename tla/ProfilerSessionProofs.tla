------------------------ MODULE ProfilerSessionProofs ------------------------
(***************************************************************************)
(* Machine-checked proofs about ProfilerSession, the program as a whole,   *)
(* for any number of CPUs, events and samples and any bound: what a row of *)
(* the CSV file says about the target.                                     *)
(*                                                                         *)
(* A session is a behaviour of the reader and sampler and a behaviour of   *)
(* the run loop and logger at once, so the invariants proved of those hold *)
(* of it.  What is added follows a count from the target through the       *)
(* open window, the total, the copied slot and the sample to its row.      *)
(***************************************************************************)
EXTENDS ProfilerSession, CacheSampleReaderProofs, SequenceTheorems

P == INSTANCE CacheProfilerAppProofs

(* A sample: a number for every event and CPU.                             *)
Slots == [Event -> [Cpu -> Nat]]

InLoop == pc \in {"initialize", "loop", "alive", "sleep", "sample", "log",
                  "limit", "exiting"}

(* The logger is open while run lasts, and run returns 0 unless something  *)
(* failed: then it never comes back to the loop.                           *)
StatusInv ==
  /\ csvLogEnabled /\ ~hasDurationLimit
  /\ pc = "construct" \/ InLoop => status = 0
  /\ pc \in {"run", "returned", "destroying", "done"} \/ InLoop =>
       lifecycle # "new"
  /\ lifecycle = "rejected" => status # 0
  /\ closing => pc \in {"destroying", "done", "dead"}
  /\ pc = "done" => lifecycle # "open"
  /\ lifecycle = "killed" => pc = "dead"
  /\ reading => pc \in {"sample", "dead"}

(* The i-th row is the i-th sample; no slot of a row is lower than in the  *)
(* rows before it, or higher than in the last sample.                      *)
RowInv ==
  /\ rows \in Seq(Slots)
  /\ Len(rows) = rowCount
  /\ pc \in {"sample", "log"} => rowCount < MaxRows
  /\ \A i \in 1 .. Len(rows), c \in Cpu, e \in Event :
       /\ rows[i][e][c] <= sample[e][c]
       /\ \A j \in 1 .. Len(rows) : i <= j => rows[i][e][c] <= rows[j][e][c]

(* What the target has in its open window on c of event e and the program  *)
(* has not credited yet, but will by the end of the switch that ends it.   *)
Uncredited(c, e) ==
  IF /\ running[c] = Target
     /\ inSwitch[c] => shouldAccumulate[c] /\ e >= eventIdx[c]
    THEN raw[c][e] - prev_cache_values[c][e]
    ELSE 0

(* What the target earned since its PID was published is credited, or will *)
(* be, if the counters can be read.                                        *)
EarnedInv ==
  /\ earnedAtArm \in [Cpu -> [Event -> Nat]]
  /\ target_pid = Target => attached
  /\ ~ReadMayFail /\ target_pid = Target =>
       \A c \in Cpu, e \in Event :
         /\ earnedAtArm[c][e] <= earned[c][e]
         /\ earned[c][e] - earnedAtArm[c][e]
              <= cache_totals[c][e] + Uncredited(c, e)

(* What a finished switch ended is in the totals.                          *)
SettledInv ==
  /\ settled \in [Cpu -> [Event -> Int]]
  /\ ~ReadMayFail =>
       \A c \in Cpu, e \in Event : settled[c][e] <= cache_totals[c][e]

(* The last row reports what was owed when its read began.                 *)
Covered ==
  IF rows = <<>> THEN owed = Zero
  ELSE \A c \in Cpu, e \in Event : owed[c][e] <= rows[Len(rows)][e][c]

(* What was owed when the last read began is in the totals it started from,*)
(* then in the sample, then in the last row.                               *)
OwedInv ==
  /\ owed \in [Cpu -> [Event -> Int]]
  /\ ~ReadMayFail =>
       /\ \A c \in Cpu, e \in Event :
            /\ owed[c][e] <= cache_totals[c][e]
            /\ reading => owed[c][e] <= totalsAtStart[c][e]
            /\ pc = "log" => owed[c][e] <= sample[e][c]
       /\ pc \notin {"log", "dead"} /\ ~reading /\ status = 0 => Covered

SessionInv == StatusInv /\ RowInv /\ EarnedInv /\ SettledInv /\ OwedInv
-----------------------------------------------------------------------------
(* The parameters shared with CacheProfilerApp are what its proofs assume. *)
LEMMA Parameters ==
  /\ FlushSampleCount \in Nat /\ MaxRows \in Nat
  /\ WriteMayFail \in BOOLEAN
  /\ {ProfilerMayFail, ReapIsCertain, PidReuse} \subseteq BOOLEAN
  /\ {sampleIntervalMs, profileDurationMs, UsPerMs, UintRange, ReadUs,
      MaxElapsed} \subseteq Nat \ {0}
BY SessionAssumption

(* What run does here is what it does in the module with its proofs.       *)
LEMMA SameActions ==
  /\ (App!Construct <=> P!Construct)
  /\ (App!Run <=> P!Run)
  /\ (App!Initialize <=> P!Initialize)
  /\ (App!CheckStop <=> P!CheckStop)
  /\ (App!CheckAlive <=> P!CheckAlive)
  /\ (App!CheckLimit <=> P!CheckLimit)
  /\ (App!ReturnOnExit <=> P!ReturnOnExit)
  /\ (App!DestroyApp <=> P!DestroyApp)
  /\ (App!FinishDestroy <=> P!FinishDestroy)
  /\ (App!LoggerStep <=> P!LoggerStep)
  /\ (App!Sleep <=> P!Sleep)
  /\ (App!SleepInterrupted <=> P!SleepInterrupted)
  /\ (App!Sample <=> P!Sample)
  /\ (App!Log <=> P!Log)
  /\ (App!StopSignal <=> P!StopSignal)
  /\ (App!KillApp <=> P!KillApp)
  /\ (App!TargetExits <=> P!TargetExits)
  /\ (App!TargetIsReaped <=> P!TargetIsReaped)
  /\ (App!Over <=> P!Over)
<1> USE DEF App!streamVars, P!streamVars, App!flushVars, P!flushVars,
            App!loggerVars, P!loggerVars, App!signalVars, P!signalVars,
            App!clockVars, P!clockVars, App!targetVars, P!targetVars,
            App!Goto, P!Goto, App!Return, P!Return, App!ReturnIf, P!ReturnIf,
            App!Pass, P!Pass, App!Min2, P!Min2, App!Ready, P!Ready,
            App!CallFlush, P!CallFlush, App!Ended, P!Ended, App!Die, P!Die,
            App!Kill, P!Kill, App!TargetBecomes, P!TargetBecomes
<1>1. App!Construct <=> P!Construct
  BY DEF App!Construct, P!Construct, App!Create, P!Create, App!CreateFails,
         P!CreateFails
<1>2. App!Run <=> P!Run
  BY DEF App!Run, P!Run
<1>3. App!Initialize <=> P!Initialize
  BY DEF App!Initialize, P!Initialize
<1>4. App!CheckStop <=> P!CheckStop
  BY DEF App!CheckStop, P!CheckStop, App!CheckStopIf, P!CheckStopIf
<1>5. App!CheckAlive <=> P!CheckAlive
  BY DEF App!CheckAlive, P!CheckAlive, App!CheckAliveTelling,
         P!CheckAliveTelling, App!isProcessAlive, P!isProcessAlive,
         App!LogTargetExit, P!LogTargetExit
<1>6. App!CheckLimit <=> P!CheckLimit
  BY DEF App!CheckLimit, P!CheckLimit, App!CheckLimitIf, P!CheckLimitIf
<1>7. App!ReturnOnExit <=> P!ReturnOnExit
  BY DEF App!ReturnOnExit, P!ReturnOnExit
<1>8. App!DestroyApp <=> P!DestroyApp
  BY DEF App!DestroyApp, P!DestroyApp, App!Destroy, P!Destroy
<1>9. App!FinishDestroy <=> P!FinishDestroy
  BY DEF App!FinishDestroy, P!FinishDestroy
<1>10. App!LoggerStep <=> P!LoggerStep
  BY DEF App!LoggerStep, P!LoggerStep, App!Step, P!Step, App!InsertRow,
         P!InsertRow, App!Flush, P!Flush, App!FlushKeeping, P!FlushKeeping,
         App!Close, P!Close, App!WriteOut, P!WriteOut, App!WriteShort,
         P!WriteShort, App!WriteAgain, P!WriteAgain
<1>11. App!Sleep <=> P!Sleep
  BY DEF App!Sleep, P!Sleep, App!SleepUs, P!SleepUs
<1>12. App!SleepInterrupted <=> P!SleepInterrupted
  BY DEF App!SleepInterrupted, P!SleepInterrupted, App!SleepUs, P!SleepUs
<1>13. App!Sample <=> P!Sample
  BY DEF App!Sample, P!Sample, App!SampleAt, P!SampleAt
<1>14. App!Log <=> P!Log
  BY DEF App!Log, P!Log, App!LogSample, P!LogSample, App!TakeRow, P!TakeRow,
         App!Due, P!Due
<1>15. App!StopSignal <=> P!StopSignal
  BY DEF App!StopSignal, P!StopSignal
<1>16. App!KillApp <=> P!KillApp
  BY DEF App!KillApp, P!KillApp
<1>17. App!TargetExits <=> P!TargetExits
  BY DEF App!TargetExits, P!TargetExits
<1>18. App!TargetIsReaped <=> P!TargetIsReaped
  BY DEF App!TargetIsReaped, P!TargetIsReaped
<1>19. App!Over <=> P!Over
  BY DEF App!Over, P!Over, App!runVars, P!runVars, App!configVars,
         P!configVars
<1> QED
  BY <1>1, <1>2, <1>3, <1>4, <1>5, <1>6, <1>7, <1>8, <1>9, <1>10, <1>11,
     <1>12, <1>13, <1>14, <1>15, <1>16, <1>17, <1>18, <1>19

(* Every step of a session is a step of the reader and the sampler below   *)
(* it, or does not touch them.                                             *)
LEMMA SessionStepIsReaderStep ==
  ASSUME [SessionNext]_sessionVars
  PROVE  [ReaderNext]_allVars
<1> USE DEF ReaderNext, Reader
<1>1. CASE SetUpStep
  BY <1>1 DEF SetUpStep, Next, Setup
<1>2. CASE InitializeSucceeds
  BY <1>2 DEF InitializeSucceeds, Next, Setup
<1>3. CASE InitializeFails \/ LogSample \/ RunStep \/ TargetExits
  BY <1>3 DEF InitializeFails, LogSample, RunStep, TargetExits
<1>4. CASE StartReading \/ KeepReading
  BY <1>4 DEF StartReading, KeepReading
<1>5. CASE SampleSucceeds \/ SampleFails
  BY <1>5 DEF SampleSucceeds, SampleFails
<1>6. ASSUME NEW c \in Cpu, KernelStep(c)
      PROVE  Kernel(c) /\ UNCHANGED readerVars
  BY <1>6 DEF KernelStep, Kernel, Schedulable
<1>7. CASE UNCHANGED sessionVars
  BY <1>7 DEF sessionVars
<1> QED
  BY <1>1, <1>2, <1>3, <1>4, <1>5, <1>6, <1>7 DEF SessionNext, Session, Next

(* It is a step of the run loop and its logger as well, or does not touch  *)
(* them.                                                                   *)
LEMMA SessionStepIsRunStep ==
  ASSUME [SessionNext]_sessionVars
  PROVE  [P!AppNext]_P!runVars
<1> USE SameActions DEF P!AppNext, P!App, P!Environment, configVars,
          P!configVars
<1>1. UNCHANGED runVars => UNCHANGED P!runVars
  BY DEF runVars, P!runVars, P!loggerVars, P!streamVars, P!flushVars,
       P!signalVars, P!clockVars, P!targetVars
<1>2. CASE SetUpStep \/ StartReading \/ KeepReading
  BY <1>1, <1>2 DEF SetUpStep, StartReading, KeepReading
<1>3. CASE InitializeSucceeds \/ InitializeFails
  BY <1>3 DEF InitializeSucceeds, InitializeFails
<1>4. CASE SampleSucceeds \/ SampleFails \/ LogSample
  BY <1>4 DEF SampleSucceeds, SampleFails, LogSample
<1>5. CASE RunStep \/ TargetExits
  BY <1>5 DEF RunStep, TargetExits
<1>6. CASE \E c \in Cpu : KernelStep(c)
  BY <1>1, <1>6 DEF KernelStep
<1>7. CASE UNCHANGED sessionVars
  BY <1>1, <1>7 DEF sessionVars
<1> QED
  BY <1>2, <1>3, <1>4, <1>5, <1>6, <1>7 DEF SessionNext, Session

(* The same for its initial state.                                         *)
LEMMA SameInit == App!AppInit => P!AppInit
BY DEF App!AppInit, P!AppInit, App!LoggerInit, P!LoggerInit

(* A session is a behaviour of the reader and the sampler.                 *)
THEOREM SessionReads == SessionSpec => ReaderSpec
<1>1. SessionInit => ReaderInit
  BY DEF SessionInit
<1>2. [SessionNext]_sessionVars => [ReaderNext]_allVars
  BY SessionStepIsReaderStep
<1> QED
  BY <1>1, <1>2, PTL DEF SessionSpec, ReaderSpec

(* A session is a behaviour of the run loop and its logger.                *)
THEOREM SessionRuns == SessionSpec => P!AppSpec
<1>1. SessionInit => P!AppInit
  BY SameInit DEF SessionInit
<1>2. [SessionNext]_sessionVars => [P!AppNext]_P!runVars
  BY SessionStepIsRunStep
<1> QED
  BY <1>1, <1>2, PTL DEF SessionSpec, P!AppSpec
-----------------------------------------------------------------------------
(* The steps of run and of the target that leave reader and sampler alone. *)
PlainStep ==
  \/ P!Construct \/ P!Run \/ P!CheckStop \/ P!CheckAlive \/ P!CheckLimit
  \/ P!ReturnOnExit \/ P!DestroyApp \/ P!FinishDestroy \/ P!LoggerStep
  \/ rowCount < MaxRows /\ (P!Sleep \/ P!SleepInterrupted)
  \/ P!StopSignal \/ P!KillApp \/ P!TargetIsReaped \/ P!Over
  \/ P!TargetExits

(* Steps that only the reader, the sampler or the kernel takes.            *)
QuietStep ==
  \/ SetUpStep \/ StartReading \/ KeepReading \/ UNCHANGED sessionVars
  \/ \E c \in Cpu : KernelStep(c)

(* Every step is of one of these kinds.                                    *)
LEMMA StepKinds ==
  ASSUME [SessionNext]_sessionVars
  PROVE  \/ QuietStep
         \/ InitializeSucceeds \/ InitializeFails \/ SampleSucceeds
         \/ SampleFails \/ LogSample
         \/ PlainStep /\ UNCHANGED <<allVars, configVars, accountVars>>
<1>1. RunStep \/ TargetExits =>
        PlainStep /\ UNCHANGED <<allVars, configVars, accountVars>>
  BY SameActions DEF RunStep, TargetExits, PlainStep
<1> QED
  BY <1>1 DEF SessionNext, Session, QuietStep

(* Of the session's own variables a quiet step sets at most `settled`, and *)
(* `owed`.                                                                 *)
LEMMA QuietEffect ==
  ASSUME QuietStep
  PROVE  /\ UNCHANGED runVars /\ UNCHANGED <<rows, earnedAtArm>>
         /\ StartReading \/ UNCHANGED owed
<1>1. CASE StartReading \/ KeepReading \/ SetUpStep
  BY <1>1 DEF StartReading, KeepReading, SetUpStep, accountVars
<1>2. CASE UNCHANGED sessionVars \/ \E c \in Cpu : KernelStep(c)
  BY <1>2 DEF sessionVars, accountVars, KernelStep
<1> QED
  BY <1>1, <1>2 DEF QuietStep

(* Every step keeps the place in run in tune with its logger and reader.   *)
LEMMA StatusKept ==
  ASSUME StatusInv, [SessionNext]_sessionVars
  PROVE  StatusInv'
<1> USE DEF StatusInv, InLoop
<1>1. CASE QuietStep
  <2>1. UNCHANGED <<pc, status, lifecycle, closing, csvLogEnabled,
                    hasDurationLimit>>
    BY <1>1, QuietEffect DEF runVars, configVars
  <2>2. (reading' <=> reading) \/ pc = "sample"
    BY <1>1 DEF QuietStep, SetUpStep, StartReading, KeepReading, KernelStep,
         sessionVars, allVars, readerVars
  <2> QED
    BY <2>1, <2>2
<1> USE DEF configVars, P!signalVars, P!clockVars, P!targetVars, P!loggerVars,
          P!flushVars, P!streamVars, P!Goto, P!Return, P!ReturnIf
<1>2. CASE InitializeSucceeds \/ InitializeFails
  <2>1. P!Initialize /\ UNCHANGED configVars /\ UNCHANGED readerVars
    BY <1>2, SameActions DEF InitializeSucceeds, InitializeFails, allVars
  <2> QED
    BY <2>1 DEF P!Initialize, readerVars
<1>3. CASE SampleSucceeds \/ SampleFails
  <2>1. P!Sample /\ UNCHANGED configVars /\ ~reading'
    BY <1>3, SameActions DEF SampleSucceeds, SampleFails, EndRead, EndReadIf,
         LookupFails, LookupError
  <2> QED
    BY <2>1 DEF P!Sample, P!SampleAt
<1>4. CASE LogSample
  <2>1. P!Log /\ UNCHANGED configVars /\ UNCHANGED readerVars
    BY <1>4, SameActions DEF LogSample, allVars
  <2> QED
    BY <2>1 DEF P!Log, P!LogSample, P!TakeRow, readerVars
<1>5. CASE PlainStep /\ UNCHANGED <<allVars, configVars, accountVars>>
  <2>1. reading' = reading /\ UNCHANGED configVars
    BY <1>5 DEF allVars, readerVars
  <2>2. CASE P!Construct \/ P!Run
    BY <2>1, <2>2 DEF P!Construct, P!Run, P!Create, P!CreateFails
  <2>3. CASE P!CheckStop \/ P!CheckAlive \/ P!CheckLimit \/ P!ReturnOnExit
    BY <2>1, <2>3 DEF P!CheckStop, P!CheckStopIf, P!CheckAlive,
         P!CheckAliveTelling, P!LogTargetExit, P!CallFlush, P!CheckLimit,
         P!CheckLimitIf, P!ReturnOnExit
  <2>4. CASE P!DestroyApp \/ P!FinishDestroy
    BY <2>1, <2>4 DEF P!DestroyApp, P!FinishDestroy, P!Destroy, P!CallFlush
  <2>5. CASE P!LoggerStep
    BY <2>1, <2>5 DEF P!LoggerStep, P!Step, P!InsertRow, P!Flush,
         P!FlushKeeping, P!Close
  <2>6. CASE P!Sleep \/ P!SleepInterrupted \/ P!TargetIsReaped
               \/ P!TargetExits \/ P!Over
    BY <2>1, <2>6 DEF P!Sleep, P!SleepInterrupted, P!TargetIsReaped,
         P!TargetExits, P!TargetBecomes, P!Over, P!runVars
  <2>7. CASE P!StopSignal \/ P!KillApp
    BY <2>1, <2>7 DEF P!StopSignal, P!KillApp, P!Die, P!Kill, P!Ended
  <2> QED
    BY <1>5, <2>2, <2>3, <2>4, <2>5, <2>6, <2>7 DEF PlainStep
<1> QED
  BY <1>1, <1>2, <1>3, <1>4, <1>5, StepKinds

(* What is at each place of a sequence with one more element.              *)
LEMMA AppendAt ==
  ASSUME NEW S, NEW s \in Seq(S), NEW x \in S
  PROVE  /\ Append(s, x) \in Seq(S) /\ Len(Append(s, x)) = Len(s) + 1
         /\ \A i \in 1 .. Len(s) : Append(s, x)[i] = s[i]
         /\ Append(s, x)[Len(s) + 1] = x
         /\ \A i \in 1 .. Len(s) + 1 : i \in 1 .. Len(s) \/ i = Len(s) + 1
BY AppendProperties, LenProperties

(* Only LogSample adds a row, and only a finished read gives a new sample. *)
LEMMA OtherStepsAddNoRow ==
  ASSUME StatusInv, RowInv, [SessionNext]_sessionVars, ~LogSample
  PROVE  /\ rows' = rows /\ rowCount' = rowCount
         /\ pc' \in {"sample", "log"} => rowCount < MaxRows
         /\ SampleSucceeds \/ UNCHANGED sample
<1> USE DEF RowInv
<1>1. CASE QuietStep
  <2>1. UNCHANGED <<pc, rowCount, rows>>
    BY <1>1, QuietEffect DEF runVars
  <2>2. UNCHANGED sample
    BY <1>1 DEF QuietStep, SetUpStep, StartReading, KeepReading, KernelStep,
         sessionVars, allVars, readerVars, BeginRead, CopySlot, Copy
  <2> QED
    BY <2>1, <2>2
<1> USE DEF P!signalVars, P!clockVars, P!targetVars, P!loggerVars,
          P!flushVars, P!streamVars, P!Goto, P!Return, P!ReturnIf, accountVars
<1>2. CASE InitializeSucceeds \/ InitializeFails
  <2>1. P!Initialize /\ UNCHANGED rows /\ UNCHANGED readerVars
    BY <1>2, SameActions DEF InitializeSucceeds, InitializeFails, allVars
  <2> QED
    BY <2>1 DEF P!Initialize, readerVars
<1>3. CASE SampleSucceeds \/ SampleFails
  <2>1. P!Sample /\ UNCHANGED rows /\ (SampleSucceeds \/ UNCHANGED sample)
    BY <1>3, SameActions DEF SampleSucceeds, SampleFails, LookupFails
  <2> QED
    BY <2>1 DEF P!Sample, P!SampleAt
<1>4. CASE PlainStep /\ UNCHANGED <<allVars, configVars, accountVars>>
  <2>1. UNCHANGED <<sample, rows>>
    BY <1>4 DEF allVars, readerVars
  <2>2. CASE P!Construct \/ P!Run
    BY <2>1, <2>2 DEF P!Construct, P!Run, P!Create, P!CreateFails
  <2>3. CASE P!CheckStop \/ P!CheckAlive \/ P!CheckLimit \/ P!ReturnOnExit
    BY <2>1, <2>3 DEF P!CheckStop, P!CheckStopIf, P!CheckAlive,
         P!CheckAliveTelling, P!LogTargetExit, P!CallFlush, P!CheckLimit,
         P!CheckLimitIf, P!ReturnOnExit
  <2>4. CASE P!DestroyApp \/ P!FinishDestroy
    BY <2>1, <2>4 DEF P!DestroyApp, P!FinishDestroy, P!Destroy, P!CallFlush
  <2>5. CASE P!LoggerStep
    BY <2>1, <2>5 DEF P!LoggerStep, P!Step, P!InsertRow, P!Flush,
         P!FlushKeeping, P!Close
  <2>6. CASE P!TargetIsReaped \/ P!TargetExits \/ P!Over
    BY <2>1, <2>6 DEF P!TargetIsReaped, P!TargetExits, P!TargetBecomes,
         P!Over, P!runVars
  <2>7. CASE P!StopSignal \/ P!KillApp
    BY <2>1, <2>7 DEF P!StopSignal, P!KillApp, P!Die, P!Kill
  <2>8. CASE rowCount < MaxRows /\ (P!Sleep \/ P!SleepInterrupted)
    BY <2>1, <2>8 DEF P!Sleep, P!SleepInterrupted
  <2> QED
    BY <1>4, <2>2, <2>3, <2>4, <2>5, <2>6, <2>7, <2>8 DEF PlainStep
<1> QED
  BY <1>1, <1>2, <1>3, <1>4, StepKinds

(* The row that is added is the sample.                                    *)
LEMMA LoggedIsTheSample ==
  ASSUME StatusInv, RowInv, LogSample
  PROVE  /\ rows' = Append(rows, sample) /\ rowCount' = rowCount + 1
         /\ pc = "log" /\ pc' = "limit" /\ sample' = sample
         /\ UNCHANGED <<allVars, earnedAtArm, owed, status>>
<1>1. P!Log
  BY SameActions DEF LogSample
<1>2. csvLogEnabled /\ pc = "log" /\ rowCount < MaxRows
  BY <1>1 DEF P!Log, StatusInv, RowInv
<1> QED
  BY <1>1, <1>2 DEF LogSample, P!Log, P!LogSample, P!TakeRow, P!Goto, allVars,
     readerVars

(* Every step keeps the rows in order, below the sample.                   *)
LEMMA RowsKept ==
  ASSUME ReaderInv, StatusInv, RowInv, [SessionNext]_sessionVars
  PROVE  RowInv'
<1>1. /\ rows \in Seq(Slots) /\ Len(rows) \in Nat /\ Len(rows) = rowCount
      /\ sample \in Slots
      /\ \A i \in 1 .. Len(rows), c \in Cpu, e \in Event :
           rows[i][e][c] \in Nat /\ sample[e][c] \in Nat
  <2>1. rows \in Seq(Slots) /\ Len(rows) = rowCount
    BY DEF RowInv
  <2>2. Len(rows) \in Nat /\ \A i \in 1 .. Len(rows) : rows[i] \in Slots
    BY <2>1, ElementOfSeq, LenProperties
  <2>3. sample \in Slots
    BY DEF Slots, ReaderInv, ReaderTypeOK
  <2>4. \A s \in Slots, c \in Cpu, e \in Event : s[e][c] \in Nat
    BY DEF Slots
  <2> QED
    BY <2>1, <2>2, <2>3, <2>4
<1>2. CASE ~LogSample
  <2>1. /\ rows' = rows /\ rowCount' = rowCount
        /\ pc' \in {"sample", "log"} => rowCount < MaxRows
        /\ SampleSucceeds \/ UNCHANGED sample
    BY <1>2, OtherStepsAddNoRow
  <2>2. \A c \in Cpu, e \in Event :
          sample[e][c] <= sample'[e][c] /\ sample'[e][c] \in Nat
    <3>1. sample' \in Slots
      BY <1>1, SessionStepIsReaderStep, ReaderStep
      DEF Slots, ReaderInv, ReaderTypeOK
    <3>2. CASE SampleSucceeds
      BY <3>1, <3>2, PublishedAreBracketed DEF SampleSucceeds, Slots
    <3>3. CASE UNCHANGED sample
      BY <3>1, <3>3 DEF Slots
    <3> QED
      BY <2>1, <3>2, <3>3
  <2> QED
    BY <1>1, <2>1, <2>2 DEF RowInv
<1>3. CASE LogSample
  <2>1. /\ rows' = Append(rows, sample) /\ rowCount' = rowCount + 1
        /\ pc' = "limit" /\ sample' = sample
    BY <1>3, LoggedIsTheSample
  <2>2. /\ rows' \in Seq(Slots) /\ Len(rows') = Len(rows) + 1
        /\ \A i \in 1 .. Len(rows) : rows'[i] = rows[i]
        /\ rows'[Len(rows) + 1] = sample
        /\ \A i \in 1 .. Len(rows') : i \in 1 .. Len(rows) \/ i = Len(rows) + 1
    BY <1>1, <2>1, AppendAt
  <2>3. \A i \in 1 .. Len(rows'), c \in Cpu, e \in Event :
          rows'[i][e][c] <= sample[e][c]
    <3> TAKE i \in 1 .. Len(rows'), c \in Cpu, e \in Event
    <3>1. CASE i = Len(rows) + 1
      <4>1. sample[e][c] \in Nat
        BY <1>1 DEF Slots
      <4> QED
        BY <2>2, <3>1, <4>1
    <3>2. CASE i \in 1 .. Len(rows)
      BY <2>2, <3>2 DEF RowInv
    <3> QED
      BY <2>2, <3>1, <3>2
  <2>4. ASSUME NEW i \in 1 .. Len(rows'), NEW j \in 1 .. Len(rows'), i <= j,
               NEW c \in Cpu, NEW e \in Event
        PROVE  rows'[i][e][c] <= rows'[j][e][c]
    <3>1. CASE j = Len(rows) + 1
      BY <2>2, <2>3, <3>1
    <3>2. CASE j \in 1 .. Len(rows)
      <4>1. i \in 1 .. Len(rows)
        BY <1>1, <2>2, <2>4, <3>2
      <4> QED
        BY <2>2, <2>4, <3>2, <4>1 DEF RowInv
    <3> QED
      BY <2>2, <3>1, <3>2
  <2> QED
    BY <1>1, <2>1, <2>2, <2>3, <2>4 DEF RowInv
<1> QED
  BY <1>2, <1>3
-----------------------------------------------------------------------------
(* The open window of the target is a number, and what it has not been     *)
(* credited is all of it or nothing.                                       *)
LEMMA UncreditedIsNat ==
  ASSUME TypeOK, PrevNeverAhead, NEW c \in Cpu, NEW e \in Event
  PROVE  /\ raw[c][e] - prev_cache_values[c][e] \in Nat
         /\ Uncredited(c, e) \in Nat
<1>1. raw[c][e] - prev_cache_values[c][e] \in Nat
  BY PointwiseTypes DEF PrevNeverAhead
<1> QED
  BY <1>1 DEF Uncredited

(* Once the PID is published and if the counters can be read, no step      *)
(* drops a count of the target: what it earns goes to its open window, and *)
(* from there to the total.                                                *)
LEMMA NothingIsDropped ==
  ASSUME TypeOK, AccountingInv, [Next]_vars, ~ReadMayFail, attached,
         target_pid = Target, NEW c \in Cpu, NEW e \in Event
  PROVE  /\ earned[c][e] <= earned'[c][e]
         /\ earned'[c][e] - earned[c][e] + cache_totals[c][e]
              + Uncredited(c, e)
              <= cache_totals'[c][e] + Uncredited(c, e)'
<1>1. TypeOK' /\ AccountingInv'
  BY TypeStep, AccountingStep
<1>2. /\ PrevNeverAhead /\ PrevNeverAhead' /\ SetupFirst
      /\ eventSpecIdx = EventCount
  BY <1>1 DEF AccountingInv, SetupFirst
<1>3. /\ Uncredited(c, e) \in Nat /\ Uncredited(c, e)' \in Nat
      /\ earned[c][e] \in Nat /\ earned'[c][e] \in Nat
      /\ cache_totals[c][e] \in Nat /\ cache_totals'[c][e] \in Nat
  <2>1. Uncredited(c, e) \in Nat
    BY <1>2, UncreditedIsNat
  <2>2. Uncredited(c, e)' \in Nat
    <3>1. (raw[c][e] - prev_cache_values[c][e] \in Nat)'
      BY <1>1, <1>2, PointwiseTypes DEF PrevNeverAhead, TypeOK
    <3> QED
      BY <3>1 DEF Uncredited
  <2> QED
    BY <1>1, <2>1, <2>2 DEF TypeOK
<1>4. CASE Setup \/ UNCHANGED vars
  <2>1. ~(eventSpecIdx < EventCount)
    BY <1>2, SamplerAssumption
  <2>2. ~Setup
    BY <2>1 DEF Setup, OpenCounter, BindCounter, AttachProgram,
         AttachProgramIf, ConfigureTargetPid
  <2> QED
    BY <1>3, <1>4, <2>2 DEF vars, kernelVars, mapVars, handlerVars,
         historyVars, Uncredited
<1>5. ASSUME NEW d \in Cpu, Work(d)
      PROVE  /\ earned[c][e] <= earned'[c][e]
             /\ earned'[c][e] - earned[c][e] + cache_totals[c][e]
                  + Uncredited(c, e)
                  <= cache_totals'[c][e] + Uncredited(c, e)'
  <2>1. PICK f \in Footprint :
          /\ raw' = [raw EXCEPT
                      ![d] = [ev \in Event |-> @[ev] + Counted(d, f)[ev]]]
          /\ earned' = IF running[d] = Target
                        THEN [earned EXCEPT ![d] =
                               [ev \in Event |->
                                  @[ev] + CountedForGood(d, f)[ev]]]
                        ELSE earned
    BY <1>5 DEF Work
  <2>2. Counted(d, f)[e] = CountedForGood(d, f)[e] /\ Counted(d, f)[e] \in Nat
    BY <1>2, AllCountedForGood
  <2>3. /\ UNCHANGED <<running, prev_cache_values, cache_totals, inSwitch>>
        /\ UNCHANGED <<eventIdx, shouldAccumulate>> /\ ~inSwitch[d]
    BY <1>5 DEF Work, mapVars, handlerVars
  <2>4. /\ raw'[c][e] = IF c = d THEN raw[c][e] + Counted(d, f)[e]
                                 ELSE raw[c][e]
        /\ earned'[c][e] = IF c = d /\ running[d] = Target
                             THEN earned[c][e] + Counted(d, f)[e]
                             ELSE earned[c][e]
    BY <2>1, <2>2 DEF TypeOK
  <2>5. raw[c][e] \in Nat /\ prev_cache_values[c][e] \in Nat
    BY PointwiseTypes
  <2>6. CASE c = d /\ running[d] = Target
    <3>1. Uncredited(c, e)' = Uncredited(c, e) + Counted(d, f)[e]
      BY <2>2, <2>3, <2>4, <2>5, <2>6 DEF Uncredited
    <3> QED
      BY <1>3, <2>2, <2>3, <2>4, <2>6, <3>1
  <2>7. CASE ~(c = d /\ running[d] = Target)
    <3>1. Uncredited(c, e)' = Uncredited(c, e)
      BY <2>3, <2>4, <2>7 DEF Uncredited
    <3> QED
      BY <1>3, <2>3, <2>4, <2>7, <3>1
  <2> QED
    BY <2>6, <2>7
<1>6. ASSUME NEW d \in Cpu, SampleOnSchedSwitch(d)
      PROVE  /\ earned[c][e] <= earned'[c][e]
             /\ earned'[c][e] - earned[c][e] + cache_totals[c][e]
                  + Uncredited(c, e)
                  <= cache_totals'[c][e] + Uncredited(c, e)'
  <2>1. /\ UNCHANGED <<raw, running, prev_cache_values, cache_totals, earned>>
        /\ ~inSwitch[d]
        /\ inSwitch' = [inSwitch EXCEPT ![d] = TRUE]
        /\ eventIdx' = [eventIdx EXCEPT ![d] = 0]
        /\ shouldAccumulate' =
             [shouldAccumulate EXCEPT ![d] = (running[d] = target_pid)]
    BY <1>6 DEF SampleOnSchedSwitch, Enter, kernelVars, mapVars, historyVars
  <2>2. CASE c = d
    <3>1. /\ inSwitch'[c] /\ eventIdx'[c] = 0 /\ ~inSwitch[c]
          /\ shouldAccumulate'[c] <=> running[c] = target_pid
      BY <2>1, <2>2 DEF TypeOK
    <3>2. e >= 0
      BY DEF Event
    <3>3. Uncredited(c, e)' = Uncredited(c, e)
      BY <2>1, <3>1, <3>2 DEF Uncredited
    <3> QED
      BY <1>3, <2>1, <3>3
  <2>3. CASE c # d
    <3>1. Uncredited(c, e)' = Uncredited(c, e)
      BY <2>1, <2>3 DEF Uncredited, TypeOK
    <3> QED
      BY <1>3, <2>1, <3>1
  <2> QED
    BY <2>2, <2>3
<1>7. ASSUME NEW d \in Cpu, SampleEvent(d)
      PROVE  /\ earned[c][e] <= earned'[c][e]
             /\ earned'[c][e] - earned[c][e] + cache_totals[c][e]
                  + Uncredited(c, e)
                  <= cache_totals'[c][e] + Uncredited(c, e)'
  <2>1. /\ UNCHANGED <<raw, running, inSwitch, shouldAccumulate, earned>>
        /\ inSwitch[d] /\ eventIdx[d] \in Event
        /\ eventIdx' = [eventIdx EXCEPT ![d] = @ + 1]
        /\ ReadSucceeds(d, eventIdx[d])
    BY <1>7, EventBounds DEF SampleEvent, ReadFails, kernelVars, TypeOK
  <2>2. /\ prev_cache_values'[c][e] =
             IF c = d /\ e = eventIdx[d] THEN raw[c][e]
                                         ELSE prev_cache_values[c][e]
        /\ cache_totals'[c][e] =
             IF c = d /\ e = eventIdx[d] THEN cache_totals[c][e] + Credit(c, e)
                                         ELSE cache_totals[c][e]
        /\ eventIdx'[c] = IF c = d THEN eventIdx[d] + 1 ELSE eventIdx[c]
    BY <2>1 DEF ReadSucceeds, Reads, TypeOK
  <2>3. /\ raw[c][e] \in Nat /\ prev_cache_values[c][e] \in Nat
        /\ prev_cache_values[c][e] <= raw[c][e]
        /\ eventIdx[c] \in Nat /\ e \in Nat
    BY <1>2, PointwiseTypes, SamplerAssumption DEF PrevNeverAhead, Event
  <2>4. CASE c = d /\ e = eventIdx[d]
    <3>1. Uncredited(c, e)' = 0
      BY <2>1, <2>2, <2>3, <2>4 DEF Uncredited
    <3>2. Uncredited(c, e) = 0 \/ Uncredited(c, e) = Credit(c, e)
      BY <2>1, <2>3, <2>4 DEF Uncredited, Credit, DeltaValue
    <3>3. Credit(c, e) \in Nat
      BY <2>3 DEF Credit, DeltaValue
    <3> QED
      BY <1>3, <2>1, <2>2, <2>4, <3>1, <3>2, <3>3
  <2>5. CASE ~(c = d /\ e = eventIdx[d])
    <3>1. Uncredited(c, e)' = Uncredited(c, e)
      BY <2>1, <2>2, <2>3, <2>5 DEF Uncredited
    <3> QED
      BY <1>3, <2>1, <2>2, <2>5, <3>1
  <2> QED
    BY <2>4, <2>5
<1>8. ASSUME NEW d \in Cpu, NEW p \in Process, SwitchTo(d, p)
      PROVE  /\ earned[c][e] <= earned'[c][e]
             /\ earned'[c][e] - earned[c][e] + cache_totals[c][e]
                  + Uncredited(c, e)
                  <= cache_totals'[c][e] + Uncredited(c, e)'
  <2>1. /\ UNCHANGED <<raw, prev_cache_values, cache_totals, earned>>
        /\ inSwitch[d] /\ eventIdx[d] = EventCount
        /\ running' = [running EXCEPT ![d] = p]
        /\ inSwitch' = [inSwitch EXCEPT ![d] = FALSE]
        /\ eventIdx' = [eventIdx EXCEPT ![d] = 0]
        /\ shouldAccumulate' = [shouldAccumulate EXCEPT ![d] = FALSE]
    BY <1>8 DEF SwitchTo, mapVars, historyVars
  <2>2. CASE c = d
    <3>1. Uncredited(c, e) = 0
      BY <2>1, <2>2, SamplerAssumption DEF Uncredited, Event
    <3> QED
      BY <1>3, <2>1, <3>1
  <2>3. CASE c # d
    <3>1. Uncredited(c, e)' = Uncredited(c, e)
      BY <2>1, <2>3 DEF Uncredited, TypeOK
    <3> QED
      BY <1>3, <2>1, <3>1
  <2> QED
    BY <2>2, <2>3
<1>9. ASSUME NEW d \in Cpu, NEW p \in Process PROVE ~UnobservedSwitch(d, p)
  BY DEF UnobservedSwitch
<1> QED
  BY <1>4, <1>5, <1>6, <1>7, <1>8, <1>9 DEF Next, Kernel

(* The PID is published once, by the last step of the initialization.      *)
LEMMA OnlyInitializeArms ==
  ASSUME [SessionNext]_sessionVars
  PROVE  \/ /\ InitializeSucceeds
            /\ attached /\ attached' /\ target_pid # Target
            /\ earnedAtArm' = earned
            /\ UNCHANGED <<running, raw, inSwitch, eventIdx, shouldAccumulate>>
            /\ UNCHANGED <<prev_cache_values, cache_totals, earned>>
         \/ /\ UNCHANGED <<target_pid, earnedAtArm>>
            /\ attached => attached'
<1>1. CASE InitializeSucceeds
  BY <1>1 DEF InitializeSucceeds, ConfigureTargetPid, kernelVars, mapVars,
     handlerVars, historyVars
<1> USE DEF vars, setupVars, allVars, accountVars
<1>2. CASE QuietStep
  <2>1. earnedAtArm' = earnedAtArm
    BY <1>2, QuietEffect
  <2>2. CASE SetUpStep
    BY <2>1, <2>2 DEF SetUpStep, OpenCounter, BindCounter, AttachProgram,
         AttachProgramIf
  <2>3. CASE StartReading \/ KeepReading \/ UNCHANGED sessionVars
    BY <2>1, <2>3 DEF StartReading, KeepReading, BeginRead, CopySlot, Copy,
         sessionVars
  <2>4. ASSUME NEW c \in Cpu, KernelStep(c)
        PROVE  UNCHANGED <<target_pid, attached>>
    BY <2>4 DEF KernelStep, Work, SampleOnSchedSwitch, Enter, SampleEvent,
         UnobservedSwitch, SwitchTo
  <2> QED
    BY <1>2, <2>1, <2>2, <2>3, <2>4 DEF QuietStep
<1>3. CASE SampleSucceeds \/ SampleFails
  BY <1>3 DEF SampleSucceeds, SampleFails, EndRead, EndReadIf, LookupFails,
     LookupError
<1>4. CASE InitializeFails \/ LogSample
  BY <1>4 DEF InitializeFails, LogSample
<1>5. CASE UNCHANGED <<allVars, configVars, accountVars>>
  BY <1>5
<1> QED
  BY <1>1, <1>2, <1>3, <1>4, <1>5, StepKinds

(* What the reader's step leaves of the sampler's.                         *)
LEMMA ReaderStepIsSamplerStep ==
  ASSUME [ReaderNext]_allVars
  PROVE  [Next]_vars
BY DEF ReaderNext, Reader, BeginRead, CopySlot, Copy, LookupFails,
   LookupError, EndRead, EndReadIf, allVars

(* Every step keeps the target's counts together.                          *)
LEMMA EarnedKept ==
  ASSUME TypeOK, AccountingInv, EarnedInv, [SessionNext]_sessionVars
  PROVE  EarnedInv'
<1>1. [Next]_vars
  BY SessionStepIsReaderStep, ReaderStepIsSamplerStep
<1>2. TypeOK' /\ AccountingInv'
  BY <1>1, TypeStep, AccountingStep
<1>3. CASE InitializeSucceeds /\ target_pid # Target
  <2>1. /\ attached' /\ earnedAtArm' = earned /\ earned' = earned
        /\ UNCHANGED <<running, raw, inSwitch, eventIdx, shouldAccumulate>>
        /\ UNCHANGED <<prev_cache_values, cache_totals>>
    BY <1>3 DEF InitializeSucceeds, ConfigureTargetPid, kernelVars, mapVars,
     handlerVars, historyVars
  <2>2. \A c \in Cpu, e \in Event :
          /\ earned[c][e] \in Nat /\ cache_totals[c][e] \in Nat
          /\ Uncredited(c, e)' \in Nat
    <3> TAKE c \in Cpu, e \in Event
    <3>1. Uncredited(c, e)' = Uncredited(c, e)
      BY <2>1 DEF Uncredited
    <3> QED
      BY <3>1, PointwiseTypes, UncreditedIsNat DEF AccountingInv
  <2>3. \A c \in Cpu, e \in Event :
          /\ earnedAtArm'[c][e] <= earned'[c][e]
          /\ earned'[c][e] - earnedAtArm'[c][e]
               <= cache_totals'[c][e] + Uncredited(c, e)'
    BY <2>1, <2>2
  <2> QED
    BY <2>1, <2>3 DEF EarnedInv, TypeOK
<1>4. CASE ~(InitializeSucceeds /\ target_pid # Target)
  <2>1. UNCHANGED <<target_pid, earnedAtArm>> /\ (attached => attached')
    BY <1>4, OnlyInitializeArms
  <2>2. ASSUME ~ReadMayFail, target_pid = Target,
               NEW c \in Cpu, NEW e \in Event
        PROVE  /\ earnedAtArm[c][e] <= earned'[c][e]
               /\ earned'[c][e] - earnedAtArm[c][e]
                    <= cache_totals'[c][e] + Uncredited(c, e)'
    <3>1. /\ earned[c][e] <= earned'[c][e]
          /\ earned'[c][e] - earned[c][e] + cache_totals[c][e]
               + Uncredited(c, e)
               <= cache_totals'[c][e] + Uncredited(c, e)'
      BY <1>1, <2>2, NothingIsDropped DEF EarnedInv
    <3>2. /\ earnedAtArm[c][e] <= earned[c][e]
          /\ earned[c][e] - earnedAtArm[c][e]
               <= cache_totals[c][e] + Uncredited(c, e)
      BY <2>2 DEF EarnedInv
    <3>3. /\ earnedAtArm[c][e] \in Nat
          /\ earned[c][e] \in Nat /\ cache_totals[c][e] \in Nat
          /\ Uncredited(c, e) \in Nat
      BY PointwiseTypes, UncreditedIsNat DEF EarnedInv, AccountingInv
    <3>4. /\ earned'[c][e] \in Nat /\ cache_totals'[c][e] \in Nat
          /\ Uncredited(c, e)' \in Int
      BY <1>2 DEF TypeOK, Uncredited
    <3> QED
      BY <3>1, <3>2, <3>3, <3>4
  <2> QED
    BY <2>1, <2>2 DEF EarnedInv
<1> QED
  BY <1>3, <1>4
-----------------------------------------------------------------------------
(* Every step keeps what was ended by a finished switch in the totals.     *)
LEMMA SettledKept ==
  ASSUME TypeOK, AccountingInv, EarnedInv, SettledInv,
         [SessionNext]_sessionVars
  PROVE  SettledInv'
<1>1. [Next]_vars
  BY SessionStepIsReaderStep, ReaderStepIsSamplerStep
<1>2. \A c \in Cpu, e \in Event :
        /\ settled[c][e] \in Int
        /\ cache_totals[c][e] \in Nat /\ cache_totals'[c][e] \in Nat
        /\ cache_totals[c][e] <= cache_totals'[c][e]
        /\ earned[c][e] \in Nat /\ earnedAtArm[c][e] \in Nat
  <2>1. TypeOK'
    BY <1>1, TypeStep
  <2>2. \A c \in Cpu, e \in Event : cache_totals'[c][e] \in Nat
    BY <2>1 DEF TypeOK
  <2>3. \A c \in Cpu, e \in Event :
          earned[c][e] \in Nat /\ cache_totals[c][e] \in Nat
    BY PointwiseTypes
  <2> QED
    BY <1>1, <2>2, <2>3, TotalsGrow DEF SettledInv, EarnedInv
<1>3. CASE UNCHANGED settled
  <2>1. ASSUME ~ReadMayFail, NEW c \in Cpu, NEW e \in Event
        PROVE  settled[c][e] <= cache_totals'[c][e]
    BY <1>2, <2>1 DEF SettledInv
  <2> QED
    BY <1>3, <2>1 DEF SettledInv
<1>4. ASSUME NEW d \in Cpu, NEW p \in Process, SwitchTo(d, p), Settle(d),
             target_pid = Target
      PROVE  SettledInv'
  <2>1. /\ inSwitch[d] /\ eventIdx[d] = EventCount
        /\ cache_totals' = cache_totals
    BY <1>4 DEF SwitchTo, mapVars
  <2>2. settled' = [settled EXCEPT ![d] =
                     [e \in Event |-> earned[d][e] - earnedAtArm[d][e]]]
    BY <1>4 DEF Settle
  <2>3. ASSUME NEW c \in Cpu, NEW e \in Event
        PROVE  settled'[c][e] = IF c = d THEN earned[d][e] - earnedAtArm[d][e]
                                ELSE settled[c][e]
    BY <2>2 DEF SettledInv
  <2>4. settled' \in [Cpu -> [Event -> Int]]
    <3>1. [e \in Event |-> earned[d][e] - earnedAtArm[d][e]]
            \in [Event -> Int]
      BY <1>2
    <3> QED
      BY <2>2, <3>1 DEF SettledInv
  <2>5. ASSUME ~ReadMayFail, NEW c \in Cpu, NEW e \in Event
        PROVE  settled'[c][e] <= cache_totals'[c][e]
    <3>1. CASE c = d
      <4>1. Uncredited(d, e) = 0
        BY <2>1, SamplerAssumption DEF Uncredited, Event
      <4>2. earned[d][e] - earnedAtArm[d][e]
              <= cache_totals[d][e] + Uncredited(d, e)
        BY <1>4, <2>5 DEF EarnedInv
      <4> QED
        BY <1>2, <2>1, <2>3, <3>1, <4>1, <4>2
    <3>2. CASE c # d
      BY <2>1, <2>3, <2>5, <3>2 DEF SettledInv
    <3> QED
      BY <3>1, <3>2
  <2> QED
    BY <2>4, <2>5 DEF SettledInv
<1>5. CASE QuietStep
  <2>1. ASSUME NEW d \in Cpu, KernelStep(d) PROVE SettledInv'
    <3>1. CASE UNCHANGED settled
      BY <1>3, <3>1
    <3>2. CASE (\E p \in Schedulable : SwitchTo(d, p)) /\ Settle(d)
      <4>1. PICK p \in Process : SwitchTo(d, p)
        BY <3>2 DEF Schedulable
      <4>2. CASE target_pid = Target
        BY <1>4, <3>2, <4>1, <4>2
      <4>3. CASE target_pid # Target
        BY <1>3, <3>2, <4>3 DEF Settle
      <4> QED
        BY <4>2, <4>3
    <3> QED
      BY <2>1, <3>1, <3>2 DEF KernelStep
  <2>2. CASE SetUpStep \/ StartReading \/ KeepReading
               \/ UNCHANGED sessionVars
    BY <1>3, <2>2 DEF SetUpStep, StartReading, KeepReading, accountVars,
         sessionVars
  <2> QED
    BY <1>5, <2>1, <2>2 DEF QuietStep
<1>6. CASE ~QuietStep
  <2>1. UNCHANGED settled
    BY <1>6, StepKinds DEF InitializeSucceeds, InitializeFails,
         SampleSucceeds, SampleFails, LogSample, accountVars
  <2> QED
    BY <1>3, <2>1
<1> QED
  BY <1>5, <1>6

(* Between reads, and while one copies, nothing changes what is owed or    *)
(* what was promised for it.                                               *)
LEMMA OtherStepsOweTheSame ==
  ASSUME StatusInv, [SessionNext]_sessionVars, ~LogSample, ~SampleSucceeds,
         ~SampleFails, ~StartReading
  PROVE  /\ UNCHANGED <<owed, reading, totalsAtStart>>
         /\ pc' = "log" => pc = "log"
         /\ pc' \notin {"log", "dead"} => pc \notin {"log", "dead"}
         /\ status' = 0 => status = 0
<1>1. CASE QuietStep
  <2>1. UNCHANGED <<pc, status, owed>>
    BY <1>1, QuietEffect DEF runVars
  <2>2. UNCHANGED <<reading, totalsAtStart>>
    BY <1>1 DEF QuietStep, SetUpStep, KeepReading, KernelStep, sessionVars,
         allVars, readerVars, CopySlot, Copy
  <2> QED
    BY <2>1, <2>2
<1> USE DEF P!signalVars, P!clockVars, P!targetVars, P!Goto, P!Return,
          P!ReturnIf, accountVars
<1>2. CASE InitializeSucceeds \/ InitializeFails
  <2>1. P!Initialize /\ UNCHANGED owed /\ UNCHANGED readerVars
    BY <1>2, SameActions DEF InitializeSucceeds, InitializeFails, allVars
  <2> QED
    BY <2>1 DEF P!Initialize, readerVars, StatusInv, InLoop
<1>3. CASE PlainStep /\ UNCHANGED <<allVars, configVars, accountVars>>
  <2>1. UNCHANGED <<reading, totalsAtStart, owed>>
    BY <1>3 DEF allVars, readerVars
  <2>2. CASE P!Construct \/ P!Run
    BY <2>1, <2>2 DEF P!Construct, P!Run, StatusInv, InLoop
  <2>3. CASE P!CheckStop \/ P!CheckAlive \/ P!CheckLimit \/ P!ReturnOnExit
    BY <2>1, <2>3 DEF P!CheckStop, P!CheckStopIf, P!CheckAlive,
         P!CheckAliveTelling, P!CheckLimit, P!CheckLimitIf, P!ReturnOnExit,
         StatusInv, InLoop
  <2>4. CASE P!DestroyApp \/ P!FinishDestroy
    BY <2>1, <2>4 DEF P!DestroyApp, P!FinishDestroy
  <2>5. CASE P!LoggerStep \/ P!Sleep \/ P!SleepInterrupted \/ P!Over
    BY <2>1, <2>5 DEF P!LoggerStep, P!Sleep, P!SleepInterrupted, P!Over,
         P!runVars
  <2>6. CASE P!TargetIsReaped \/ P!TargetExits
    BY <2>1, <2>6 DEF P!TargetIsReaped, P!TargetExits, P!TargetBecomes
  <2>7. CASE P!StopSignal \/ P!KillApp
    BY <2>1, <2>7 DEF P!StopSignal, P!KillApp, P!Die, P!Ended
  <2> QED
    BY <1>3, <2>2, <2>3, <2>4, <2>5, <2>6, <2>7 DEF PlainStep
<1> QED
  BY <1>1, <1>2, <1>3, StepKinds

(* Every step keeps what is owed below the totals, the sample and the last *)
(* row.                                                                    *)
LEMMA OwedKept ==
  ASSUME ReaderInv, AccountingInv, StatusInv, RowInv, SettledInv, OwedInv,
         [SessionNext]_sessionVars
  PROVE  OwedInv'
<1>1. [ReaderNext]_allVars /\ [Next]_vars /\ TypeOK
  BY SessionStepIsReaderStep, ReaderStepIsSamplerStep
  DEF ReaderInv, ReaderTypeOK
<1>2. \A c \in Cpu, e \in Event :
        /\ owed[c][e] \in Int
        /\ cache_totals[c][e] \in Nat /\ cache_totals'[c][e] \in Nat
        /\ cache_totals[c][e] <= cache_totals'[c][e]
        /\ totalsAtStart[c][e] \in Nat
        /\ sample[e][c] \in Nat /\ sample'[e][c] \in Nat
  <2>1. ReaderInv'
    BY <1>1, ReaderStep
  <2>2. \A c \in Cpu, e \in Event :
          /\ totalsAtStart[c][e] \in Nat
          /\ sample[e][c] \in Nat /\ sample'[e][c] \in Nat
    BY <2>1 DEF ReaderInv, ReaderTypeOK
  <2>3. \A c \in Cpu, e \in Event : cache_totals'[c][e] \in Nat
    BY <2>1 DEF ReaderInv, ReaderTypeOK, TypeOK
  <2>4. \A c \in Cpu, e \in Event :
          owed[c][e] \in Int /\ cache_totals[c][e] \in Nat
    BY <1>1, PointwiseTypes DEF OwedInv
  <2> QED
    BY <1>1, <2>2, <2>3, <2>4, TotalsGrow
<1>3. CASE StartReading
  <2>1. /\ pc = "sample" /\ pc' = pc /\ target_pid = Target /\ reading'
        /\ totalsAtStart' = cache_totals /\ cache_totals' = cache_totals
        /\ owed' = settled
    BY <1>3 DEF StartReading, BeginRead, runVars, vars, mapVars
  <2>2. \A c \in Cpu, e \in Event :
          /\ owed'[c][e] \in Int
          /\ ~ReadMayFail => owed'[c][e] <= cache_totals[c][e]
    BY <2>1 DEF SettledInv
  <2>3. owed' \in [Cpu -> [Event -> Int]]
    BY <2>1 DEF SettledInv
  <2> QED
    BY <2>1, <2>2, <2>3 DEF OwedInv
<1>4. CASE SampleSucceeds
  <2>1. /\ EndRead /\ reading /\ pc' = "log" /\ owed' = owed /\ ~reading'
    BY <1>4 DEF SampleSucceeds, EndRead, EndReadIf, accountVars
  <2>2. ASSUME ~ReadMayFail, NEW c \in Cpu, NEW e \in Event
        PROVE  /\ owed[c][e] <= cache_totals'[c][e]
               /\ owed[c][e] <= sample'[e][c]
    <3>1. owed[c][e] <= totalsAtStart[c][e] /\ owed[c][e] <= cache_totals[c][e]
      BY <2>1, <2>2 DEF OwedInv
    <3>2. totalsAtStart[c][e] <= sample'[e][c]
      BY <2>1, PublishedAreBracketed DEF EndRead, EndReadIf
    <3> QED
      BY <1>2, <3>1, <3>2
  <2> QED
    BY <2>1, <2>2 DEF OwedInv
<1>5. CASE SampleFails
  <2>1. /\ pc' = "returned" /\ status' = -1 /\ owed' = owed /\ ~reading'
    BY <1>5, SameActions DEF SampleFails, LookupFails, LookupError,
         accountVars, P!Sample, P!SampleAt, P!Goto, P!Return
  <2>2. ASSUME ~ReadMayFail, NEW c \in Cpu, NEW e \in Event
        PROVE  owed[c][e] <= cache_totals'[c][e]
    BY <1>2, <2>2 DEF OwedInv
  <2> QED
    BY <2>1, <2>2 DEF OwedInv
<1>6. CASE LogSample
  <2>1. /\ rows' = Append(rows, sample) /\ pc = "log" /\ pc' = "limit"
        /\ UNCHANGED <<cache_totals, totalsAtStart, reading, owed>>
    BY <1>6, LoggedIsTheSample DEF allVars, vars, mapVars, readerVars
  <2>2. rows' # <<>> /\ rows'[Len(rows')] = sample
    <3>1. /\ Len(rows') = Len(rows) + 1 /\ Len(rows) \in Nat
          /\ rows'[Len(rows) + 1] = sample
      BY <2>1, AppendAt, LenProperties
      DEF RowInv, Slots, ReaderInv, ReaderTypeOK
    <3> QED
      BY <3>1
  <2> QED
    BY <2>1, <2>2 DEF OwedInv, Covered
<1>7. CASE ~(LogSample \/ SampleSucceeds \/ SampleFails \/ StartReading)
  <2>1. /\ UNCHANGED <<owed, reading, totalsAtStart>>
        /\ pc' = "log" => pc = "log"
        /\ pc' \notin {"log", "dead"} => pc \notin {"log", "dead"}
        /\ status' = 0 => status = 0
    BY <1>7, OtherStepsOweTheSame
  <2>2. rows' = rows /\ sample' = sample
    BY <1>7, OtherStepsAddNoRow
  <2>3. ASSUME ~ReadMayFail, NEW c \in Cpu, NEW e \in Event
        PROVE  owed[c][e] <= cache_totals'[c][e]
    BY <1>2, <2>3 DEF OwedInv
  <2> QED
    BY <2>1, <2>2, <2>3 DEF OwedInv, Covered
<1> QED
  BY <1>3, <1>4, <1>5, <1>6, <1>7
-----------------------------------------------------------------------------
(* Everything holds before the constructor is called.                      *)
LEMMA SessionInitEstablishes ==
  SessionInit => ReaderInv /\ AccountingInv /\ P!AppInv /\ SessionInv
<1> SUFFICES ASSUME SessionInit
             PROVE  ReaderInv /\ AccountingInv /\ P!AppInv /\ SessionInv
  OBVIOUS
<1>1. ReaderInv
  BY ReaderInitial DEF SessionInit
<1>2. AccountingInv
  BY AccountingInit DEF SessionInit, ReaderInit
<1>3. P!AppInit /\ P!AppInv
  BY SameInit, P!AppInitEstablishes, Parameters DEF SessionInit
<1>4. /\ pc = "construct" /\ status = 0 /\ lifecycle = "new" /\ ~closing
      /\ rowCount = 0 /\ ~reading /\ target_pid = Idle
      /\ csvLogEnabled /\ ~hasDurationLimit
      /\ rows = <<>> /\ earnedAtArm = Zero /\ settled = Zero /\ owed = Zero
      /\ sample = NoSlots /\ cache_totals = Zero
  BY <1>3 DEF SessionInit, ReaderInit, Init, P!AppInit, P!LoggerInit
<1>5. StatusInv
  BY <1>4 DEF StatusInv, InLoop
<1>6. RowInv
  <2>1. rows \in Seq(Slots) /\ Len(rows) = 0
    BY <1>4, EmptySeq
  <2> QED
    BY <1>4, <2>1 DEF RowInv
<1>7. EarnedInv
  BY <1>4, SamplerAssumption DEF EarnedInv, Zero
<1>8. SettledInv
  BY <1>4 DEF SettledInv, Zero
<1>9. OwedInv
  <2>1. \A c \in Cpu, e \in Event : owed[c][e] <= cache_totals[c][e]
    BY <1>4 DEF Zero
  <2>2. owed \in [Cpu -> [Event -> Int]]
    BY <1>4 DEF Zero
  <2> QED
    BY <1>4, <2>1, <2>2 DEF OwedInv, Covered
<1> QED
  BY <1>1, <1>2, <1>3, <1>5, <1>6, <1>7, <1>8, <1>9 DEF SessionInv

(* Every step keeps it.                                                    *)
LEMMA SessionStepKeeps ==
  ASSUME ReaderInv, AccountingInv, P!AppInv, SessionInv,
         [SessionNext]_sessionVars
  PROVE  (ReaderInv /\ AccountingInv /\ P!AppInv /\ SessionInv)'
<1>1. TypeOK /\ [ReaderNext]_allVars /\ [Next]_vars
  BY SessionStepIsReaderStep, ReaderStepIsSamplerStep
  DEF ReaderInv, ReaderTypeOK
<1>2. ReaderInv' /\ AccountingInv'
  BY <1>1, ReaderStep, AccountingStep
<1>3. P!AppInv'
  BY SessionStepIsRunStep, P!AppStepKeeps, Parameters
<1>4. StatusInv' /\ RowInv'
  BY StatusKept, RowsKept DEF SessionInv
<1>5. EarnedInv' /\ SettledInv' /\ OwedInv'
  BY <1>1, EarnedKept, SettledKept, OwedKept DEF SessionInv
<1> QED
  BY <1>2, <1>3, <1>4, <1>5 DEF SessionInv

(* The invariants of the parts, and what ties them together, hold in every *)
(* session.                                                                *)
THEOREM SessionInvariant ==
  SessionSpec => [](ReaderInv /\ AccountingInv /\ P!AppInv /\ SessionInv)
<1> DEFINE Inv == ReaderInv /\ AccountingInv /\ P!AppInv /\ SessionInv
<1>1. SessionInit => Inv
  BY SessionInitEstablishes
<1>2. Inv /\ [SessionNext]_sessionVars => Inv'
  BY SessionStepKeeps
<1> QED
  BY <1>1, <1>2, PTL DEF SessionSpec

-----------------------------------------------------------------------------
(* Every row of the file is a row that was logged, and that with its own   *)
(* number if the stream is good.                                           *)
LEMMA FileHoldsLoggedRows ==
  ASSUME P!AppInv, RowInv
  PROVE  /\ Len(file) \in Nat
         /\ \A i \in 1 .. Len(file) :
              file[i] \in 1 .. Len(rows) /\ (~streamBad => file[i] = i)
<1>1. /\ Len(file) \in Nat /\ rowCount \in Nat /\ shortRows \in Nat
      /\ \A i \in 1 .. Len(file) : file[i] \in Nat /\ file[i] >= 1
  <2>1. P!LoggerTypeOK
    BY DEF P!AppInv, P!LoggerInv
  <2>2. file \in Seq(1 .. MaxRows) /\ rowCount \in Nat /\ shortRows \in Nat
    BY <2>1, SessionAssumption DEF P!LoggerTypeOK, P!Row
  <2>3. \A i \in 1 .. Len(file) : file[i] \in 1 .. MaxRows
    BY <2>2, ElementOfSeq
  <2>4. \A r \in 1 .. MaxRows : r \in Nat /\ r >= 1
    OBVIOUS
  <2> QED
    BY <2>2, <2>3, <2>4, LenProperties
<1>2. Len(rows) = rowCount
  BY DEF RowInv
<1>3. CASE ~streamBad
  <2>1. Len(file) <= rowCount /\ \A i \in 1 .. Len(file) : file[i] = i
    BY <1>3 DEF P!AppInv, P!LoggerInv, P!GoodInv
  <2> QED
    BY <1>1, <1>2, <2>1
<1>4. CASE streamBad
  <2>1. PICK g \in 0 .. rowCount : P!ShortWriteAfter(g)
    BY <1>4 DEF P!AppInv, P!LoggerInv, P!BadInv
  <2>2. \A i \in 1 .. Len(file) : file[i] <= rowCount
    BY <1>1, <2>1 DEF P!ShortWriteAfter
  <2> QED
    BY <1>1, <1>2, <1>4, <2>2
<1> QED
  BY <1>3, <1>4

(* No row in the file reports more than the target had caused by now,      *)
(* beyond what reads without a baseline brought in.                        *)
THEOREM FileIsHonest == SessionSpec => []RowsAreHonest
<1>1. ReaderInv /\ AccountingInv /\ P!AppInv /\ SessionInv => RowsAreHonest
  <2> SUFFICES ASSUME ReaderInv, AccountingInv, P!AppInv, SessionInv,
                      NEW i \in 1 .. Len(file), NEW c \in Cpu, NEW e \in Event
               PROVE  rows[file[i]][e][c] <= earned[c][e] + inherited[c][e]
    BY DEF RowsAreHonest
  <2>1. file[i] \in 1 .. Len(rows)
    BY FileHoldsLoggedRows DEF SessionInv
  <2>2. rows[file[i]][e][c] <= sample[e][c]
    BY <2>1 DEF SessionInv, RowInv
  <2>3. sample[e][c] <= cache_totals[c][e]
    BY DEF ReaderInv, SlotsBracketed
  <2>4. /\ TypeOK /\ sample[e][c] \in Nat
        /\ rows[file[i]][e][c] \in Nat
    <3>1. rows[file[i]] \in Slots
      BY <2>1, ElementOfSeq DEF SessionInv, RowInv
    <3> QED
      BY <3>1 DEF Slots, ReaderInv, ReaderTypeOK
  <2>5. cache_totals[c][e] - inherited[c][e] + OpenWindow(c, e)
          <= earned[c][e]
    BY DEF AccountingInv, CreditsAreEarned
  <2>6. OpenWindow(c, e) \in Nat
    BY <2>4, CreditIsTheOpenWindow
  <2>7. /\ cache_totals[c][e] \in Nat /\ inherited[c][e] \in Nat
        /\ earned[c][e] \in Nat
    BY <2>4, PointwiseTypes
  <2> QED
    BY <2>2, <2>3, <2>4, <2>5, <2>6, <2>7
<1> QED
  BY <1>1, SessionInvariant, PTL

(* The rows of a file whose stream is good never go down.                  *)
THEOREM FileNeverDecreases == SessionSpec => []RowsNeverDecrease
<1>1. P!AppInv /\ SessionInv => RowsNeverDecrease
  <2> SUFFICES ASSUME P!AppInv, SessionInv, ~streamBad,
                      NEW i \in 1 .. Len(file), NEW j \in 1 .. Len(file),
                      NEW c \in Cpu, NEW e \in Event, i < j
               PROVE  rows[file[i]][e][c] <= rows[file[j]][e][c]
    BY DEF RowsNeverDecrease
  <2>1. /\ Len(file) \in Nat /\ file[i] = i /\ file[j] = j
        /\ i \in 1 .. Len(rows) /\ j \in 1 .. Len(rows) /\ i <= j
    BY FileHoldsLoggedRows DEF SessionInv
  <2> QED
    BY <2>1 DEF SessionInv, RowInv
<1> QED
  BY <1>1, SessionInvariant, PTL

(* A run that ended well, with a good stream and counters that could be    *)
(* read, leaves in its last row all that the target had caused on each CPU *)
(* since its PID was published by the last switch that was finished there  *)
(* when the last read began.                                               *)
THEOREM FileIsComplete == SessionSpec => []LastRowIsComplete
<1>1. P!AppInv /\ SessionInv => LastRowIsComplete
  <2> SUFFICES ASSUME P!AppInv, SessionInv, pc = "done", status = 0,
                      ~streamBad, ~ReadMayFail
               PROVE  IF file = <<>> THEN owed = Zero
                      ELSE \A c \in Cpu, e \in Event :
                             rows[file[Len(file)]][e][c] >= owed[c][e]
    BY DEF LastRowIsComplete
  <2>1. Covered
    BY DEF SessionInv, StatusInv, OwedInv
  <2>2. lifecycle = "closed" /\ ~flushing
    BY DEF SessionInv, StatusInv, P!AppInv, P!LoggerInv, P!LoggerTypeOK,
       P!LifeInv
  <2>3. Len(file) = rowCount
    <3>1. /\ pendingRows = <<>> /\ putArea = <<>>
          /\ Len(file) + Len(putArea) = P!Inserted
      BY <2>2 DEF P!AppInv, P!LoggerInv, P!GoodInv
    <3>2. Len(pendingRows) = 0 /\ Len(putArea) = 0
      BY <3>1
    <3>3. Len(file) \in Nat /\ rowCount \in Nat
      BY FileHoldsLoggedRows, LenProperties DEF SessionInv, RowInv
    <3> QED
      BY <2>2, <3>1, <3>2, <3>3 DEF P!Inserted
  <2>4. /\ rows \in Seq(Slots) /\ Len(rows) = Len(file) /\ Len(rows) \in Nat
    BY <2>3, LenProperties DEF SessionInv, RowInv
  <2>5. CASE Len(file) = 0
    <3>1. rows = <<>>
      BY <2>4, <2>5, EmptySeq
    <3>2. owed = Zero
      BY <2>1, <3>1 DEF Covered
    <3>3. file = <<>>
      <4>1. file \in Seq(P!Row)
        BY DEF P!AppInv, P!LoggerInv, P!LoggerTypeOK
      <4> QED
        BY <2>5, <4>1, EmptySeq
    <3> QED
      BY <3>2, <3>3
  <2>6. CASE Len(file) # 0
    <3>1. Len(file) \in 1 .. Len(file)
      BY <2>4, <2>6
    <3>2. file[Len(file)] = Len(rows) /\ file # <<>> /\ rows # <<>>
      BY <2>4, <2>6, <3>1, FileHoldsLoggedRows DEF SessionInv
    <3>3. ASSUME NEW c \in Cpu, NEW e \in Event
          PROVE  rows[Len(rows)][e][c] >= owed[c][e]
      <4>1. owed[c][e] <= rows[Len(rows)][e][c] /\ owed[c][e] \in Int
        BY <2>1, <3>2 DEF Covered, SessionInv, OwedInv
      <4>2. rows[Len(rows)][e][c] \in Nat
        <5>1. rows[Len(rows)] \in Slots
          BY <2>4, <2>6, ElementOfSeq
        <5> QED
          BY <5>1 DEF Slots
      <4> QED
        BY <4>1, <4>2
    <3> QED
      BY <3>2, <3>3
  <2> QED
    BY <2>5, <2>6
<1> QED
  BY <1>1, SessionInvariant, PTL
=============================================================================
