# A verification project for ebpf-cache-profiler

TLA+ modules, TLC configurations and TLAPS proofs for the program in `src/`:
a profiler that attaches to a process by PID, counts its L1, L2 and LLC read
accesses and misses in a BPF program at every scheduler switch, and reports
cumulative totals at a fixed interval.

Run the tools in this directory: `tlc -config MCCacheSampler.cfg
MCCacheSampler.tla`, `tlapm CacheSamplerProofs.tla`. `PROJECT.json` names, for
every definition that models code, the lines it models.

## 1. The system

```
 main ── parseClientArguments                            CliParsing
  │
  └─ CacheProfilerApp::run ── signals, kill(pid,0), clock    CacheProfilerApp
       │            │
       │            └─ CsvCacheSampleLogger (rows -> file)   CsvCacheSampleLogger
       │
       └─ EBpfCacheProfiler
            ├─ initializeProfiling, destructor               ProfilerResources
            ├─ sampleOnce / readTotals  <── cache_totals ─┐  CacheSampleReader
            └─ perf counters, target_pid ──────────────┐  │
                                                       v  │
 kernel:  sched_switch ──> sampleOnSchedSwitch (per CPU) ─┘  CacheSampler
                                                             (TargetAccounting)
 measure_profiler_overhead.sh: starts, stops and waits for
 a target and a profiler                                     OverheadHarness
```

`ProfilerSession` is everything from `CacheProfilerApp::run` down to the kernel,
except the error paths of `ProfilerResources`.

### Components, their state and operations

| Component (source) | State | Operations | Hard behaviour | What makes it correct |
|---|---|---|---|---|
| BPF program (`src/bpf/cache_sampler.bpf.c`) | maps `target_pid`, `prev_cache_values`, `cache_totals`; perf event arrays | `sampleOnSchedSwitch`, `sampleEvent` | one handler per CPU, concurrent with each other, with user space and with the set-up; reads that fail | only what the target caused is credited; nothing is credited twice or lost while counters are readable |
| `EBpfCacheProfiler`, sampling | the vector of per-CPU slots of a lookup, the sample | `sampleOnce`, `readTotals`, `sumTotalsForEvent` | six lookups, each a slot-by-slot copy, while handlers write | a sample lies between two snapshots, never decreases, and reports the work eventually |
| `EBpfCacheProfiler`, resources | object, link, maps, perf fds, `_isProfilerInitialized` | `initializeProfiling`, destructor | a dozen steps that may fail, repeated calls | initialized means live; nothing stays open without an owner |
| CSV logger (`CsvCacheSampleLogger.cpp`) | `_pendingRows`, the stream, the file | `create`, `logSample`, `logTargetExit`, `flushPendingRows`, destructor | short writes, a stream that stays failed, kills | the file is the logged rows in order; bounded loss |
| Application (`CacheProfilerApp.cpp`) | loggers, `gStopRequested`, start time, position in `run` | constructor, `run`, `onStopSignal`, destruction | signals anywhere, target exit, zombie, PID reuse, clock | the run ends when it should, not much later, and has saved its rows |
| Command line (`CliParsing.cpp`, `Main.cpp`) | options, positionals, configuration | `parseClientArguments` and its helpers | option values that look like options; numbers at type bounds | exactly the documented command lines run, with the values given |
| Overhead harness (`playground/lib/measure_profiler_overhead.sh`) | position of the script, PID file, CSV files, two child processes | check of the call, baseline, launch, STOP, attach, CONT, waits, recording | three concurrent processes, profiler that fails or comes late, files of earlier runs | success means a complete data set; no child is left behind or paused |
| Terminal logger, diagnostic `Logger`, experiment wrappers, workloads, offline analysis, build | — | — | none: stateless output, sequential scripts, test programs | not modelled |

Interactions: `run` calls the profiler and the loggers in sequence; user space
and the BPF program share the maps (user space writes `target_pid` once and
reads `cache_totals`, the program does the rest); the handler sees the counters
that `initializeProfilerResources` opened; signals reach `run` through one
flag; the harness meets target and profiler in a PID file, in signals, in two
waits and in the files the profiler leaves.

## 2. The modules

### TargetAccounting: what the sampler promises

No counters and no remembered values: the occupant of a CPU fills one *window*
per event; a switch settles every window of that CPU, crediting it in full if
the occupant is the armed target and dropping it otherwise, and `Lose` is
allowed only if `MayLose`. A window therefore never changes owner.

### CacheSampler: how it keeps the promise

`raw[c][e]` is the counter of event `e` on CPU `c`; `prev_cache_values` and
`cache_totals` are the maps; `inSwitch`, `eventIdx` and `shouldAccumulate` are
the handler's control state. One step is one `sampleEvent` call: the handler
runs with preemption disabled, so nothing else happens on its CPU, but handlers
of other CPUs, the initialization and the readers interleave between calls.
`OpenCounter`, `BindCounter`, `AttachProgram` and `ConfigureTargetPid` are the
initialization in the order of the code: per event, all CPUs are opened, then
all are reset, enabled and bound; the program is attached, and only after that
is the target PID written. Until then `target_pid` reads 0, which is also the
tgid of the idle task, so the model starts it as `Idle`.

Counting, scheduling and the target's work are the environment: `Work` adds a
footprint to the counters that are open on its CPU (`exclude_kernel`: nothing
counts while the handler or the idle task runs), `UnobservedSwitch` is a switch
before the program is attached. `ReadFails` is the early return of
`sampleEvent` when `bpf_perf_event_read` reports an error.

Three history variables say what no variable of the code says: `earned` is what
the target caused since its counter was bound, `baseline` whether the remembered
value was read at the switch that started the present occupancy, `inherited`
what was credited by reads that had no such baseline.

### CacheSampleReader

Extends `CacheSampler` with `readTotals`: `CopySlot` copies one CPU's slot of
one event, `LookupFails` is the error path, `EndRead` publishes the sample. All
steps of the sampler interleave with it. `totalsAtStart` and `floor` are
histories.

### ProfilerSession: a run from end to end

Extends `CacheSampleReader` and instantiates `CacheProfilerApp`: the sampler,
the reader, the run loop and the CSV logger in one state space, with one target
whose life both sides see. `SetUpStep` and `InitializeSucceeds` are
`initializeProfiling` as the steps of the sampler's set-up; the `readTotals` of
one turn of the loop is `StartReading`, `KeepReading`, and `SampleSucceeds` or
`SampleFails`, each a step of the reader joined with the step of `run` that
follows from it; `LogSample` hands the sample to the logger. All else of `run`
is `RunStep`. The target is scheduled and works only while it lives
(`Schedulable`); it exits on a CPU, and may be a zombie, or reaped, before the
handler of its last switch runs.

`rows[i]` is the sample that was logged as row `i`; the logger knows only its
number. `settled` is what the target has caused on each CPU since its PID was
published, up to the last switch the CPU finished; `owed` is `settled` when the
last read began. Both are kept for every CPU, whoever is on it at the read.

### ProfilerResources

Every step of `initializeProfilerResources` and `configureTargetPid` is an
action and every one of them may fail; `GiveUp` is the common early return
(`closePerfFds` and the destruction of the local object). Objects, links and
descriptors are named by the call that opened them, so that a descriptor of a
closed object can be told from a live one. Repeated calls, with the same or
another PID, and destruction come in any order the interface allows.

### RowLog: what the CSV logger promises

No buffers and no stream: rows are logged one by one and saved in the same
order at the logger's own pace; while writing works fewer than `Limit` are
unsaved when another one is accepted, and none after a close. A kill saves no
more.

### CsvCacheSampleLogger

A row goes from `pendingRows` to `putArea` (the stream's buffer) to `file`. The
stream may write its put area early, a write may fail after any part of the put
area, a failed stream refuses insertions (nothing clears its state) and may
write its put area once more when it is flushed or closed. `Kill` loses both
memory areas. A row is its number.

### CacheProfilerApp

Extends the logger: `Log`, `CheckAlive` and `DestroyApp` call its operations,
and `run` waits for a flush it has started. `pc` is the position in the
program; the stop flag, the target and the limit are each looked at where the
code looks. The sleep is `sampleIntervalMs * 1000` in 32 bits, here
`UsPerMs` and `UintRange`. `target` is running, a zombie, gone, or replaced by
another process with the same PID; `isProcessAlive` is `kill(pid, 0)`, which
tells only "gone" from the rest. Loggers and limit are chosen in the initial
state.

### CliParsing

The loop over the arguments, and the conversions of `strtol` and `strtoul` to
`uint32_t`, `uint64_t` and `pid_t`, whose ranges are the parameters `UintRange`
(2^32 in the code) and `LongRange` (2^63). An argument is an option, a number
with its value, or another word. `Splits` is the grammar and `Documented` the
grammar with values in their ranges, stated on a whole command line and
independent of the loop; the `Holds...` operators say which value each option
must end up with.

### OverheadHarness

`measure_profiler_overhead.sh` against the target and the profiler, both of
which run, fail and end in their own time. `CheckCall` is everything before the
first run: the list of backends must not be empty, each of them must be known
and installed, and there must be an argument. A lone `--` is one: the first run
begins, and ends where `/usr/bin/time` without a command has left no file
(`BaselineFails`). The script runs under `set -e`: a grace period that `sleep`
refuses ends it between STOP and CONT (`GraceFails`; nothing checks
`ATTACH_GRACE_SECONDS`, so whether it is accepted, `graceValid`, is part of the
call), and a time file that stays empty ends it before it records anything
(`RecordFails`). `CsvBefore` is what the run directory may hold already, from an
earlier call or an earlier backend. Of the profiler the module keeps where
it looks at the target and when a row of its own is in its output;
`CacheProfilerApp` is the detailed model.

### Compositions

```
TargetAccounting <-refines- CacheSampler <-extends- CacheSampleReader <-extends-+
                                                                                ProfilerSession
RowLog <-refines- CsvCacheSampleLogger <-extends- CacheProfilerApp <-instance-+
```

Definitions commented as mutants are variants of the definition that follows
them, with one plausible mistake each. Nothing uses them; putting one in place
of its original must break the property `PROJECT.json` pairs it with.

## 3. Runs

| Run | Checks | Instance |
|---|---|---|
| `sampler` | `TypeOK`, `PrevNeverAhead`, `AccountingInv`, `OnlyOwnCountsBeyondBaseline`, `ImplementsAccounting` | 2 CPUs, 1 event, idle, target and another process, counters to 2, failing reads |
| `sampler_foreign` | `OnlyOwnCounts`, violated | 1 CPU, 1 event |
| `reader` | `ReaderTypeOK`, `SampleBracketed`, `SlotsBracketed`, `MonotonicSlots`, `SettledWorkIsReported` | 2 CPUs, 1 event, counters to 1, failing lookups |
| `session` | `RowsAreHonest`, `LastRowIsComplete`, `RowsNeverDecrease` | 1 CPU, 1 event, counters to 2, 3 rows with a flush at 2, failing lookups and initialization, signals, kills, target exit |
| `csv_logger` | `LoggerTypeOK`, `FileIsPrefix`, `LossBounded`, `ForgottenRowsAreSaved`, `ImplementsRowLog` | 7 rows, flush at 3 |
| `resources` | `ResourcesTypeOK`, `InitializedIsLive`, `OneObjectBetweenCalls`, `NothingIsHalfClosed` | 2 CPUs, 2 events, 3 calls, 2 PIDs, every failure |
| `resources_leak` | `PerfFdsAreOwned`, violated | 1 CPU, 2 calls |
| `app` | `AppTypeOK`, `ExitSavesRows`, `OvershootBounded`, `AtMostOneRowAfterExit`, `SamplesAreSpaced`, `StopEndsRun`, `LimitEndsRun`, `ReapedTargetEndsRun` | all loggers and limits, interval 3 ms, read 2 us, limit 14 ms, 2 us per ms, failing stream |
| `app_zombie` | `ExitedTargetEndsRun`, violated | limit 12 ms, nothing fails, nobody reaps |
| `app_interval` | `IntervalIsKept`, violated | interval 33 ms, 66 us, in a type of 64 numbers |
| `cli` | `CliTypeOK`, `WellFormedRuns`, `RunIsWellFormed`, `RunIsUsable` | all command lines of up to 5 arguments, ranges 8 and 16 in place of 2^32 and 2^63 |
| `harness` | `HarnessTypeOK`, `NothingLeftBehind`, `SuccessIsComplete`, `StaleIsFlagged`, `PausedTargetResumes`, `HarnessEnds` | 2 runs of perf and ebpf, or ebpf twice; an unknown backend in the list, an empty list, a missing profiler, no argument, a lone `--`, a bad grace period, files of an earlier call, failing `/usr/bin/time` |

Each property is stated in words above its definition.

### Bounds, and why they are enough

- *CPUs, events.* CPUs share only `target_pid` and the order of the
  initialization, so two show every interference. What a read sees of two
  slots that are copied one after the other is the same for two CPUs and for
  two events, so two CPUs stand for both, and their sum is checked as well; two
  CPUs with two events have six million states without fairness. `AccountingInv`
  speaks of one CPU and event at a time, and the proofs remove both bounds.
- *Counters.* `MaxCount = 2` lets two switches of one occupancy, or a switch of
  another process and one of the target, each see new counts. In `reader` the
  second count is on the other CPU.
- *Calls.* Three calls of `initializeProfiling` show failure, success and a call
  after success, in any order, and a leak by a call replaced by a later one.
- *Rows.* Seven rows with a flush at three are two full flushes and a partial
  one; in `app` four rows with a flush at two meet every position of a stop or
  exit around a flush. Beyond `MaxRows` the run goes on, but the rows of the
  CSV logger are not modelled any more.
- *Session.* Three rows with a flush at two leave one row that only the end of
  the run saves; counters to 2 give the target work before and after a read, or
  the target and another process one count each. Two CPUs, or a stream that
  fails, exceed ten million states; what two CPUs do to a sample is in
  `reader`, and what a failing stream does to rows in `csv_logger`. The
  properties speak of one CPU and one event at a time. Elapsed time plays no
  part in them, so its bounds are the least ones.
- *Time.* `MaxElapsed` stops the clock where it has passed the limit by more
  than a sampling period; later states only repeat. A turn of the loop in `app`
  takes 8 us and the limit is 28, so that a run does overshoot, by 4.
- *Integers.* Unsigned numbers of 3 and 5 bits keep the order of all bounds:
  `pid_t` maximum (3), first number that is no `uint32_t` (8), first one that is
  no `uint64_t` (32), and a negative number (-31) that becomes 1 when read as
  unsigned. The proofs are for all ranges.

### Fairness

- `FairReaderSpec`: the initialization and each step of a read go on because
  the main thread does nothing else and calls `sampleOnce` again after every
  sample; the handler that was entered completes its switch because it runs
  with preemption disabled. No fairness is put on work, or on entering a
  switch. `SettledWorkIsReported` starts when the target is being switched out.
- `FairAppSpec`: the program's own steps go on; `usleep` returns. A zombie is
  reaped only if `ReapIsCertain`: `app_zombie` shows that the run depends on
  that.
- `SessionSpec` has no fairness: its properties are invariants.
- `FairHarnessSpec`: the script's steps go on, a launcher publishes its PID or
  dies, the profiler goes on, and a running target ends some day. Weak
  fairness of `TargetExits` asks nothing of a target that is stopped.

### Violations, and what they show

- `OnlyOwnCounts`: the comment at `cache_sampler.bpf.c:91` says only new work
  since the previous switch is counted. The first handled switch of a CPU has no
  previous one, and credits all that its counter holds, by whomever. What holds
  is `OnlyOwnCountsBeyondBaseline`.
- `PerfFdsAreOwned`: if `configureTargetPid` fails and the caller initializes
  again, `_perfFds` is assigned over and the old descriptors stay open. They
  are always a full set (`NothingIsHalfClosed`).
- `ExitedTargetEndsRun`: a target that exited and is not reaped keeps an
  unlimited run going.
- `IntervalIsKept`: `src/README.md:30` calls `interval_ms` the period between
  snapshots. Above 4,294,967 ms the product that `sampleOnce` gives to `usleep`
  wraps in 32 bits (`SleepUs`) and they come sooner. What holds of every
  interval is `SamplesAreSpaced`: the period modulo 2^32 us.

The following was met while modelling and is in the models, but no run is kept
for it. A PID above `INT_MAX` is truncated to 32 bits by the cast in `parsePid`
(`ToPid`) and may run as zero or as a negative one; `RunIsUsable` says only what
becomes of a PID that fits. `strtoull` accepts `-1` as a duration of 2^64-1 ms.
The harness accepts any `ATTACH_GRACE_SECONDS`; if `sleep` refuses it, the script
ends with the target paused and the profiler started (`GraceFails`;
`NothingLeftBehind` and `PausedTargetResumes` name the exception). Nobody looks
at the result of `flushPendingRows`, so `run` returns 0 with rows missing from
the file if the stream failed. What the
target does between the last read and the check that ends the loop is in no row,
which is why `LastRowIsComplete` speaks of the time when the last read began.
The limit is overrun by up
to one period and one reading (`OvershootBounded` is what holds). After a failed write the
pending rows are never dropped and the buffer grows beyond
`--csv-flush-samples`. `_cpuCount`, `_targetPidMapFd` and `_totalsMapFd` are
assigned before the steps that may fail. A second `initializeProfiling` with
another PID returns 0 and changes nothing. A sample may show more misses than
accesses, because the lookups of a sample are made one after the other.
GNU time puts a message on the first line of its file when its command fails,
so the harness records that message in place of the times (`TimeRow`).

## 4. Proofs

Every safety invariant that a passing run checks is also proved, for every value
of the constants; so are the action properties and both refinements. Only
liveness, which rests on fairness, is left to TLC.

| Theorem | Says |
|---|---|
| **`CacheSamplerProofs`**: any numbers of CPUs and events, any processes and footprints, reads that may fail | |
| `TypeCorrect` | `Spec => []TypeOK` |
| `AccountingCorrect` | `Spec => []AccountingInv`, the inductive invariant |
| `NeverAhead` | `Spec => []PrevNeverAhead` |
| `OwnCountsBeyondBaseline` | `Spec => []OnlyOwnCountsBeyondBaseline` |
| `SamplerRefines` | `Spec => ImplementsAccounting` |
| **`CacheSampleReaderProofs`**: the same, with lookups that may fail | |
| `ReaderCorrect`, `ReaderTypesOK` | `ReaderSpec => []ReaderInv`, `[]ReaderTypeOK` |
| `SamplesAreBracketed` | `ReaderSpec => []SlotsBracketed` |
| `SumsAreBracketed` | `ReaderSpec => []SampleBracketed` |
| `SamplesAreMonotonic` | `ReaderSpec => MonotonicSlots` |
| **`CsvCacheSampleLoggerProofs`**: any flush count and number of rows | |
| `LoggerInvariant`, `LoggerTypesOK` | `LoggerSpec => []LoggerInv`, `[]LoggerTypeOK` |
| `CrashLosesLessThanAFlush` | `LoggerSpec => []LossBounded` |
| `FileIsInOrder` | `LoggerSpec => []FileIsPrefix` |
| `NothingForgottenUnsaved` | `LoggerSpec => ForgottenRowsAreSaved` |
| `LoggerRefinesRowLog` | `LoggerSpec => ImplementsRowLog` |
| **`CacheProfilerAppProofs`**: any intervals, limits and loggers | |
| `AppInvariant`, `AppTypesOK` | `AppSpec => []AppInv`, `[]AppTypeOK` |
| `ExitSavesEveryRow` | `AppSpec => []ExitSavesRows` |
| `LimitedRunStopsInTime` | `AppSpec => []OvershootBounded` |
| `NoRowsOfTheDead` | `AppSpec => []AtMostOneRowAfterExit` |
| `SamplesKeepTheInterval` | `AppSpec => []SamplesAreSpaced`, for every interval, modulo the range of the product |
| `AppUsesTheLogger` | `AppSpec => LoggerSpec` |
| `AppKeepsTheLog` | what is proved of the logger, of `AppSpec` |
| **`ProfilerSessionProofs`**: all of these constants at once | |
| `SessionReads`, `SessionRuns` | `SessionSpec => ReaderSpec`, `SessionSpec => P!AppSpec` |
| `SessionInvariant` | the invariants of the parts, and `SessionInv` |
| `FileIsHonest` | `SessionSpec => []RowsAreHonest` |
| `FileNeverDecreases` | `SessionSpec => []RowsNeverDecrease` |
| `FileIsComplete` | `SessionSpec => []LastRowIsComplete` |
| **`ProfilerResourcesProofs`**: any numbers of CPUs, events, calls and PIDs | |
| `ResourcesInvariant`, `ResourcesTypesOK` | `ResourcesSpec => []ResourcesInv`, `[]ResourcesTypeOK` |
| `InitializedProfilerIsLive` | `ResourcesSpec => []InitializedIsLive` |
| `AtMostOneObject` | `ResourcesSpec => []OneObjectBetweenCalls` |
| `FailuresCloseEverything` | `ResourcesSpec => []NothingIsHalfClosed` |
| **`CliParsingProofs`**: any arguments, any number of them, any integer ranges | |
| `CliInvariant`, `CliTypesOK` | `CliSpec => []CliInv`, `[]CliTypeOK` |
| `EveryWellFormedRuns` | `CliSpec => []WellFormedRuns` |
| `OnlyWellFormedRuns` | `CliSpec => []RunIsWellFormed` |
| `RunsAreUsable` | `CliSpec => []RunIsUsable` |
| **`OverheadHarnessProofs`**: any list of backends, any number of runs | |
| `HarnessInvariant`, `HarnessTypesOK` | `HarnessSpec => []HarnessInv`, `[]HarnessTypeOK` |
| `ScriptLeavesNothing` | `HarnessSpec => []NothingLeftBehind` |
| `StaleMetricsAreFlagged` | `HarnessSpec => []StaleIsFlagged` |
| `SuccessMeansComplete` | `HarnessSpec => []SuccessIsComplete` |

The assumptions are those of the modules (`SamplerAssumption`,
`ReaderAssumption`, `LoggerAssumption`, `AppAssumption`, `SessionAssumption`,
`ResourcesAssumption`, `CliAssumption`, `HarnessAssumption`): types of the
parameters, and little more. No theorem has a hypothesis of its own.

*The accounting invariant.* `OnlyOwnCountsBeyondBaseline` is not inductive: at
the next switch the open window is credited as well. `CreditsAreEarned` adds
what the open window of the target may still add (`OpenWindow`). For that to
survive a switch, the window must be empty when an occupant takes over: this is
`WindowsAreClosed`, for idle CPUs and for the events a handler has dealt with.
`PrevNeverAhead` makes the difference of counter and remembered value
meaningful; it needs that no counter is reset after the program could read it,
which is `SetupFirst`. `FlagIsCurrent` ties the handler's flag to the process
that is still current: the target, or the idle task before `target_pid` is
written, whose windows are empty. Each conjunct is shown for each action; the
key lemma is `CreditIsTheOpenWindow`.

*The refinement of the accounting.* A window maps to `raw - prev_cache_values`
while there is a baseline and to 0 otherwise, `due` to the events a handler has
not reached, `credited` to `cache_totals - inherited`. Initialization steps are
stuttering except `ConfigureTargetPid`, which is `Arm`; a successful read is
`Settle`, a failed one `Lose`. The proof uses `AccountingInv` for the steps
where the mapped window must be empty.

*The reader.* `CopiesBracketed` says of the call under way that what it has
copied lies between `totalsAtStart` and now, and that it began above the last
sample; it needs only that totals never decrease (`TotalsGrow`), so it holds for
every interleaving. What is true of every slot is true of their sums over any
number of CPUs: `SumsAreMonotonic` is an induction over finite sets, made
without an induction rule from the fact that among any subsets of a finite set
there is a smallest one (`SmallestSubset`); `SumsExist` shows in the same way
that the fold behind `SumFunction` is defined at all.

*The logger.* `LossBounded` says how long the file is, which is not inductive:
the file grows by what is in the put area, and that by what is pending.
`GoodInv` says of a good stream that file, put area and the pending rows not yet
inserted are the logged rows, end to end. Of a failed stream `BadInv` keeps the
row after which the failed write began: the file is in order up to there, then
holds the rows saved by the short write, and, if close wrote the put area once
more, these rows again and the rest. `FileIsPrefix` cuts out that one block. The
refinement maps `saved` to the greatest row in the file; logging is `Log`, a
write of any kind `Save`, the end of the destructor `Close`, and steps between
the buffers stutter.

*The resources.* `FdInv` says exactly which descriptors a call under way has
opened (`Opened`), as a function of its position in the two loops; all others
are the full set of the members, or full sets of earlier generations that are
owned by nobody and will not be opened again. `ObjectInv` does the same for
objects, links and map descriptors. With `CallInv`, which orders the
generations, they make every early return a matter of set algebra.

*The run loop.* A clock that only advances in the sleep and in the reading, and
a limit compared after both: `LimitInv` follows how much may have been gained at
each position since the clock was last below the limit. `LastTurnInv` says that
a row of a target that is gone belongs to the turn that was under way, and that
the loop does not sleep or sample again. `ExitInv` needs the logger's invariant:
that the flush ended is known of `pendingRows`, that the rows are in the file
follows from `GoodInv`. As `AppSpec => LoggerSpec`, everything proved of the
logger holds of the application.

*The session.* The composition is shown to behave as each of its parts
(`SessionReads`, `SessionRuns`), so their invariants hold without a second
proof. `RowInv` relates rows, which the logger knows as numbers, to samples;
honesty follows along the chain row <= sample <= `cache_totals` <= earned and
inherited. Completeness goes the other way: `EarnedInv` says that what was earned
since the PID was published is credited or lies in the open window
(`Uncredited`), which a switch closes; `SettledInv`, that what a finished switch
ended is in `cache_totals`, whoever runs there afterwards; `OwedInv` follows this amount from the totals at the start of the last
read to the sample and to the last row, and a run with status 0 has logged it.

*The command line.* Two invariants look at the loop from either side.
`GrammarInv`: what was taken so far splits as the grammar says, hence nothing
else runs. `FollowInv`: for every way in which the whole command line has the
documented form, the loop is at one of its options or behind the last, with
exactly its positionals, has refused nothing, and holds of every option the last
value taken so far, or the default; hence every such line runs with its own
values. An
option that looks like the value of another, or the reverse, would let the two
get out of step; that they do not is `DocumentedOptions`. The conversions are
lemmas of their own (`UnsignedConversion`, `PidConversion`).

*The harness.* `CountInv` gives the numbers of rows and of groups of metrics at
each position in the two loops, and the run and backend of every group; the last
position gives `SuccessIsComplete`. `WaitInv` says which processes may still be
there at which line, `GraceInv` that with a bad grace period the script never
gets beyond it, `StaleInv` of which profilers the output may be an old one.

Only model-checked: all liveness (`SettledWorkIsReported`, `StopEndsRun`,
`LimitEndsRun`, `ReapedTargetEndsRun`, `PausedTargetResumes`, `HarnessEnds`),
which rests on fairness and on what is enabled, beyond the reach of the provers;
and the four violations.

## 5. Not modelled

- Row formatting, usage texts and the terminal logger, which change no state.
- The diagnostic `Logger`: one level, read from the environment before anything
  runs, and a comparison per message in a program with one thread.
- The experiment wrappers (settings, then one call of the harness), the
  workloads (programs whose only purpose is to use the caches), the offline
  analysis (statistics over finished files) and the build.
- Memory ordering between the program and the map lookup: a slot is read and
  written as one 64-bit value. Counters do not wrap at 64 bits.
- CPU hotplug: online and possible CPUs are one set. The buffer of a lookup is
  sized by the online CPUs counted at the start.
- Child processes of the target have a tgid of their own and are other
  processes. Its threads are the target: several CPUs may run it at once.
- `usleep` of a second or more is taken to sleep, as the C library does.
- The timeout of `waitForMetricsFile` in the harness: `/usr/bin/time` has
  written its file before the wait for it returns.
- Time that logging takes: the clock of the run loop advances in the sleep and in
  the reading only, so `OvershootBounded` leaves it aside.
- A second write that falls short: a put area that failed once and is written
  again when the stream is closed is written whole (`WriteAgain`).
- In `session`, TLC has one slot and no reuse of a PID; `app` has the reuse, and
  torn samples are in `reader` and in the proofs.
- Several `run` calls in one process, where `gStopRequested` would still be set
  from the one before: `main` calls `run` once.
- A clean-up when the harness is terminated: it has no trap, and nothing in the
  repository promises one (`Interrupt` models the termination itself).

Some hazards in `PROJECT.json` have no property, because nothing in the
repository says what should happen: how far the lookups of one sample may lie
apart (misses above accesses), how many rows may wait behind a failed stream,
online against possible CPUs, a terminated harness, and a launcher that dies
before it has published its PID, for which the script waits forever
(`NobodyPublishes`, the exception in `HarnessEnds`).

## 6. Plan

Order of work: the accounting of the sampler and its proof came first, because
every number the program reports rests on it; then the reader on top of it, the
resources it depends on, the run loop with the logger, the command line, the
harness, the abstract row log, and the session that joins the run loop with the
reader. Then came the proofs of the parts, and of the session from them. What
is left:

1. An abstract specification of the whole session, a row log whose rows are
   honest and complete, with `ProfilerSession` shown to implement it, in place
   of three separate invariants.
2. The safety halves of the liveness properties: that the position of the run
   loop, or of the harness, decreases a measure while it is not waiting.
3. The fairness of `FairAppSpec` under the session, so that liveness of the run
   loop could be checked with real reads.
