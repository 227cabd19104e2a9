---------------------------- MODULE CacheSampler ----------------------------
(***************************************************************************)
(* The in-kernel half of the profiler: the BPF program of                  *)
(* bpf/cache_sampler.bpf.c, run at every scheduler switch of every CPU,    *)
(* together with the steps of EBpfCacheProfiler that it depends on (open   *)
(* and reset the counters, attach the program, publish the target PID) and *)
(* the two parts of the kernel it observes (scheduler and PMU counters).   *)
(*                                                                         *)
(* The handler of one CPU runs with preemption disabled, so it is never    *)
(* interleaved with user code or another handler of its own CPU; handlers  *)
(* of different CPUs, and user space, run concurrently with it.  One step  *)
(* of the model is one sampleEvent call.                                   *)
(*                                                                         *)
(* A process is named by its tgid.  The value 0 of an array map that was   *)
(* never written is also the tgid of the idle task, hence target_pid       *)
(* starts as Idle.                                                         *)
(***************************************************************************)
EXTENDS Integers

CONSTANTS
  CpuCount,    (* _cpuCount: the online CPUs are 0 .. CpuCount-1           *)
  EventCount,  (* EVENT_COUNT: the cache events, in kPerfEventSpecs order  *)
  Process,     (* the tgids that may be scheduled                          *)
  Idle,        (* tgid 0, the idle task                                    *)
  Target,      (* the tgid to profile                                      *)
  Footprint,   (* what a burst of user-mode work may count on each event   *)
  MaxCount,    (* bound: no counter is driven past this value              *)
  ReadMayFail  (* whether bpf_perf_event_read may return an error          *)

Cpu == 0 .. CpuCount - 1
Event == 0 .. EventCount - 1

ASSUME SamplerAssumption ==
  /\ CpuCount \in Nat \ {0}
  /\ EventCount \in Nat \ {0}
  /\ Idle \in Process
  /\ Target \in Process
  /\ Idle # Target
  /\ Footprint \subseteq [Event -> Nat]
  /\ MaxCount \in Nat
  /\ ReadMayFail \in BOOLEAN

VARIABLES
  running,            (* running[c]: tgid of the current task of CPU c     *)
  raw,                (* raw[c][e]: value of the perf counter              *)
  eventSpecIdx,       (* initialization: event being set up                *)
  cpuIdx,             (* initialization: CPU of the inner loop             *)
  opening,            (* inner loop: opening its counters, or binding them *)
  attached,           (* the program is attached to sched_switch           *)
  target_pid,         (* BPF map: the tgid to credit                       *)
  prev_cache_values,  (* BPF map: counter value at the last good read      *)
  cache_totals,       (* BPF map: what user space reads                    *)
  inSwitch,           (* inSwitch[c]: the handler is running on c          *)
  eventIdx,           (* eventIdx[c]: its next sampleEvent call            *)
  shouldAccumulate    (* shouldAccumulate[c]: its local flag               *)

(* History variables: no guard reads them.                                 *)
VARIABLES
  baseline,           (* baseline[c][e]: prev_cache_values[c][e] was read  *)
                      (* at the switch that started the current occupancy  *)
  inherited,          (* inherited[c][e]: credited by reads that had no    *)
                      (* such baseline                                     *)
  earned              (* earned[c][e]: counts the target itself caused     *)
                      (* since the counter was reset                       *)

kernelVars == <<running, raw>>
setupVars == <<eventSpecIdx, cpuIdx, opening, attached, target_pid>>
mapVars == <<prev_cache_values, cache_totals>>
handlerVars == <<inSwitch, eventIdx, shouldAccumulate>>
historyVars == <<baseline, inherited, earned>>
vars == <<kernelVars, setupVars, mapVars, handlerVars, historyVars>>

Zero == [c \in Cpu |-> [e \in Event |-> 0]]

TypeOK ==
  /\ running \in [Cpu -> Process]
  /\ raw \in [Cpu -> [Event -> Nat]]
  /\ eventSpecIdx \in 0 .. EventCount
  /\ cpuIdx \in Cpu
  /\ opening \in BOOLEAN
  /\ attached \in BOOLEAN
  /\ target_pid \in {Idle, Target}
  /\ prev_cache_values \in [Cpu -> [Event -> Nat]]
  /\ cache_totals \in [Cpu -> [Event -> Nat]]
  /\ inSwitch \in [Cpu -> BOOLEAN]
  /\ eventIdx \in [Cpu -> 0 .. EventCount]
  /\ shouldAccumulate \in [Cpu -> BOOLEAN]
  /\ baseline \in [Cpu -> [Event -> BOOLEAN]]
  /\ inherited \in [Cpu -> [Event -> Nat]]
  /\ earned \in [Cpu -> [Event -> Nat]]

Init ==
  /\ running \in [Cpu -> Process]
  /\ raw = Zero
  /\ eventSpecIdx = 0
  /\ cpuIdx = 0
  /\ opening = TRUE
  /\ attached = FALSE
  /\ target_pid = Idle
  /\ prev_cache_values = Zero
  /\ cache_totals = Zero
  /\ inSwitch = [c \in Cpu |-> FALSE]
  /\ eventIdx = [c \in Cpu |-> 0]
  /\ shouldAccumulate = [c \in Cpu |-> FALSE]
  /\ baseline = [c \in Cpu |-> [e \in Event |-> FALSE]]
  /\ inherited = Zero
  /\ earned = Zero

-----------------------------------------------------------------------------
(* User space: initializeProfilerResources and configureTargetPid.         *)

(* The counter of event e on CPU c was opened.                             *)
Counting(c, e) ==
  \/ e < eventSpecIdx
  \/ e = eventSpecIdx /\ (opening => c < cpuIdx)

(* The counter was reset, enabled and bound into its PERF_EVENT_ARRAY.     *)
Bound(c, e) ==
  \/ e < eventSpecIdx
  \/ e = eventSpecIdx /\ ~opening /\ c < cpuIdx

(* Mutant: the loop over the CPUs does not start over.                     *)
OpenCounterPastTheEnd ==
  /\ eventSpecIdx < EventCount
  /\ opening
  /\ cpuIdx' = cpuIdx + 1
  /\ opening' = (cpuIdx + 1 < CpuCount)
  /\ UNCHANGED <<eventSpecIdx, attached, target_pid, kernelVars, mapVars,
                 handlerVars, historyVars>>

(* perf_event_open for one CPU: the counter runs from then on.             *)
OpenCounter ==
  /\ eventSpecIdx < EventCount
  /\ opening
  /\ IF cpuIdx + 1 < CpuCount
       THEN cpuIdx' = cpuIdx + 1 /\ UNCHANGED opening
       ELSE cpuIdx' = 0 /\ opening' = FALSE
  /\ UNCHANGED <<eventSpecIdx, attached, target_pid, kernelVars, mapVars,
                 handlerVars, historyVars>>

(* One turn of the reset/enable/bind loop, after all CPUs were opened.     *)
BindCounter ==
  /\ eventSpecIdx < EventCount
  /\ ~opening
  /\ raw' = [raw EXCEPT ![cpuIdx][eventSpecIdx] = 0]
  /\ IF cpuIdx + 1 < CpuCount
       THEN cpuIdx' = cpuIdx + 1 /\ UNCHANGED <<eventSpecIdx, opening>>
       ELSE cpuIdx' = 0 /\ eventSpecIdx' = eventSpecIdx + 1 /\ opening' = TRUE
  /\ UNCHANGED <<running, attached, target_pid, mapVars, handlerVars,
                 historyVars>>

AttachProgramIf(ready) ==
  /\ ready
  /\ ~attached
  /\ attached' = TRUE
  /\ UNCHANGED <<eventSpecIdx, cpuIdx, opening, target_pid, kernelVars,
                 mapVars, handlerVars, historyVars>>

(* Mutant: the program is attached while counters are still being set up.  *)
AttachProgramEarly == AttachProgramIf(TRUE)

(* bpf_program__attach, once every counter of every event is bound.        *)
AttachProgram == AttachProgramIf(eventSpecIdx = EventCount)

(* The target PID is published only after the program is already running.  *)
ConfigureTargetPid ==
  /\ attached
  /\ target_pid # Target
  /\ target_pid' = Target
  /\ UNCHANGED <<eventSpecIdx, cpuIdx, opening, attached, kernelVars,
                 mapVars, handlerVars, historyVars>>

-----------------------------------------------------------------------------
(* The kernel around the program.                                          *)

(* What a burst of work with footprint f adds to the counters of CPU c,    *)
(* and what of it is added to counters that are reset no more.             *)
Counted(c, f) == [e \in Event |-> IF Counting(c, e) THEN f[e] ELSE 0]
CountedForGood(c, f) == [e \in Event |-> IF Bound(c, e) THEN f[e] ELSE 0]

(* The current process of c executes in user mode.  The counters exclude   *)
(* the kernel and the idle task, so nothing counts while the handler runs. *)
Work(c) ==
  /\ ~inSwitch[c]
  /\ running[c] # Idle
  /\ \E f \in Footprint :
       /\ \A e \in Event : raw[c][e] + Counted(c, f)[e] <= MaxCount
       /\ raw' = [raw EXCEPT
                    ![c] = [e \in Event |-> @[e] + Counted(c, f)[e]]]
       /\ earned' = IF running[c] = Target
                      THEN [earned EXCEPT ![c] =
                              [e \in Event |-> @[e] + CountedForGood(c, f)[e]]]
                      ELSE earned
  /\ UNCHANGED <<running, setupVars, mapVars, handlerVars, baseline,
                 inherited>>

(* A switch before the program is attached.                                *)
UnobservedSwitch(c, p) ==
  /\ ~attached
  /\ running' = [running EXCEPT ![c] = p]
  /\ UNCHANGED <<raw, setupVars, mapVars, handlerVars, historyVars>>

-----------------------------------------------------------------------------
(* The BPF program.                                                        *)

(* The handler is entered while the outgoing task is current, and decides  *)
(* whether it is the target's work that ends.                              *)
Enter(c, flag) ==
  /\ attached
  /\ ~inSwitch[c]
  /\ inSwitch' = [inSwitch EXCEPT ![c] = TRUE]
  /\ eventIdx' = [eventIdx EXCEPT ![c] = 0]
  /\ shouldAccumulate' = [shouldAccumulate EXCEPT ![c] = flag]
  /\ UNCHANGED <<kernelVars, setupVars, mapVars, historyVars>>

(* Mutant: whoever is switched out is credited once there is a target.     *)
SampleOnSchedSwitchOfAnyone(c) == Enter(c, target_pid # Idle)

SampleOnSchedSwitch(c) == Enter(c, running[c] = target_pid)

(* New counts of event e since the remembered value of CPU c.              *)
DeltaValue(c, e) ==
  IF raw[c][e] >= prev_cache_values[c][e]
    THEN raw[c][e] - prev_cache_values[c][e]
    ELSE 0

Credit(c, e) == IF shouldAccumulate[c] THEN DeltaValue(c, e) ELSE 0

Reads(c, e, remembered, total) ==
  /\ prev_cache_values' = [prev_cache_values EXCEPT ![c][e] = remembered]
  /\ cache_totals' = [cache_totals EXCEPT ![c][e] = total]
  /\ baseline' = [baseline EXCEPT ![c][e] = TRUE]
  /\ inherited' = IF baseline[c][e]
                    THEN inherited
                    ELSE [inherited EXCEPT ![c][e] = @ + Credit(c, e)]

(* Mutant: the remembered value advances only when the target is credited. *)
ReadSucceedsForTargetOnly(c, e) ==
  Reads(c, e, IF shouldAccumulate[c] THEN raw[c][e]
              ELSE prev_cache_values[c][e],
        cache_totals[c][e] + Credit(c, e))

(* Mutant: a delta replaces the total instead of being added to it.        *)
ReadSucceedsOverwriting(c, e) == Reads(c, e, raw[c][e], Credit(c, e))

(* sampleEvent when the counter could be read.                             *)
ReadSucceeds(c, e) ==
  Reads(c, e, raw[c][e], cache_totals[c][e] + Credit(c, e))

(* Mutant: the error is ignored and the zeroed value is taken as a reading.*)
ReadFailsUnnoticed(c, e) ==
  /\ ReadMayFail
  /\ prev_cache_values' = [prev_cache_values EXCEPT ![c][e] = 0]
  /\ baseline' = [baseline EXCEPT ![c][e] = TRUE]
  /\ UNCHANGED <<cache_totals, inherited>>

(* sampleEvent when bpf_perf_event_read returned an error: it gives up     *)
(* without advancing the remembered value.                                 *)
ReadFails(c, e) ==
  /\ ReadMayFail
  /\ baseline' = [baseline EXCEPT ![c][e] = FALSE]
  /\ UNCHANGED <<prev_cache_values, cache_totals, inherited>>

SampleEvent(c) ==
  /\ inSwitch[c]
  /\ eventIdx[c] < EventCount
  /\ \/ ReadSucceeds(c, eventIdx[c])
     \/ ReadFails(c, eventIdx[c])
  /\ eventIdx' = [eventIdx EXCEPT ![c] = @ + 1]
  /\ UNCHANGED <<kernelVars, setupVars, inSwitch, shouldAccumulate, earned>>

(* The handler returns and the scheduler completes the switch to p.        *)
SwitchTo(c, p) ==
  /\ inSwitch[c]
  /\ eventIdx[c] = EventCount
  /\ running' = [running EXCEPT ![c] = p]
  /\ inSwitch' = [inSwitch EXCEPT ![c] = FALSE]
  /\ eventIdx' = [eventIdx EXCEPT ![c] = 0]
  /\ shouldAccumulate' = [shouldAccumulate EXCEPT ![c] = FALSE]
  /\ UNCHANGED <<raw, setupVars, mapVars, historyVars>>

-----------------------------------------------------------------------------
Setup == OpenCounter \/ BindCounter \/ AttachProgram \/ ConfigureTargetPid

Kernel(c) ==
  \/ Work(c)
  \/ SampleOnSchedSwitch(c)
  \/ SampleEvent(c)
  \/ \E p \in Process : UnobservedSwitch(c, p) \/ SwitchTo(c, p)

Next == Setup \/ \E c \in Cpu : Kernel(c)

Spec == Init /\ [][Next]_vars

-----------------------------------------------------------------------------
(* The counter never runs behind the remembered value, so the clamp of     *)
(* the delta to 0 is never taken and no count is swallowed by it: every    *)
(* reset of a counter happens before the program can read that counter.    *)
PrevNeverAhead ==
  \A c \in Cpu, e \in Event : prev_cache_values[c][e] <= raw[c][e]

(* Apart from reads that had no baseline, a total only holds counts the    *)
(* target itself caused: nothing that another process did before or after  *)
(* the target on the same CPU is credited to it, whatever the schedule.    *)
OnlyOwnCountsBeyondBaseline ==
  \A c \in Cpu, e \in Event :
    cache_totals[c][e] - inherited[c][e] <= earned[c][e]

(* The handler only runs once every counter was bound, and nothing was     *)
(* remembered or credited before.                                          *)
SetupFirst ==
  /\ attached => eventSpecIdx = EventCount
  /\ ~attached =>
       \A c \in Cpu :
         /\ ~inSwitch[c]
         /\ \A e \in Event :
              prev_cache_values[c][e] = 0 /\ ~baseline[c][e]

(* The flag of a handler is about the task that is current on its CPU.     *)
FlagIsCurrent ==
  \A c \in Cpu :
    shouldAccumulate[c] => inSwitch[c] /\ running[c] \in {Idle, Target}

(* With a baseline, nothing is left to read on an idle CPU, and in a       *)
(* switch of an event that its handler has dealt with.                     *)
WindowsAreClosed ==
  \A c \in Cpu, e \in Event :
    baseline[c][e] /\ (running[c] = Idle \/ (inSwitch[c] /\ e < eventIdx[c]))
      => raw[c][e] = prev_cache_values[c][e]

(* What the target has in its open window on c, not credited yet.          *)
OpenWindow(c, e) ==
  IF baseline[c][e] /\ running[c] = Target
    THEN raw[c][e] - prev_cache_values[c][e]
    ELSE 0

(* The credit beyond the inherited one, with what the open window may      *)
(* still add to it, was earned: the strengthening of                       *)
(* OnlyOwnCountsBeyondBaseline that every step preserves.                  *)
CreditsAreEarned ==
  \A c \in Cpu, e \in Event :
    /\ inherited[c][e] <= cache_totals[c][e]
    /\ cache_totals[c][e] - inherited[c][e] + OpenWindow(c, e) <= earned[c][e]

AccountingInv ==
  /\ SetupFirst
  /\ PrevNeverAhead
  /\ FlagIsCurrent
  /\ WindowsAreClosed
  /\ CreditsAreEarned

(* The claim of the handler's comment, with no exception: a total never    *)
(* exceeds what the target itself caused.                                  *)
OnlyOwnCounts ==
  \A c \in Cpu, e \in Event : cache_totals[c][e] <= earned[c][e]

(* The sampler implements TargetAccounting: a window is what a counter     *)
(* gained since a baseline, and credits are totals beyond the inherited.   *)
Armed == target_pid = Target
Keep == [c \in Cpu |-> shouldAccumulate[c] /\ running[c] = Target]
Due == [c \in Cpu |->
          {e \in Event : inSwitch[c] /\ e >= eventIdx[c]}]
Window == [c \in Cpu |-> [e \in Event |->
             IF baseline[c][e] THEN raw[c][e] - prev_cache_values[c][e]
                               ELSE 0]]
OwnCredit == [c \in Cpu |-> [e \in Event |->
                cache_totals[c][e] - inherited[c][e]]]

Accounting == INSTANCE TargetAccounting WITH
  MayLose <- ReadMayFail, armed <- Armed, switching <- inSwitch,
  keep <- Keep, due <- Due, window <- Window, credited <- OwnCredit

(* Every step of the sampler settles whole windows of their own occupant,  *)
(* or loses one when its counter cannot be read: the code's arithmetic on  *)
(* cumulative counters implements the abstract accounting.                 *)
ImplementsAccounting == Accounting!Spec
=============================================================================
