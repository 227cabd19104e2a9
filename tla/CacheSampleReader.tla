------------------------- MODULE CacheSampleReader -------------------------
(***************************************************************************)
(* The user-space half of sampling: EBpfCacheProfiler::readTotals and      *)
(* sumTotalsForEvent, reading cache_totals while the BPF program of        *)
(* CacheSampler keeps adding to it on every CPU.                           *)
(*                                                                         *)
(* A sample is not taken at one instant.  readTotals makes one map lookup  *)
(* per event, in kPerfEventSpecs order, and the kernel answers a lookup of *)
(* a per-CPU array by copying one CPU's slot after the other, with no lock *)
(* shared with the program.  One step of the model copies one slot.        *)
(***************************************************************************)
EXTENDS CacheSampler, Functions

CONSTANT LookupMayFail  (* whether bpf_map_lookup_elem may return an error *)

ASSUME ReaderAssumption == LookupMayFail \in BOOLEAN

VARIABLES
  reading,       (* readTotals is under way                                *)
  readEvent,     (* the event its current lookup is for                    *)
  readCpu,       (* the CPU whose slot is copied next                      *)
  perCpuValues,  (* perCpuValues[e][c]: the slots copied by this call      *)
  sample,        (* sample[e][c]: the slots the last good sample sums up   *)
  failed         (* a sampleOnce call returned an error: the run loop ends *)

(* History variables: no guard reads them.                                 *)
VARIABLES
  totalsAtStart, (* cache_totals when the call under way began             *)
  floor          (* cache_totals when the call behind `sample` began       *)

readerVars == <<reading, readEvent, readCpu, perCpuValues, sample, failed,
                totalsAtStart, floor>>
allVars == <<vars, readerVars>>

NoSlots == [e \in Event |-> [c \in Cpu |-> 0]]

(* sumTotalsForEvent: the value reported for event e.                      *)
Reported(e) == SumFunction(sample[e])

(* The sum of the per-CPU totals t of event e.                             *)
Summed(t, e) == SumFunction([c \in Cpu |-> t[c][e]])

ReaderTypeOK ==
  /\ TypeOK
  /\ reading \in BOOLEAN
  /\ readEvent \in 0 .. EventCount
  /\ readCpu \in Cpu
  /\ perCpuValues \in [Event -> [Cpu -> Nat]]
  /\ sample \in [Event -> [Cpu -> Nat]]
  /\ failed \in BOOLEAN
  /\ totalsAtStart \in [Cpu -> [Event -> Nat]]
  /\ floor \in [Cpu -> [Event -> Nat]]

ReaderInit ==
  /\ Init
  /\ reading = FALSE
  /\ readEvent = 0
  /\ readCpu = 0
  /\ perCpuValues = NoSlots
  /\ sample = NoSlots
  /\ failed = FALSE
  /\ totalsAtStart = Zero
  /\ floor = Zero

(* sampleOnce needs an initialized profiler; readTotals clears the output. *)
BeginRead ==
  /\ target_pid = Target
  /\ ~reading
  /\ ~failed
  /\ reading' = TRUE
  /\ readEvent' = 0
  /\ readCpu' = 0
  /\ perCpuValues' = NoSlots
  /\ totalsAtStart' = cache_totals
  /\ UNCHANGED <<vars, sample, failed, floor>>

(* The lookup of readEvent copies the slot of readCpu.                     *)
Copy ==
  /\ reading
  /\ readEvent < EventCount
  /\ perCpuValues' = [perCpuValues EXCEPT
       ![readEvent][readCpu] = cache_totals[readCpu][readEvent]]
  /\ UNCHANGED <<vars, reading, sample, failed, totalsAtStart, floor>>

(* Mutant: one slot more than there are CPUs.                              *)
CopySlotPastTheEnd == Copy /\ readCpu' = readCpu + 1 /\ UNCHANGED readEvent

CopySlot ==
  /\ Copy
  /\ IF readCpu + 1 < CpuCount
       THEN readCpu' = readCpu + 1 /\ UNCHANGED readEvent
       ELSE readCpu' = 0 /\ readEvent' = readEvent + 1

(* A lookup fails as a whole, before it copies anything.                   *)
LookupError ==
  /\ LookupMayFail
  /\ reading
  /\ readEvent < EventCount
  /\ readCpu = 0
  /\ reading' = FALSE
  /\ UNCHANGED <<vars, readEvent, readCpu, perCpuValues, totalsAtStart>>

(* Mutant: the failure is not noticed, and the sample is used as it is.    *)
LookupFailsUnnoticed ==
  /\ LookupError
  /\ sample' = perCpuValues
  /\ floor' = totalsAtStart
  /\ UNCHANGED failed

(* Mutant: the run loop goes on after a failure and reads again.           *)
LookupFailsAndRetries == LookupError /\ UNCHANGED <<sample, floor, failed>>

(* The sums already made are thrown away, and the run loop ends.           *)
LookupFails == LookupError /\ failed' = TRUE /\ UNCHANGED <<sample, floor>>

EndReadIf(summed) ==
  /\ reading
  /\ summed
  /\ reading' = FALSE
  /\ sample' = perCpuValues
  /\ floor' = totalsAtStart
  /\ UNCHANGED <<vars, readEvent, readCpu, perCpuValues, failed,
                 totalsAtStart>>

(* Mutant: the sample is handed out before every event was summed.         *)
EndReadEarly == EndReadIf(TRUE)

(* readTotals returns 0 and the caller gets the sample.                    *)
EndRead == EndReadIf(readEvent = EventCount)

Reader == BeginRead \/ CopySlot \/ LookupFails \/ EndRead

ReaderNext == Reader \/ (Next /\ UNCHANGED readerVars)

ReaderSpec == ReaderInit /\ [][ReaderNext]_allVars

(* The program is initialized, the run loop samples again after each       *)
(* sample, and a handler that was entered finishes its switch.             *)
FairReaderSpec ==
  /\ ReaderSpec
  /\ WF_allVars(Setup /\ UNCHANGED readerVars)
  /\ WF_allVars(BeginRead)
  /\ WF_allVars(CopySlot)
  /\ WF_allVars(EndRead)
  /\ \A c \in Cpu :
       WF_allVars((SampleEvent(c) \/ \E p \in Process : SwitchTo(c, p))
                  /\ UNCHANGED readerVars)

-----------------------------------------------------------------------------
(* A sample is not a snapshot, but it is bracketed by two: for every event *)
(* it reports at least the total when its readTotals call began and at     *)
(* most the present total, whatever the program adds meanwhile.            *)
SampleBracketed ==
  \A e \in Event :
    /\ Summed(floor, e) <= Reported(e)
    /\ Reported(e) <= Summed(cache_totals, e)

(* The slots each sample sums up are bracketed one by one.                 *)
SlotsBracketed ==
  \A c \in Cpu, e \in Event :
    /\ floor[c][e] <= sample[e][c]
    /\ sample[e][c] <= cache_totals[c][e]

(* The call under way has copied the slot of c for event e.                *)
Copied(c, e) == e < readEvent \/ (e = readEvent /\ c < readCpu)

(* The bracket of the call under way, which becomes that of its sample,    *)
(* and it starts where the last sample ends.                               *)
CopiesBracketed ==
  reading =>
    \A c \in Cpu, e \in Event :
      /\ sample[e][c] <= totalsAtStart[c][e]
      /\ totalsAtStart[c][e] <= cache_totals[c][e]
      /\ Copied(c, e) =>
           /\ totalsAtStart[c][e] <= perCpuValues[e][c]
           /\ perCpuValues[e][c] <= cache_totals[c][e]

(* "Values are monotonic while the target remains active and counters      *)
(* remain readable": no slot of a sample is lower than in the one before.  *)
MonotonicSlots ==
  [][\A c \in Cpu, e \in Event : sample'[e][c] >= sample[e][c]]_allVars

(* The total of CPU c and event e once a switch under way on c is done.    *)
SettledTotal(c, e) ==
  cache_totals[c][e]
    + IF inSwitch[c] /\ e >= eventIdx[c] THEN Credit(c, e) ELSE 0

(* As soon as the target is being switched out, the counts of its window   *)
(* are on their way: a later sample reports them, unless sampling failed.  *)
SettledWorkIsReported ==
  \A c \in Cpu, e \in Event, k \in 1 .. MaxCount :
    (SettledTotal(c, e) >= k) ~> (failed \/ sample[e][c] >= k)
=============================================================================
