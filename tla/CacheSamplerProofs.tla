------------------------- MODULE CacheSamplerProofs -------------------------
(***************************************************************************)
(* Machine-checked proofs about CacheSampler, for any number of CPUs and   *)
(* events, any processes and footprints, any bound on the counters, and    *)
(* counter reads that may fail.                                            *)
(* First its types, then the accounting, then that it implements           *)
(* TargetAccounting.                                                       *)
(***************************************************************************)
EXTENDS CacheSampler, TLAPS

(* The loops of the initialization stay within the CPUs and the events.    *)
LEMMA CpuBounds ==
  /\ 0 \in Cpu
  /\ \A c \in Cpu : c + 1 < CpuCount => c + 1 \in Cpu
BY SamplerAssumption DEF Cpu

LEMMA EventBounds ==
  /\ 0 \in 0 .. EventCount
  /\ \A e \in 0 .. EventCount :
       e < EventCount => e \in Event /\ e + 1 \in 0 .. EventCount
BY SamplerAssumption DEF Event

(* Every step keeps every variable of the sampler in its type.             *)
LEMMA TypeStep == TypeOK /\ [Next]_vars => TypeOK'
<1> SUFFICES ASSUME TypeOK, [Next]_vars
             PROVE  TypeOK'
  OBVIOUS
<1> USE DEF TypeOK
<1>1. CASE OpenCounter
  BY <1>1, CpuBounds DEF OpenCounter, kernelVars, mapVars, handlerVars,
     historyVars
<1>2. CASE BindCounter
  <2> USE <1>2 DEF BindCounter
  <2>1. raw' \in [Cpu -> [Event -> Nat]]
    BY EventBounds
  <2>2. cpuIdx' \in Cpu /\ eventSpecIdx' \in 0 .. EventCount
    BY CpuBounds, EventBounds
  <2>3. opening' \in BOOLEAN
    OBVIOUS
  <2> QED
    BY <2>1, <2>2, <2>3 DEF mapVars, handlerVars, historyVars
<1>3. CASE AttachProgram
  BY <1>3 DEF AttachProgram, AttachProgramIf, kernelVars, mapVars,
       handlerVars, historyVars
<1>4. CASE ConfigureTargetPid
  BY <1>4 DEF ConfigureTargetPid, kernelVars, mapVars, handlerVars,
              historyVars
<1>5. ASSUME NEW c \in Cpu, Work(c)
      PROVE  TypeOK'
  <2> USE <1>5 DEF Work
  <2>1. PICK f \in Footprint :
          /\ raw' = [raw EXCEPT
                      ![c] = [e \in Event |-> @[e] + Counted(c, f)[e]]]
          /\ earned' = IF running[c] = Target
                        THEN [earned EXCEPT ![c] =
                               [e \in Event |->
                                  @[e] + CountedForGood(c, f)[e]]]
                        ELSE earned
    OBVIOUS
  <2>2. /\ Counted(c, f) \in [Event -> Nat]
        /\ CountedForGood(c, f) \in [Event -> Nat]
    BY SamplerAssumption DEF Counted, CountedForGood
  <2>3. raw' \in [Cpu -> [Event -> Nat]]
    BY <2>1, <2>2
  <2>4. earned' \in [Cpu -> [Event -> Nat]]
    BY <2>1, <2>2
  <2> QED
    BY <2>3, <2>4 DEF setupVars, mapVars, handlerVars
<1>6. ASSUME NEW c \in Cpu, NEW p \in Process, UnobservedSwitch(c, p)
      PROVE  TypeOK'
  BY <1>6 DEF UnobservedSwitch, setupVars, mapVars, handlerVars, historyVars
<1>7. ASSUME NEW c \in Cpu, SampleOnSchedSwitch(c)
      PROVE  TypeOK'
  BY <1>7, EventBounds DEF SampleOnSchedSwitch, Enter, kernelVars, setupVars,
       mapVars, historyVars
<1>8. ASSUME NEW c \in Cpu, SampleEvent(c)
      PROVE  TypeOK'
  <2> USE <1>8 DEF SampleEvent, kernelVars, setupVars
  <2>1. eventIdx[c] \in Event /\ eventIdx[c] + 1 \in 0 .. EventCount
    BY EventBounds
  <2>2. CASE ReadSucceeds(c, eventIdx[c])
    <3>1. Credit(c, eventIdx[c]) \in Nat
      BY <2>1 DEF Credit, DeltaValue
    <3> QED
      BY <2>1, <2>2, <3>1 DEF ReadSucceeds, Reads
  <2>3. CASE ReadFails(c, eventIdx[c])
    BY <2>1, <2>3 DEF ReadFails
  <2> QED
    BY <2>2, <2>3
<1>9. ASSUME NEW c \in Cpu, NEW p \in Process, SwitchTo(c, p)
      PROVE  TypeOK'
  BY <1>9, EventBounds DEF SwitchTo, setupVars, mapVars, historyVars
<1>10. CASE UNCHANGED vars
  BY <1>10 DEF vars, kernelVars, setupVars, mapVars, handlerVars, historyVars
<1> HIDE DEF TypeOK
<1>11. CASE Setup
  BY <1>1, <1>2, <1>3, <1>4, <1>11 DEF Setup
<1>12. ASSUME NEW c \in Cpu, Kernel(c)
       PROVE  TypeOK'
  BY <1>5, <1>6, <1>7, <1>8, <1>9, <1>12 DEF Kernel
<1> QED
  BY <1>10, <1>11, <1>12 DEF Next

LEMMA TypeInit == Init => TypeOK
<1> SUFFICES ASSUME Init
             PROVE  TypeOK
  OBVIOUS
<1> USE DEF Init
<1>1. Zero \in [Cpu -> [Event -> Nat]]
  BY DEF Zero
<1>2. eventIdx \in [Cpu -> 0 .. EventCount] /\ eventSpecIdx \in 0 .. EventCount
  BY EventBounds
<1>3. cpuIdx \in Cpu
  BY CpuBounds
<1>4. /\ inSwitch \in [Cpu -> BOOLEAN]
      /\ shouldAccumulate \in [Cpu -> BOOLEAN]
      /\ baseline \in [Cpu -> [Event -> BOOLEAN]]
  OBVIOUS
<1> QED
  BY <1>1, <1>2, <1>3, <1>4 DEF TypeOK

(* In every behaviour of the sampler the variables keep their types.       *)
THEOREM TypeCorrect == Spec => []TypeOK
<1>1. Init => TypeOK
  BY TypeInit
<1>2. TypeOK /\ [Next]_vars => TypeOK'
  BY TypeStep
<1> QED
  BY <1>1, <1>2, PTL DEF Spec

-----------------------------------------------------------------------------
(* Once the program is attached, every counter is bound: all that a burst  *)
(* of work counts is counted for good.                                     *)
LEMMA AllCountedForGood ==
  ASSUME TypeOK, SetupFirst, attached, NEW c \in Cpu, NEW f \in Footprint,
         NEW e \in Event
  PROVE  /\ Counted(c, f)[e] = CountedForGood(c, f)[e]
         /\ Counted(c, f)[e] \in Nat
<1>1. e < eventSpecIdx
  BY SamplerAssumption DEF SetupFirst, TypeOK, Event
<1> QED
  BY <1>1, SamplerAssumption DEF Counted, CountedForGood, Counting, Bound

(* The counters, totals and histories of one CPU and event are numbers.    *)
LEMMA PointwiseTypes ==
  ASSUME TypeOK, NEW c \in Cpu, NEW e \in Event
  PROVE  /\ raw[c][e] \in Nat
         /\ prev_cache_values[c][e] \in Nat
         /\ cache_totals[c][e] \in Nat
         /\ inherited[c][e] \in Nat
         /\ earned[c][e] \in Nat
         /\ eventIdx[c] \in 0 .. EventCount
         /\ baseline[c][e] \in BOOLEAN
         /\ inSwitch[c] \in BOOLEAN
         /\ shouldAccumulate[c] \in BOOLEAN
BY DEF TypeOK

LEMMA CountedIsNat ==
  ASSUME NEW c \in Cpu, NEW f \in Footprint, NEW e \in Event
  PROVE  Counted(c, f)[e] \in Nat /\ CountedForGood(c, f)[e] \in Nat
BY SamplerAssumption DEF Counted, CountedForGood

(* The initialization steps.                                               *)
LEMMA SetupKeepsAccounting ==
  ASSUME TypeOK, AccountingInv, Setup
  PROVE  AccountingInv'
<1> USE DEF AccountingInv
<1>1. CASE OpenCounter
  BY <1>1 DEF OpenCounter, kernelVars, mapVars, handlerVars, historyVars,
     SetupFirst, PrevNeverAhead, FlagIsCurrent, WindowsAreClosed,
     CreditsAreEarned, OpenWindow
<1>2. CASE BindCounter
  <2> USE <1>2 DEF BindCounter, mapVars, handlerVars, historyVars
  <2>1. ~attached /\ ~attached'
    BY SamplerAssumption DEF SetupFirst, TypeOK
  <2>2. \A c \in Cpu, e \in Event :
          raw'[c][e] >= 0 /\ prev_cache_values[c][e] = 0 /\ ~baseline[c][e]
    BY <2>1, EventBounds DEF SetupFirst, TypeOK
  <2>3. SetupFirst'
    BY <2>1 DEF SetupFirst
  <2>4. PrevNeverAhead'
    BY <2>2 DEF PrevNeverAhead
  <2>5. FlagIsCurrent'
    BY DEF FlagIsCurrent
  <2>6. WindowsAreClosed'
    BY <2>2 DEF WindowsAreClosed
  <2>7. CreditsAreEarned'
    BY <2>2 DEF CreditsAreEarned, OpenWindow
  <2> QED
    BY <2>3, <2>4, <2>5, <2>6, <2>7
<1>3. CASE AttachProgram
  BY <1>3 DEF AttachProgram, AttachProgramIf, kernelVars, mapVars,
       handlerVars, historyVars, SetupFirst, PrevNeverAhead, FlagIsCurrent,
       WindowsAreClosed, CreditsAreEarned, OpenWindow
<1>4. CASE ConfigureTargetPid
  BY <1>4 DEF ConfigureTargetPid, kernelVars, mapVars, handlerVars,
     historyVars, SetupFirst, PrevNeverAhead, FlagIsCurrent,
     WindowsAreClosed, CreditsAreEarned, OpenWindow
<1> QED
  BY <1>1, <1>2, <1>3, <1>4 DEF Setup

(* The occupant of a CPU works.                                            *)
LEMMA WorkKeepsAccounting ==
  ASSUME TypeOK, AccountingInv, NEW c \in Cpu, Work(c)
  PROVE  AccountingInv'
<1> USE DEF AccountingInv, Work, setupVars, mapVars, handlerVars
<1>1. PICK f \in Footprint :
        /\ raw' = [raw EXCEPT
                    ![c] = [e \in Event |-> @[e] + Counted(c, f)[e]]]
        /\ earned' = IF running[c] = Target
                      THEN [earned EXCEPT ![c] =
                             [e \in Event |-> @[e] + CountedForGood(c, f)[e]]]
                      ELSE earned
  OBVIOUS
<1>2. \A d \in Cpu, e \in Event :
        raw'[d][e] = IF d = c THEN raw[c][e] + Counted(c, f)[e]
                              ELSE raw[d][e]
  BY <1>1 DEF TypeOK
<1>3. \A d \in Cpu, e \in Event :
        earned'[d][e] = IF d = c /\ running[c] = Target
                          THEN earned[c][e] + CountedForGood(c, f)[e]
                          ELSE earned[d][e]
  BY <1>1 DEF TypeOK
<1>4. \A e \in Event :
        Counted(c, f)[e] \in Nat /\ CountedForGood(c, f)[e] \in Nat
  BY CountedIsNat
<1>5. SetupFirst'
  BY DEF SetupFirst
<1>6. PrevNeverAhead'
  <2> SUFFICES ASSUME NEW d \in Cpu, NEW e \in Event
               PROVE  prev_cache_values[d][e] <= raw'[d][e]
    BY DEF PrevNeverAhead
  <2>1. prev_cache_values[d][e] <= raw[d][e] /\ raw[d][e] <= raw'[d][e]
    BY <1>2, <1>4, PointwiseTypes DEF PrevNeverAhead
  <2>2. raw'[d][e] \in Nat
    BY <1>2, <1>4, PointwiseTypes
  <2> QED
    BY <2>1, <2>2, PointwiseTypes
<1>7. FlagIsCurrent'
  BY DEF FlagIsCurrent
<1>8. WindowsAreClosed'
  BY <1>2 DEF WindowsAreClosed
<1>9. CreditsAreEarned'
  <2> SUFFICES ASSUME NEW d \in Cpu, NEW e \in Event
               PROVE  /\ inherited[d][e] <= cache_totals[d][e]
                      /\ cache_totals[d][e] - inherited[d][e]
                           + OpenWindow(d, e)' <= earned'[d][e]
    BY DEF CreditsAreEarned
  <2>1. CASE d # c \/ running[c] # Target
    BY <2>1, <1>2, <1>3 DEF CreditsAreEarned, OpenWindow
  <2>2. CASE d = c /\ running[c] = Target /\ ~baseline[c][e]
    BY <2>2, <1>3, <1>4, PointwiseTypes DEF CreditsAreEarned, OpenWindow
  <2>3. CASE d = c /\ running[c] = Target /\ baseline[c][e]
    <3>1. attached
      BY <2>3 DEF SetupFirst
    <3>2. Counted(c, f)[e] = CountedForGood(c, f)[e]
      BY <3>1, AllCountedForGood
    <3> QED
      BY <2>3, <3>2, <1>2, <1>3, <1>4, PointwiseTypes
      DEF CreditsAreEarned, OpenWindow
  <2> QED
    BY <2>1, <2>2, <2>3
<1> QED
  BY <1>5, <1>6, <1>7, <1>8, <1>9

(* A switch before the program is attached.                                *)
LEMMA UnobservedKeepsAccounting ==
  ASSUME TypeOK, AccountingInv, NEW c \in Cpu, NEW p \in Process,
         UnobservedSwitch(c, p)
  PROVE  AccountingInv'
<1> USE DEF AccountingInv, UnobservedSwitch, setupVars, mapVars, handlerVars,
            historyVars
<1>1. \A d \in Cpu :
        ~inSwitch[d] /\ \A e \in Event : ~baseline[d][e]
  BY DEF SetupFirst
<1>2. SetupFirst'
  BY DEF SetupFirst
<1>3. PrevNeverAhead'
  BY DEF PrevNeverAhead
<1>4. FlagIsCurrent'
  BY <1>1 DEF FlagIsCurrent
<1>5. WindowsAreClosed'
  BY <1>1 DEF WindowsAreClosed
<1>6. CreditsAreEarned'
  BY <1>1 DEF CreditsAreEarned, OpenWindow
<1> QED
  BY <1>2, <1>3, <1>4, <1>5, <1>6

(* The handler is entered.                                                 *)
LEMMA EntryKeepsAccounting ==
  ASSUME TypeOK, AccountingInv, NEW c \in Cpu, SampleOnSchedSwitch(c)
  PROVE  AccountingInv'
<1> USE DEF AccountingInv, SampleOnSchedSwitch, Enter, kernelVars, setupVars,
      mapVars, historyVars
<1>1. SetupFirst'
  BY DEF SetupFirst
<1>2. PrevNeverAhead'
  BY DEF PrevNeverAhead
<1>3. FlagIsCurrent'
  BY DEF FlagIsCurrent, TypeOK
<1>4. WindowsAreClosed'
  <2> SUFFICES ASSUME NEW d \in Cpu, NEW e \in Event, baseline[d][e],
                      running[d] = Idle \/ (inSwitch'[d] /\ e < eventIdx'[d])
               PROVE  raw[d][e] = prev_cache_values[d][e]
    BY DEF WindowsAreClosed
  <2>1. CASE running[d] = Idle
    BY <2>1 DEF WindowsAreClosed
  <2>2. CASE d = c /\ running[d] # Idle
    <3>1. eventIdx'[c] = 0 /\ ~(e < 0)
      BY SamplerAssumption DEF TypeOK, Event
    <3> QED
      BY <2>2, <3>1
  <2>3. CASE d # c /\ running[d] # Idle
    BY <2>3 DEF WindowsAreClosed, TypeOK
  <2> QED
    BY <2>1, <2>2, <2>3
<1>5. CreditsAreEarned'
  BY DEF CreditsAreEarned, OpenWindow
<1> QED
  BY <1>1, <1>2, <1>3, <1>4, <1>5

(* What one sampleEvent call adds to a total: with a baseline, it is what  *)
(* the open window of the target holds, and nothing on an idle CPU.        *)
LEMMA CreditIsTheOpenWindow ==
  ASSUME TypeOK, AccountingInv, NEW c \in Cpu, NEW e \in Event
  PROVE  /\ Credit(c, e) \in Nat
         /\ baseline[c][e] => Credit(c, e) <= OpenWindow(c, e)
         /\ OpenWindow(c, e) \in Nat
<1> USE PointwiseTypes
<1>1. DeltaValue(c, e) = raw[c][e] - prev_cache_values[c][e]
  BY DEF DeltaValue, AccountingInv, PrevNeverAhead
<1>2. DeltaValue(c, e) \in Nat
  BY <1>1 DEF AccountingInv, PrevNeverAhead
<1>3. Credit(c, e) \in Nat
  BY <1>2 DEF Credit
<1>4. OpenWindow(c, e) \in Nat
  BY <1>1, <1>2 DEF OpenWindow
<1>5. ASSUME baseline[c][e]
      PROVE  Credit(c, e) <= OpenWindow(c, e)
  <2>1. CASE ~shouldAccumulate[c]
    BY <2>1, <1>4 DEF Credit
  <2>2. CASE shouldAccumulate[c] /\ running[c] = Target
    BY <2>2, <1>1, <1>2, <1>5 DEF Credit, OpenWindow
  <2>3. CASE shouldAccumulate[c] /\ running[c] = Idle
    <3>1. DeltaValue(c, e) = 0
      BY <2>3, <1>1, <1>5 DEF AccountingInv, WindowsAreClosed
    <3> QED
      BY <3>1, <1>4 DEF Credit
  <2> QED
    BY <2>1, <2>2, <2>3 DEF AccountingInv, FlagIsCurrent
<1> QED
  BY <1>3, <1>4, <1>5

(* One sampleEvent call.                                                   *)
LEMMA SampleKeepsAccounting ==
  ASSUME TypeOK, AccountingInv, NEW c \in Cpu, SampleEvent(c)
  PROVE  AccountingInv'
<1> DEFINE e == eventIdx[c]
<1> USE DEF SampleEvent, kernelVars, setupVars
<1>1. /\ e \in Event
      /\ inSwitch[c]
      /\ attached /\ attached'
      /\ eventSpecIdx = EventCount /\ eventSpecIdx' = EventCount
  BY EventBounds DEF AccountingInv, SetupFirst, TypeOK
<1>2. \A d \in Cpu, i \in Event :
        i < eventIdx'[d] => i < eventIdx[d] \/ (d = c /\ i = e)
  <2>1. \A d \in Cpu :
          eventIdx'[d] = IF d = c THEN eventIdx[c] + 1 ELSE eventIdx[d]
    BY DEF TypeOK
  <2>2. \A i \in Event : i < eventIdx[c] + 1 => i < eventIdx[c] \/ i = e
    BY <1>1, SamplerAssumption DEF Event
  <2> QED
    BY <2>1, <2>2
<1> HIDE DEF e
<1>3. SetupFirst'
  BY <1>1 DEF SetupFirst
<1>4. FlagIsCurrent'
  BY DEF AccountingInv, FlagIsCurrent
<1>5. CASE ReadSucceeds(c, e)
  <2> USE <1>5 DEF ReadSucceeds, Reads
  <2>1. /\ prev_cache_values'[c][e] = raw[c][e]
        /\ cache_totals'[c][e] = cache_totals[c][e] + Credit(c, e)
        /\ baseline'[c][e]
        /\ inherited'[c][e] = IF baseline[c][e]
                                THEN inherited[c][e]
                                ELSE inherited[c][e] + Credit(c, e)
    BY <1>1 DEF TypeOK
  <2>2. \A d \in Cpu, i \in Event :
          d # c \/ i # e =>
            /\ prev_cache_values'[d][i] = prev_cache_values[d][i]
            /\ cache_totals'[d][i] = cache_totals[d][i]
            /\ baseline'[d][i] = baseline[d][i]
            /\ inherited'[d][i] = inherited[d][i]
    BY <1>1 DEF TypeOK
  <2>3. PrevNeverAhead'
    BY <2>1, <2>2, PointwiseTypes DEF AccountingInv, PrevNeverAhead
  <2>4. WindowsAreClosed'
    BY <1>2, <2>1, <2>2 DEF AccountingInv, WindowsAreClosed
  <2>5. CreditsAreEarned'
    <3> SUFFICES ASSUME NEW d \in Cpu, NEW i \in Event
                 PROVE  /\ inherited'[d][i] <= cache_totals'[d][i]
                        /\ cache_totals'[d][i] - inherited'[d][i]
                             + OpenWindow(d, i)' <= earned[d][i]
      BY DEF CreditsAreEarned
    <3>1. CASE d # c \/ i # e
      BY <3>1, <2>2 DEF AccountingInv, CreditsAreEarned, OpenWindow
    <3>2. CASE d = c /\ i = e
      <4>1. OpenWindow(d, i)' = 0
        BY <2>1, <3>2, PointwiseTypes DEF OpenWindow
      <4>2. /\ inherited[d][i] <= cache_totals[d][i]
            /\ cache_totals[d][i] - inherited[d][i] + OpenWindow(d, i)
                 <= earned[d][i]
        BY DEF AccountingInv, CreditsAreEarned
      <4>3. /\ Credit(d, i) \in Nat
            /\ baseline[d][i] => Credit(d, i) <= OpenWindow(d, i)
            /\ OpenWindow(d, i) \in Nat
        BY CreditIsTheOpenWindow
      <4>4. /\ cache_totals'[d][i] = cache_totals[d][i] + Credit(d, i)
            /\ inherited'[d][i] = IF baseline[d][i]
                                    THEN inherited[d][i]
                                    ELSE inherited[d][i] + Credit(d, i)
        BY <2>1, <3>2
      <4> QED
        BY <4>1, <4>2, <4>3, <4>4, PointwiseTypes
    <3> QED
      BY <3>1, <3>2
  <2> QED
    BY <1>3, <1>4, <2>3, <2>4, <2>5 DEF AccountingInv
<1>6. CASE ReadFails(c, e)
  <2> USE <1>6 DEF ReadFails
  <2>1. \A d \in Cpu, i \in Event :
          IF d = c /\ i = e THEN ~baseline'[d][i]
                            ELSE baseline'[d][i] = baseline[d][i]
    BY <1>1 DEF TypeOK
  <2>2. PrevNeverAhead'
    BY DEF AccountingInv, PrevNeverAhead
  <2>3. WindowsAreClosed'
    BY <1>2, <2>1 DEF AccountingInv, WindowsAreClosed
  <2>4. CreditsAreEarned'
    <3> SUFFICES ASSUME NEW d \in Cpu, NEW i \in Event
                 PROVE  /\ inherited[d][i] <= cache_totals[d][i]
                        /\ cache_totals[d][i] - inherited[d][i]
                             + OpenWindow(d, i)' <= earned[d][i]
      BY DEF CreditsAreEarned
    <3>1. CASE d # c \/ i # e
      BY <3>1, <2>1 DEF AccountingInv, CreditsAreEarned, OpenWindow
    <3>2. CASE d = c /\ i = e
      <4>1. OpenWindow(d, i)' = 0 /\ OpenWindow(d, i) \in Nat
        BY <2>1, <3>2, CreditIsTheOpenWindow DEF OpenWindow
      <4> QED
        BY <4>1, PointwiseTypes DEF AccountingInv, CreditsAreEarned
    <3> QED
      BY <3>1, <3>2
  <2> QED
    BY <1>3, <1>4, <2>2, <2>3, <2>4 DEF AccountingInv
<1> QED
  BY <1>5, <1>6 DEF e

(* The handler returns and another process takes the CPU.                  *)
LEMMA SwitchKeepsAccounting ==
  ASSUME TypeOK, AccountingInv, NEW c \in Cpu, NEW p \in Process,
         SwitchTo(c, p)
  PROVE  AccountingInv'
<1> USE DEF SwitchTo, setupVars, mapVars, historyVars
<1>1. \A e \in Event : baseline[c][e] => raw[c][e] = prev_cache_values[c][e]
  BY SamplerAssumption DEF AccountingInv, WindowsAreClosed, Event
<1>2. \A d \in Cpu :
        /\ d # c => /\ running'[d] = running[d]
                    /\ inSwitch'[d] = inSwitch[d]
                    /\ eventIdx'[d] = eventIdx[d]
                    /\ shouldAccumulate'[d] = shouldAccumulate[d]
        /\ d = c => ~inSwitch'[d] /\ ~shouldAccumulate'[d]
  BY DEF TypeOK
<1>3. SetupFirst'
  BY <1>2 DEF AccountingInv, SetupFirst
<1>4. PrevNeverAhead'
  BY DEF AccountingInv, PrevNeverAhead
<1>5. FlagIsCurrent'
  BY <1>2 DEF AccountingInv, FlagIsCurrent
<1>6. WindowsAreClosed'
  BY <1>1, <1>2 DEF AccountingInv, WindowsAreClosed
<1>7. CreditsAreEarned'
  <2> SUFFICES ASSUME NEW d \in Cpu, NEW e \in Event
               PROVE  /\ inherited[d][e] <= cache_totals[d][e]
                      /\ cache_totals[d][e] - inherited[d][e]
                           + OpenWindow(d, e)' <= earned[d][e]
    BY DEF CreditsAreEarned
  <2>1. CASE d # c
    BY <2>1, <1>2 DEF AccountingInv, CreditsAreEarned, OpenWindow
  <2>2. CASE d = c
    <3>1. OpenWindow(d, e)' = 0 /\ OpenWindow(d, e) = 0
      BY <2>2, <1>1, PointwiseTypes DEF OpenWindow
    <3> QED
      BY <3>1 DEF AccountingInv, CreditsAreEarned
  <2> QED
    BY <2>1, <2>2
<1> QED
  BY <1>3, <1>4, <1>5, <1>6, <1>7 DEF AccountingInv

-----------------------------------------------------------------------------
LEMMA AccountingInit == Init => AccountingInv
<1> SUFFICES ASSUME Init
             PROVE  AccountingInv
  OBVIOUS
<1>1. \A c \in Cpu, e \in Event :
        /\ raw[c][e] = 0 /\ prev_cache_values[c][e] = 0
        /\ cache_totals[c][e] = 0 /\ inherited[c][e] = 0
        /\ earned[c][e] = 0 /\ ~baseline[c][e]
        /\ ~inSwitch[c] /\ ~shouldAccumulate[c]
  BY DEF Init, Zero
<1> QED
  BY <1>1 DEF Init, AccountingInv, SetupFirst, PrevNeverAhead, FlagIsCurrent,
     WindowsAreClosed, CreditsAreEarned, OpenWindow

(* No step disturbs the bookkeeping.                                       *)
LEMMA AccountingStep ==
  TypeOK /\ AccountingInv /\ [Next]_vars => AccountingInv'
<1> SUFFICES ASSUME TypeOK, AccountingInv, [Next]_vars
             PROVE  AccountingInv'
  OBVIOUS
<1>1. CASE Setup
  BY <1>1, SetupKeepsAccounting
<1>2. ASSUME NEW c \in Cpu, Kernel(c)
      PROVE  AccountingInv'
  BY <1>2, WorkKeepsAccounting, UnobservedKeepsAccounting,
     EntryKeepsAccounting, SampleKeepsAccounting, SwitchKeepsAccounting
  DEF Kernel
<1>3. CASE UNCHANGED vars
  BY <1>3 DEF vars, kernelVars, setupVars, mapVars, handlerVars, historyVars,
     AccountingInv, SetupFirst, PrevNeverAhead, FlagIsCurrent,
     WindowsAreClosed, CreditsAreEarned, OpenWindow
<1> QED
  BY <1>1, <1>2, <1>3 DEF Next

(* The inductive invariant of the sampler holds in every behaviour.        *)
THEOREM AccountingCorrect == Spec => []AccountingInv
<1>1. Init => AccountingInv
  BY AccountingInit
<1>2. TypeOK /\ AccountingInv /\ [Next]_vars => AccountingInv'
  BY AccountingStep
<1> QED
  BY <1>1, <1>2, TypeCorrect, PTL DEF Spec

(* No read finds a counter behind its remembered value: the clamp in       *)
(* sampleEvent never swallows a count.                                     *)
THEOREM NeverAhead == Spec => []PrevNeverAhead
<1>1. AccountingInv => PrevNeverAhead
  BY DEF AccountingInv
<1> QED
  BY <1>1, AccountingCorrect, PTL

(* Beyond reads without a baseline, no total ever exceeds what the target  *)
(* itself caused, for any number of CPUs and processes and any schedule.   *)
THEOREM OwnCountsBeyondBaseline == Spec => []OnlyOwnCountsBeyondBaseline
<1>1. TypeOK /\ AccountingInv => OnlyOwnCountsBeyondBaseline
  <2> SUFFICES ASSUME TypeOK, AccountingInv, NEW c \in Cpu, NEW e \in Event
               PROVE  cache_totals[c][e] - inherited[c][e] <= earned[c][e]
    BY DEF OnlyOwnCountsBeyondBaseline
  <2>1. OpenWindow(c, e) \in Nat
    BY CreditIsTheOpenWindow
  <2> QED
    BY <2>1, PointwiseTypes DEF AccountingInv, CreditsAreEarned
<1> QED
  BY <1>1, TypeCorrect, AccountingCorrect, PTL
-----------------------------------------------------------------------------
(***************************************************************************)
(* CacheSampler implements TargetAccounting: cumulative counters, a        *)
(* remembered previous value and a flag, updated event by event, account   *)
(* for the target as if every window were settled by itself.               *)
(***************************************************************************)

(* The mapped variables, one CPU and event at a time.                      *)
LEMMA WindowAt ==
  ASSUME TypeOK, AccountingInv
  PROVE  /\ Window \in [Cpu -> [Event -> Nat]]
         /\ \A c \in Cpu, e \in Event :
              Window[c][e] = IF baseline[c][e]
                               THEN raw[c][e] - prev_cache_values[c][e]
                               ELSE 0
<1>1. \A c \in Cpu, e \in Event :
        baseline[c][e] => raw[c][e] - prev_cache_values[c][e] \in Nat
  BY PointwiseTypes DEF AccountingInv, PrevNeverAhead
<1> QED
  BY <1>1 DEF Window

(* The initial states are those of the abstract specification.             *)
LEMMA RefinesInit == Init => Accounting!Init
<1> SUFFICES ASSUME Init
             PROVE  Accounting!Init
  OBVIOUS
<1> USE DEF Init
<1>1. ~Armed
  BY SamplerAssumption DEF Armed
<1>2. Keep = [c \in Cpu |-> FALSE]
  BY DEF Keep
<1>3. Due = [c \in Cpu |-> {}]
  BY DEF Due
<1>4. Window = [c \in Cpu |-> [e \in Event |-> 0]]
  BY DEF Window
<1>5. OwnCredit = [c \in Cpu |-> [e \in Event |-> 0]]
  BY DEF OwnCredit, Zero
<1> QED
  BY <1>1, <1>2, <1>3, <1>4, <1>5 DEF Accounting!Init

(* Initialization steps are invisible, but for the one that arms.          *)
LEMMA SetupRefines ==
  ASSUME TypeOK, AccountingInv, Setup
  PROVE  Accounting!Arm \/ UNCHANGED Accounting!vars
<1>1. CASE OpenCounter \/ AttachProgram
  BY <1>1 DEF OpenCounter, AttachProgram, AttachProgramIf, kernelVars,
       mapVars, handlerVars, historyVars, Armed, Keep, Due, Window,
       OwnCredit, Accounting!vars
<1>2. CASE BindCounter
  <2> USE <1>2 DEF BindCounter, mapVars, handlerVars, historyVars
  <2>1. \A c \in Cpu, e \in Event : ~baseline[c][e]
    BY SamplerAssumption DEF AccountingInv, SetupFirst, TypeOK
  <2>2. Window' = Window
    BY <2>1 DEF Window
  <2> QED
    BY <2>2 DEF Armed, Keep, Due, OwnCredit, Accounting!vars
<1>3. CASE ConfigureTargetPid
  BY <1>3 DEF ConfigureTargetPid, kernelVars, mapVars, handlerVars,
     historyVars, Armed, Keep, Due, Window, OwnCredit, Accounting!Arm
<1> QED
  BY <1>1, <1>2, <1>3 DEF Setup

(* Work fills the windows of its own CPU only.                             *)
LEMMA WorkRefines ==
  ASSUME TypeOK, AccountingInv, AccountingInv', TypeOK', NEW c \in Cpu,
         Work(c)
  PROVE  Accounting!Burst(c)
<1> USE DEF Work, setupVars, mapVars, handlerVars
<1>1. PICK f \in Footprint :
        raw' = [raw EXCEPT ![c] = [e \in Event |-> @[e] + Counted(c, f)[e]]]
  OBVIOUS
<1>2. \A d \in Cpu, e \in Event :
        raw'[d][e] = IF d = c THEN raw[c][e] + Counted(c, f)[e]
                              ELSE raw[d][e]
  BY <1>1 DEF TypeOK
<1>3. Window' \in [Cpu -> [Event -> Nat]]
  <2>1. \A d \in Cpu, e \in Event :
          /\ raw'[d][e] \in Nat
          /\ prev_cache_values'[d][e] \in Nat
          /\ prev_cache_values'[d][e] <= raw'[d][e]
    BY DEF TypeOK, AccountingInv, PrevNeverAhead
  <2>2. \A d \in Cpu, e \in Event :
          raw'[d][e] - prev_cache_values'[d][e] \in Nat
    BY <2>1
  <2> QED
    BY <2>2 DEF Window
<1>4. \A e \in Event : Window'[c][e] >= Window[c][e]
  BY <1>2, WindowAt, CountedIsNat, PointwiseTypes DEF Window
<1>5. \A d \in Cpu \ {c} : Window'[d] = Window[d]
  BY <1>2 DEF Window
<1> QED
  BY <1>3, <1>4, <1>5 DEF Accounting!Burst, Armed, Keep, Due, OwnCredit

(* Before the program is attached there is nothing to settle.              *)
LEMMA UnobservedRefines ==
  ASSUME TypeOK, AccountingInv, NEW c \in Cpu, NEW p \in Process,
         UnobservedSwitch(c, p)
  PROVE  Accounting!QuietSwitch(c, p)
<1> USE DEF UnobservedSwitch, setupVars, mapVars, handlerVars, historyVars
<1>1. \A d \in Cpu :
        ~inSwitch[d] /\ \A e \in Event : ~baseline[d][e]
  BY DEF AccountingInv, SetupFirst
<1>2. \A d \in Cpu : ~shouldAccumulate[d]
  BY <1>1 DEF AccountingInv, FlagIsCurrent
<1>3. \A e \in Event : Window[c][e] = 0
  BY <1>1 DEF Window
<1>4. Keep' = Keep
  BY <1>2 DEF Keep
<1> QED
  BY <1>1, <1>3, <1>4
  DEF Accounting!QuietSwitch, Armed, Due, Window, OwnCredit

(* The handler is entered: every event is due.                             *)
LEMMA EntryRefines ==
  ASSUME TypeOK, AccountingInv, NEW c \in Cpu, SampleOnSchedSwitch(c)
  PROVE  Accounting!BeginSwitch(c)
<1> USE DEF SampleOnSchedSwitch, Enter, kernelVars, setupVars, mapVars,
      historyVars
<1>1. Keep' = [Keep EXCEPT ![c] = Armed /\ running[c] = Target]
  BY SamplerAssumption DEF Keep, Armed, TypeOK
<1>2. \A e \in Event : e >= 0
  BY SamplerAssumption DEF Event
<1>3. Due' = [Due EXCEPT ![c] = Event]
  BY <1>2 DEF Due, TypeOK
<1> QED
  BY <1>1, <1>3 DEF Accounting!BeginSwitch, Armed, Window, OwnCredit

(* One sampleEvent call is done with one due event.                        *)
LEMMA SampleIsDue ==
  ASSUME TypeOK, NEW c \in Cpu, SampleEvent(c)
  PROVE  /\ eventIdx[c] \in Event
         /\ eventIdx[c] \in Due[c]
         /\ Due' = [Due EXCEPT ![c] = @ \ {eventIdx[c]}]
<1> USE DEF SampleEvent
<1>1. eventIdx[c] \in Event
  BY EventBounds DEF TypeOK
<1>2. \A e \in Event :
        e >= eventIdx[c] + 1 <=> e >= eventIdx[c] /\ e # eventIdx[c]
  BY <1>1, SamplerAssumption DEF Event
<1>3. eventIdx' = [eventIdx EXCEPT ![c] = eventIdx[c] + 1]
  OBVIOUS
<1>4. \A d \in Cpu :
        Due'[d] = IF d = c THEN Due[c] \ {eventIdx[c]} ELSE Due[d]
  BY <1>2, <1>3 DEF Due, TypeOK
<1>5. eventIdx[c] >= eventIdx[c]
  BY <1>1, SamplerAssumption DEF Event
<1> QED
  BY <1>1, <1>4, <1>5 DEF Due

(* What a successful read credits is the window, if it is to be kept.      *)
LEMMA CreditIsTheKeptWindow ==
  ASSUME TypeOK, AccountingInv, NEW c \in Cpu, NEW e \in Event,
         baseline[c][e]
  PROVE  Credit(c, e) = IF Keep[c] THEN Window[c][e] ELSE 0
<1> USE PointwiseTypes
<1>1. DeltaValue(c, e) = raw[c][e] - prev_cache_values[c][e]
  BY DEF DeltaValue, AccountingInv, PrevNeverAhead
<1>2. Window[c][e] = DeltaValue(c, e)
  BY <1>1 DEF Window
<1>3. CASE Keep[c]
  BY <1>2, <1>3 DEF Credit, Keep
<1>4. CASE ~Keep[c]
  <2>1. CASE ~shouldAccumulate[c]
    BY <2>1, <1>4 DEF Credit
  <2>2. CASE shouldAccumulate[c]
    <3>1. running[c] = Idle
      BY <2>2, <1>4 DEF Keep, AccountingInv, FlagIsCurrent
    <3>2. DeltaValue(c, e) = 0
      BY <3>1, <1>1 DEF AccountingInv, WindowsAreClosed
    <3> QED
      BY <3>2, <1>4 DEF Credit
  <2> QED
    BY <2>1, <2>2
<1> QED
  BY <1>3, <1>4

(* A table by CPU and event changed in one entry.                          *)
LEMMA EntryUpdate ==
  ASSUME NEW F, F = [d \in Cpu |-> [i \in Event |-> F[d][i]]],
         NEW G, G = [d \in Cpu |-> [i \in Event |-> G[d][i]]],
         NEW c \in Cpu, NEW e \in Event,
         \A d \in Cpu, i \in Event :
           d # c \/ i # e => G[d][i] = F[d][i]
  PROVE  G = [F EXCEPT ![c][e] = G[c][e]]
<1> DEFINE H == [F EXCEPT ![c][e] = G[c][e]]
<1>1. H = [d \in Cpu |-> H[d]]
  OBVIOUS
<1>2. \A d \in Cpu : H[d] = [i \in Event |-> H[d][i]]
  OBVIOUS
<1>3. \A d \in Cpu, i \in Event : H[d][i] = G[d][i]
  OBVIOUS
<1> HIDE DEF H
<1>4. \A d \in Cpu : H[d] = G[d]
  <2> TAKE d \in Cpu
  <2>1. H[d] = [i \in Event |-> G[d][i]]
    BY <1>2, <1>3
  <2> QED
    BY <2>1
<1>5. H = G
  BY <1>1, <1>4
<1> QED
  BY <1>5 DEF H

(* A successful read settles the window of its event.                      *)
LEMMA ReadRefines ==
  ASSUME TypeOK, AccountingInv, NEW c \in Cpu, NEW e \in Event,
         e = eventIdx[c], SampleEvent(c), ReadSucceeds(c, e)
  PROVE  Accounting!Settle(c, e)
<1>1. /\ e \in Due[c]
      /\ Due' = [Due EXCEPT ![c] = @ \ {e}]
  BY SampleIsDue
<1>2. UNCHANGED <<running, Armed, inSwitch, Keep>>
  BY DEF SampleEvent, kernelVars, setupVars, Armed, Keep
<1>3. raw' = raw
  BY DEF SampleEvent, kernelVars
<1>4. /\ prev_cache_values'[c][e] = raw[c][e]
      /\ cache_totals'[c][e] = cache_totals[c][e] + Credit(c, e)
      /\ baseline'[c][e]
      /\ inherited'[c][e] = IF baseline[c][e]
                              THEN inherited[c][e]
                              ELSE inherited[c][e] + Credit(c, e)
  BY DEF ReadSucceeds, Reads, TypeOK
<1>5. \A d \in Cpu, i \in Event :
        d # c \/ i # e =>
          /\ prev_cache_values'[d][i] = prev_cache_values[d][i]
          /\ cache_totals'[d][i] = cache_totals[d][i]
          /\ baseline'[d][i] = baseline[d][i]
          /\ inherited'[d][i] = inherited[d][i]
  BY DEF ReadSucceeds, Reads, TypeOK
<1>6. Window' = [Window EXCEPT ![c][e] = 0]
  <2>1. \A d \in Cpu, i \in Event : d # c \/ i # e =>
          Window'[d][i] = Window[d][i]
    BY <1>3, <1>5 DEF Window
  <2>2. Window'[c][e] = 0
    BY <1>3, <1>4, PointwiseTypes DEF Window
  <2>3. /\ Window = [d \in Cpu |-> [i \in Event |-> Window[d][i]]]
        /\ Window' = [d \in Cpu |-> [i \in Event |-> Window'[d][i]]]
    BY DEF Window
  <2> QED
    BY <2>1, <2>2, <2>3, EntryUpdate
<1>7. OwnCredit' = [OwnCredit EXCEPT
                      ![c][e] = IF Keep[c] THEN @ + Window[c][e] ELSE @]
  <2>1. \A d \in Cpu, i \in Event : d # c \/ i # e =>
          OwnCredit'[d][i] = OwnCredit[d][i]
    BY <1>5 DEF OwnCredit
  <2>2. OwnCredit'[c][e] = IF Keep[c] THEN OwnCredit[c][e] + Window[c][e]
                                      ELSE OwnCredit[c][e]
    <3>1. Credit(c, e) \in Nat
      BY CreditIsTheOpenWindow
    <3>2. OwnCredit[c][e] = cache_totals[c][e] - inherited[c][e]
      BY DEF OwnCredit
    <3>3. OwnCredit'[c][e] = cache_totals'[c][e] - inherited'[c][e]
      BY DEF OwnCredit
    <3>4. CASE baseline[c][e]
      <4>1. OwnCredit'[c][e] = OwnCredit[c][e] + Credit(c, e)
        BY <1>4, <3>1, <3>2, <3>3, <3>4, PointwiseTypes
      <4>2. Credit(c, e) = IF Keep[c] THEN Window[c][e] ELSE 0
        BY <3>4, CreditIsTheKeptWindow
      <4>3. OwnCredit[c][e] \in Int
        BY <3>2, PointwiseTypes
      <4> QED
        BY <4>1, <4>2, <4>3
    <3>5. CASE ~baseline[c][e]
      <4>1. Window[c][e] = 0
        BY <3>5 DEF Window
      <4>2. OwnCredit'[c][e] = OwnCredit[c][e]
        BY <1>4, <3>1, <3>2, <3>3, <3>5, PointwiseTypes
      <4>3. OwnCredit[c][e] \in Int
        BY <3>2, PointwiseTypes
      <4> QED
        BY <4>1, <4>2, <4>3
    <3> QED
      BY <3>4, <3>5
  <2>3. /\ OwnCredit = [d \in Cpu |-> [i \in Event |-> OwnCredit[d][i]]]
        /\ OwnCredit' = [d \in Cpu |-> [i \in Event |-> OwnCredit'[d][i]]]
    BY DEF OwnCredit
  <2>4. OwnCredit' = [OwnCredit EXCEPT ![c][e] = OwnCredit'[c][e]]
    BY <2>1, <2>3, EntryUpdate
  <2>5. OwnCredit = [d \in Cpu |-> OwnCredit[d]] /\
        OwnCredit[c] = [i \in Event |-> OwnCredit[c][i]]
    BY DEF OwnCredit
  <2> QED
    BY <2>2, <2>4, <2>5
<1> QED
  BY <1>1, <1>2, <1>6, <1>7 DEF Accounting!Settle

(* A failed read loses it.                                                 *)
LEMMA FailureRefines ==
  ASSUME TypeOK, AccountingInv, NEW c \in Cpu, NEW e \in Event,
         e = eventIdx[c], SampleEvent(c), ReadFails(c, e)
  PROVE  Accounting!Lose(c, e)
<1>1. /\ e \in Due[c]
      /\ Due' = [Due EXCEPT ![c] = @ \ {e}]
  BY SampleIsDue
<1>2. UNCHANGED <<running, Armed, inSwitch, Keep, raw>>
  BY DEF SampleEvent, kernelVars, setupVars, Armed, Keep
<1>4. OwnCredit' = OwnCredit
  BY DEF ReadFails, OwnCredit
<1>5. /\ ~baseline'[c][e]
      /\ \A d \in Cpu, i \in Event :
           d # c \/ i # e => baseline'[d][i] = baseline[d][i]
  BY DEF ReadFails, TypeOK
<1>6. Window' = [Window EXCEPT ![c][e] = 0]
  <2>1. \A d \in Cpu, i \in Event : d # c \/ i # e =>
          Window'[d][i] = Window[d][i]
    BY <1>2, <1>5 DEF ReadFails, Window
  <2>2. Window'[c][e] = 0
    BY <1>5 DEF Window
  <2>3. /\ Window = [d \in Cpu |-> [i \in Event |-> Window[d][i]]]
        /\ Window' = [d \in Cpu |-> [i \in Event |-> Window'[d][i]]]
    BY DEF Window
  <2> QED
    BY <2>1, <2>2, <2>3, EntryUpdate
<1> QED
  BY <1>1, <1>2, <1>4, <1>6 DEF Accounting!Lose, ReadFails

(* The handler returns when nothing is due any more.                       *)
LEMMA SwitchRefines ==
  ASSUME TypeOK, AccountingInv, NEW c \in Cpu, NEW p \in Process,
         SwitchTo(c, p)
  PROVE  Accounting!EndSwitch(c, p)
<1> USE DEF SwitchTo, setupVars, mapVars, historyVars
<1>1. \A e \in Event : ~(e >= EventCount)
  BY SamplerAssumption DEF Event
<1>2. Due[c] = {}
  BY <1>1 DEF Due
<1>3. Due' = Due
  BY <1>2 DEF Due, TypeOK
<1>4. Keep' = [Keep EXCEPT ![c] = FALSE]
  BY DEF Keep, TypeOK
<1> QED
  BY <1>2, <1>3, <1>4 DEF Accounting!EndSwitch, Armed, Window, OwnCredit

(* Every step of the sampler is one of the accounting, or invisible to it. *)
LEMMA StepRefines ==
  TypeOK /\ AccountingInv /\ TypeOK' /\ AccountingInv' /\ [Next]_vars
    => [Accounting!Next]_(Accounting!vars)
<1> SUFFICES ASSUME TypeOK, AccountingInv, TypeOK', AccountingInv',
                    [Next]_vars
             PROVE  Accounting!Next \/ UNCHANGED Accounting!vars
  OBVIOUS
<1>1. CASE Setup
  BY <1>1, SetupRefines DEF Accounting!Next
<1>2. ASSUME NEW c \in Cpu, Kernel(c)
      PROVE  Accounting!Next
  <2>1. CASE Work(c)
    BY <2>1, WorkRefines DEF Accounting!Next
  <2>2. CASE SampleOnSchedSwitch(c)
    BY <2>2, EntryRefines DEF Accounting!Next
  <2>3. CASE SampleEvent(c)
    <3>1. PICK e \in Event : e = eventIdx[c]
      BY <2>3, SampleIsDue
    <3>2. Accounting!Settle(c, e) \/ Accounting!Lose(c, e)
      BY <2>3, <3>1, ReadRefines, FailureRefines DEF SampleEvent
    <3> QED
      BY <3>2 DEF Accounting!Next
  <2>4. ASSUME NEW p \in Process, UnobservedSwitch(c, p)
        PROVE  Accounting!Next
    BY <2>4, UnobservedRefines DEF Accounting!Next
  <2>5. ASSUME NEW p \in Process, SwitchTo(c, p)
        PROVE  Accounting!Next
    BY <2>5, SwitchRefines DEF Accounting!Next
  <2> QED
    BY <1>2, <2>1, <2>2, <2>3, <2>4, <2>5 DEF Kernel
<1>3. CASE UNCHANGED vars
  BY <1>3 DEF vars, kernelVars, setupVars, mapVars, handlerVars, historyVars,
     Armed, Keep, Due, Window, OwnCredit, Accounting!vars
<1> QED
  BY <1>1, <1>2, <1>3 DEF Next

(* The sampler implements the abstract accounting, for any number of CPUs, *)
(* events and processes: no window changes owner, and only windows of the  *)
(* armed target are credited beyond the inherited counts.                  *)
THEOREM SamplerRefines == Spec => ImplementsAccounting
<1>1. Init => Accounting!Init
  BY RefinesInit
<1>2. TypeOK /\ AccountingInv /\ TypeOK' /\ AccountingInv' /\ [Next]_vars
        => [Accounting!Next]_(Accounting!vars)
  BY StepRefines
<1> QED
  BY <1>1, <1>2, TypeCorrect, AccountingCorrect, PTL
  DEF Spec, ImplementsAccounting, Accounting!Spec
=============================================================================
