---------------------- MODULE CacheSampleReaderProofs ----------------------
(***************************************************************************)
(* Machine-checked proofs about CacheSampleReader: its samples are         *)
(* bracketed, slot by slot and summed over the CPUs, and monotonic, for    *)
(* any number of CPUs and events and any interleaving of the copies with   *)
(* the handlers.                                                           *)
(***************************************************************************)
EXTENDS CacheSampleReader, CacheSamplerProofs, FiniteSetTheorems

(* What the reader adds to the types, and the two brackets.                *)
ReaderInv == ReaderTypeOK /\ CopiesBracketed /\ SlotsBracketed

(* The sampler never takes a count back: no step lowers a total.           *)
LEMMA TotalsGrow ==
  ASSUME TypeOK, [Next]_vars, NEW c \in Cpu, NEW e \in Event
  PROVE  cache_totals[c][e] <= cache_totals'[c][e]
<1> USE PointwiseTypes
<1>1. ASSUME NEW d \in Cpu, SampleEvent(d)
      PROVE  cache_totals[c][e] <= cache_totals'[c][e]
  <2>1. CASE ReadSucceeds(d, eventIdx[d])
    <3>1. eventIdx[d] \in Event
      BY <1>1, EventBounds DEF SampleEvent, TypeOK
    <3>2. Credit(d, eventIdx[d]) \in Nat
      BY <3>1 DEF Credit, DeltaValue
    <3>3. cache_totals'[c][e] =
            IF d = c /\ eventIdx[d] = e
              THEN cache_totals[c][e] + Credit(d, eventIdx[d])
              ELSE cache_totals[c][e]
      BY <2>1, <3>1 DEF ReadSucceeds, Reads, TypeOK
    <3> QED
      BY <3>2, <3>3
  <2>2. CASE ReadFails(d, eventIdx[d])
    BY <2>2 DEF ReadFails
  <2> QED
    BY <1>1, <2>1, <2>2 DEF SampleEvent
<1>2. ASSUME NEW d \in Cpu, Kernel(d), ~SampleEvent(d)
      PROVE  cache_totals' = cache_totals
  BY <1>2 DEF Kernel, Work, SampleOnSchedSwitch, Enter, UnobservedSwitch,
       SwitchTo, mapVars
<1>3. CASE Setup
  BY <1>3 DEF Setup, OpenCounter, BindCounter, AttachProgram,
       AttachProgramIf, ConfigureTargetPid, mapVars
<1>4. CASE UNCHANGED vars
  BY <1>4 DEF vars, mapVars
<1> QED
  BY <1>1, <1>2, <1>3, <1>4 DEF Next

(* A step of the sampler raises the totals under the reader's feet.        *)
LEMMA SamplerStepKeepsReader ==
  ASSUME ReaderInv, [Next]_vars, UNCHANGED readerVars
  PROVE  ReaderInv'
<1> USE DEF readerVars, ReaderInv
<1>1. TypeOK /\ TypeOK'
  BY TypeStep DEF ReaderTypeOK
<1>2. ReaderTypeOK'
  BY <1>1 DEF ReaderTypeOK
<1>3. \A c \in Cpu, e \in Event :
        /\ cache_totals[c][e] \in Nat /\ cache_totals'[c][e] \in Nat
        /\ cache_totals[c][e] <= cache_totals'[c][e]
        /\ sample[e][c] \in Nat /\ perCpuValues[e][c] \in Nat
        /\ totalsAtStart[c][e] \in Nat
  BY <1>1, TotalsGrow DEF ReaderTypeOK, TypeOK
<1>4. CopiesBracketed'
  BY <1>3 DEF CopiesBracketed, Copied
<1>5. SlotsBracketed'
  BY <1>3 DEF SlotsBracketed
<1> QED
  BY <1>2, <1>4, <1>5

(* A sample is published when every slot was copied; none is lower than    *)
(* the one it replaces.                                                    *)
LEMMA PublishedAreBracketed ==
  ASSUME ReaderInv, EndRead, NEW c \in Cpu, NEW e \in Event
  PROVE  /\ floor'[c][e] <= sample'[e][c]
         /\ sample'[e][c] <= cache_totals[c][e]
         /\ sample[e][c] <= sample'[e][c]
<1>1. Copied(c, e)
  BY SamplerAssumption DEF EndRead, EndReadIf, Copied, Event
<1>2. /\ sample[e][c] \in Nat /\ perCpuValues[e][c] \in Nat
      /\ totalsAtStart[c][e] \in Nat
  BY DEF ReaderInv, ReaderTypeOK
<1> QED
  BY <1>1, <1>2 DEF ReaderInv, CopiesBracketed, EndRead, EndReadIf

(* The reader's own steps.                                                 *)
LEMMA ReaderStepKeepsReader ==
  ASSUME ReaderInv, Reader
  PROVE  ReaderInv'
<1>1. TypeOK'
  BY DEF ReaderInv, ReaderTypeOK, Reader, BeginRead, CopySlot, Copy,
       LookupFails, LookupError, EndRead, EndReadIf, vars, kernelVars,
       setupVars, mapVars, handlerVars, historyVars, TypeOK
<1>2. cache_totals' = cache_totals
  BY DEF Reader, BeginRead, CopySlot, Copy, LookupFails, LookupError,
       EndRead, EndReadIf, vars, mapVars
<1>3. CASE BeginRead
  <2> USE <1>3 DEF BeginRead, ReaderInv
  <2>1. NoSlots \in [Event -> [Cpu -> Nat]]
    BY DEF NoSlots
  <2>2. ReaderTypeOK'
    BY <1>1, <2>1, CpuBounds, EventBounds DEF ReaderTypeOK, TypeOK
  <2>3. \A c \in Cpu, e \in Event : ~Copied(c, e)'
    BY SamplerAssumption DEF Copied, Cpu, Event
  <2>4. CopiesBracketed'
    BY <1>2, <2>3, PointwiseTypes
    DEF CopiesBracketed, SlotsBracketed, ReaderTypeOK
  <2>5. SlotsBracketed'
    BY <1>2 DEF SlotsBracketed
  <2> QED
    BY <2>2, <2>4, <2>5
<1>4. CASE CopySlot
  <2> USE <1>4 DEF CopySlot, Copy, ReaderInv
  <2>1. /\ readEvent \in Event /\ readCpu \in Cpu
        /\ readEvent' \in 0 .. EventCount /\ readCpu' \in Cpu
    BY CpuBounds, EventBounds DEF ReaderTypeOK
  <2>2. \A c \in Cpu, e \in Event :
          perCpuValues'[e][c] = IF c = readCpu /\ e = readEvent
                                  THEN cache_totals[c][e]
                                  ELSE perCpuValues[e][c]
    BY <2>1 DEF ReaderTypeOK
  <2>3. cache_totals[readCpu][readEvent] \in Nat
    BY <2>1, PointwiseTypes DEF ReaderTypeOK
  <2>4. perCpuValues' \in [Event -> [Cpu -> Nat]]
    BY <2>1, <2>3 DEF ReaderTypeOK
  <2>5. ReaderTypeOK'
    BY <1>1, <2>1, <2>4 DEF ReaderTypeOK
  <2>6. \A c \in Cpu, e \in Event :
          Copied(c, e)' => Copied(c, e) \/ (c = readCpu /\ e = readEvent)
    BY <2>1, SamplerAssumption DEF Copied, Cpu, Event
  <2>7. CopiesBracketed'
    BY <1>2, <2>2, <2>6, PointwiseTypes DEF CopiesBracketed, ReaderTypeOK
  <2>8. SlotsBracketed'
    BY <1>2 DEF SlotsBracketed
  <2> QED
    BY <2>5, <2>7, <2>8
<1>5. CASE LookupFails
  BY <1>1, <1>2, <1>5 DEF LookupFails, LookupError, ReaderInv, ReaderTypeOK,
       CopiesBracketed, SlotsBracketed
<1>6. CASE EndRead
  <2>1. ReaderTypeOK'
    BY <1>1, <1>6 DEF EndRead, EndReadIf, ReaderInv, ReaderTypeOK
  <2>2. CopiesBracketed'
    BY <1>6 DEF EndRead, EndReadIf, CopiesBracketed
  <2>3. SlotsBracketed'
    BY <1>2, <1>6, PublishedAreBracketed DEF SlotsBracketed
  <2> QED
    BY <2>1, <2>2, <2>3 DEF ReaderInv
<1> QED
  BY <1>3, <1>4, <1>5, <1>6 DEF Reader

LEMMA ReaderInitial == ReaderInit => ReaderInv
<1> SUFFICES ASSUME ReaderInit
             PROVE  ReaderInv
  OBVIOUS
<1> USE DEF ReaderInit
<1>1. TypeOK /\ cache_totals = Zero
  BY TypeInit DEF Init
<1>2. /\ NoSlots \in [Event -> [Cpu -> Nat]]
      /\ Zero \in [Cpu -> [Event -> Nat]]
  BY DEF NoSlots, Zero
<1>3. ReaderTypeOK
  BY <1>1, <1>2, CpuBounds, EventBounds DEF ReaderTypeOK
<1>4. CopiesBracketed
  BY DEF CopiesBracketed
<1>5. SlotsBracketed
  BY <1>1 DEF SlotsBracketed, Zero, NoSlots
<1> QED
  BY <1>3, <1>4, <1>5 DEF ReaderInv

LEMMA ReaderStep == ReaderInv /\ [ReaderNext]_allVars => ReaderInv'
<1> SUFFICES ASSUME ReaderInv, [ReaderNext]_allVars
             PROVE  ReaderInv'
  OBVIOUS
<1>1. CASE Reader
  BY <1>1, ReaderStepKeepsReader
<1>2. CASE Next /\ UNCHANGED readerVars
  BY <1>2, SamplerStepKeepsReader
<1>3. CASE UNCHANGED allVars
  BY <1>3, SamplerStepKeepsReader DEF allVars
<1> QED
  BY <1>1, <1>2, <1>3 DEF ReaderNext

(* The invariant of the reader holds in every behaviour.                   *)
THEOREM ReaderCorrect == ReaderSpec => []ReaderInv
BY ReaderInitial, ReaderStep, PTL DEF ReaderSpec

(* Every slot of every sample lies between the total when its readTotals   *)
(* call began and the present total.                                       *)
THEOREM SamplesAreBracketed == ReaderSpec => []SlotsBracketed
<1>1. ReaderInv => SlotsBracketed
  BY DEF ReaderInv
<1> QED
  BY <1>1, ReaderCorrect, PTL

(* Every variable of the reader keeps its type: no lookup is made for an   *)
(* event or copied from a slot that does not exist.                        *)
THEOREM ReaderTypesOK == ReaderSpec => []ReaderTypeOK
<1>1. ReaderInv => ReaderTypeOK
  BY DEF ReaderInv
<1> QED
  BY <1>1, ReaderCorrect, PTL

(* No slot of a sample is ever lower than in the sample before, so no      *)
(* reported sum is.                                                        *)
THEOREM SamplesAreMonotonic == ReaderSpec => MonotonicSlots
<1>1. ReaderInv /\ [ReaderNext]_allVars =>
        [\A c \in Cpu, e \in Event : sample'[e][c] >= sample[e][c]]_allVars
  <2> SUFFICES ASSUME ReaderInv, [ReaderNext]_allVars,
                      NEW c \in Cpu, NEW e \in Event
               PROVE  sample'[e][c] >= sample[e][c]
    OBVIOUS
  <2>1. sample[e][c] \in Nat /\ sample'[e][c] \in Nat
    BY ReaderStep DEF ReaderInv, ReaderTypeOK
  <2>2. CASE EndRead
    BY <2>1, <2>2, PublishedAreBracketed
  <2>3. CASE ~EndRead
    <3>1. sample' = sample
      BY <2>3 DEF ReaderNext, Reader, BeginRead, CopySlot, Copy, LookupFails,
           LookupError, readerVars, allVars
    <3> QED
      BY <2>1, <3>1
  <2> QED
    BY <2>2, <2>3
<1> QED
  BY <1>1, ReaderCorrect, PTL DEF ReaderSpec, MonotonicSlots
-----------------------------------------------------------------------------
(* SumFunction adds the values of a function in the order in which Pick    *)
(* takes the elements of a set.  SumStep is one addition, and Sums says    *)
(* that g is the sum of f over every subset of T.                          *)
Pick(s) == CHOOSE x \in s : TRUE
SumStep(f, g, s) == IF s = {} THEN 0 ELSE f[Pick(s)] + g[s \ {Pick(s)}]
Sums(f, T, g) == g = [s \in SUBSET T |-> SumStep(f, g, s)]
SumsOf(f, T) == CHOOSE g : Sums(f, T, g)

(* SumFunction, the fold of the library, is such a sum.                    *)
LEMMA SumIsFold ==
  ASSUME NEW f, NEW S, DOMAIN f = S
  PROVE  SumFunction(f) = SumsOf(f, S)[S]
BY DEF SumFunction, SumFunctionOnSet, FoldFunctionOnSet, MapThenFoldSet,
   SumsOf, Sums, SumStep, Pick

(* Among any subsets of a finite set there is a smallest one.              *)
LEMMA SmallestSubset ==
  ASSUME NEW S, IsFiniteSet(S), NEW F \in SUBSET (SUBSET S), F # {}
  PROVE  \E T \in F : \A U \in F : U \subseteq T => U = T
<1> DEFINE R == StrictSubsetOrdering(S)
<1>1. IsWellFoundedOn(R, SUBSET S)
  BY FS_StrictSubsetOrderingWellFounded, FS_FiniteSubsetsOfFinite
<1> HIDE DEF R
<1>2. \E T \in F : \A U \in F : ~ (<<U, T>> \in R)
  BY <1>1, WFMin
<1>3. \A T \in F, U \in F : U \subseteq T /\ U # T => <<U, T>> \in R
  BY DEF R, StrictSubsetOrdering
<1> QED
  BY <1>2, <1>3

(* What is picked of a set is in it.                                       *)
LEMMA Picked == \A s : s # {} => Pick(s) \in s
BY DEF Pick

(* What the sum of a subset is does not depend on the set around it.       *)
LEMMA SumsAgree ==
  ASSUME NEW S, IsFiniteSet(S), NEW f,
         NEW T \in SUBSET S, NEW g, Sums(f, T, g),
         NEW U \in SUBSET S, NEW h, Sums(f, U, h),
         NEW s \in SUBSET T, s \in SUBSET U
  PROVE  g[s] = h[s]
<1> DEFINE F == {r \in SUBSET (T \cap U) : g[r] # h[r]}
<1>1. SUFFICES ASSUME F # {} PROVE FALSE
  OBVIOUS
<1>2. PICK r \in F : \A q \in F : q \subseteq r => q = r
  <2>1. F \in SUBSET (SUBSET S)
    OBVIOUS
  <2> HIDE DEF F
  <2> QED
    BY <1>1, <2>1, SmallestSubset
<1>3. g[r] = SumStep(f, g, r) /\ h[r] = SumStep(f, h, r)
  BY DEF Sums
<1>4. CASE r = {}
  BY <1>3, <1>4 DEF SumStep
<1>5. CASE r # {}
  <2>1. Pick(r) \in r
    BY <1>5, Picked
  <2>2. g[r \ {Pick(r)}] = h[r \ {Pick(r)}]
    BY <1>2, <2>1
  <2> QED
    BY <1>3, <1>5, <2>2 DEF SumStep
<1> QED
  BY <1>4, <1>5

(* Every function on a finite set has sums.                                *)
LEMMA SumsExist ==
  ASSUME NEW S, IsFiniteSet(S), NEW f
  PROVE  \E g : Sums(f, S, g)
<1> DEFINE F == {T \in SUBSET S : ~ \E g : Sums(f, T, g)}
<1>1. SUFFICES ASSUME F # {} PROVE FALSE
  OBVIOUS
<1>2. PICK T \in F : \A U \in F : U \subseteq T => U = T
  <2>1. F \in SUBSET (SUBSET S)
    OBVIOUS
  <2> HIDE DEF F
  <2> QED
    BY <1>1, <2>1, SmallestSubset
<1> DEFINE G(U) == SumsOf(f, U)
<1>3. \A U \in SUBSET T : U # T => Sums(f, U, G(U))
  BY <1>2 DEF SumsOf
<1> HIDE DEF G
<1> DEFINE Less(s) == s \ {Pick(s)}
<1>4. \A s \in SUBSET T : s # {} =>
        /\ Less(s) \in SUBSET T /\ Less(s) \in SUBSET s
        /\ Less(s) # T /\ Less(s) # s
  BY Picked
<1> DEFINE g == [s \in SUBSET T |->
                   IF s # T THEN G(s)[s]
                   ELSE IF T = {} THEN 0
                   ELSE f[Pick(T)] + G(Less(T))[Less(T)]]
<1>5. \A s \in SUBSET T : s # {} => g[Less(s)] = G(Less(s))[Less(s)]
  BY <1>4
<1>6. \A s \in SUBSET T : g[s] = SumStep(f, g, s)
  <2> SUFFICES ASSUME NEW s \in SUBSET T
               PROVE  g[s] = SumStep(f, g, s)
    OBVIOUS
  <2>1. CASE s = T
    BY <1>5, <2>1 DEF SumStep
  <2>2. CASE s # T /\ s = {}
    BY <1>3, <2>2 DEF Sums, SumStep
  <2>3. CASE s # T /\ s # {}
    <3>1. G(s)[s] = f[Pick(s)] + G(s)[Less(s)]
      BY <1>3, <2>3 DEF Sums, SumStep
    <3>2. Sums(f, s, G(s)) /\ Sums(f, Less(s), G(Less(s)))
      BY <1>3, <1>4, <2>3
    <3>3. /\ s \in SUBSET S /\ Less(s) \in SUBSET S
          /\ Less(s) \in SUBSET s /\ Less(s) \in SUBSET Less(s)
      BY <1>2
    <3>4. G(s)[Less(s)] = G(Less(s))[Less(s)]
      <4> HIDE DEF Less
      <4> QED
        BY <3>2, <3>3, SumsAgree
    <3> QED
      BY <1>5, <2>3, <3>1, <3>4 DEF SumStep
  <2> QED
    BY <2>1, <2>2, <2>3
<1>7. Sums(f, T, g)
  BY <1>6 DEF Sums
<1> QED
  BY <1>2, <1>7

(* The sum of a set is what is picked and the sum of the rest.             *)
LEMMA SumRecurrence ==
  ASSUME NEW S, IsFiniteSet(S), NEW f, NEW s \in SUBSET S
  PROVE  SumsOf(f, S)[s] = SumStep(f, SumsOf(f, S), s)
<1>1. PICK g : Sums(f, S, g)
  BY SumsExist
<1>2. Sums(f, S, SumsOf(f, S))
  BY <1>1 DEF SumsOf
<1> QED
  BY <1>2 DEF Sums

(* Sums of naturals are naturals, and smaller values have smaller sums.    *)
LEMMA SumsAreMonotonic ==
  ASSUME NEW S, IsFiniteSet(S), NEW f \in [S -> Nat], NEW h \in [S -> Nat],
         \A x \in S : f[x] <= h[x]
  PROVE  /\ SumFunction(f) \in Nat /\ SumFunction(h) \in Nat
         /\ SumFunction(f) <= SumFunction(h)
<1> DEFINE Below(s) == /\ SumsOf(f, S)[s] \in Nat /\ SumsOf(h, S)[s] \in Nat
                       /\ SumsOf(f, S)[s] <= SumsOf(h, S)[s]
           F == {s \in SUBSET S : ~Below(s)}
<1>1. F = {}
  <2>1. SUFFICES ASSUME F # {} PROVE FALSE
    OBVIOUS
  <2>2. PICK s \in F : \A r \in F : r \subseteq s => r = s
    <3>1. F \in SUBSET (SUBSET S)
      OBVIOUS
    <3> HIDE DEF F
    <3> QED
      BY <2>1, <3>1, SmallestSubset
  <2>3. /\ SumsOf(f, S)[s] = SumStep(f, SumsOf(f, S), s)
        /\ SumsOf(h, S)[s] = SumStep(h, SumsOf(h, S), s)
    BY <2>2, SumRecurrence
  <2>4. CASE s = {}
    BY <2>2, <2>3, <2>4 DEF SumStep
  <2>5. CASE s # {}
    <3>1. Pick(s) \in s /\ Pick(s) \in S
      BY <2>2, <2>5, Picked
    <3>2. Below(s \ {Pick(s)})
      <4> HIDE DEF Below
      <4> QED
        BY <2>2, <3>1
    <3>3. /\ f[Pick(s)] \in Nat /\ h[Pick(s)] \in Nat
          /\ f[Pick(s)] <= h[Pick(s)]
      BY <3>1
    <3> QED
      BY <2>2, <2>3, <2>5, <3>2, <3>3 DEF SumStep
  <2> QED
    BY <2>4, <2>5
<1>2. Below(S)
  BY <1>1
<1> QED
  BY <1>2, SumIsFold

(* For every event a sample reports at least the total when its readTotals *)
(* call began and at most the present total, summed over the CPUs.         *)
THEOREM SumsAreBracketed == ReaderSpec => []SampleBracketed
<1>1. ASSUME ReaderInv, NEW e \in Event
      PROVE  /\ Summed(floor, e) <= Reported(e)
             /\ Reported(e) <= Summed(cache_totals, e)
  <2>1. IsFiniteSet(Cpu)
    BY SamplerAssumption, FS_Interval DEF Cpu
  <2>2. /\ sample[e] \in [Cpu -> Nat]
        /\ [c \in Cpu |-> floor[c][e]] \in [Cpu -> Nat]
        /\ [c \in Cpu |-> cache_totals[c][e]] \in [Cpu -> Nat]
    BY <1>1 DEF ReaderInv, ReaderTypeOK, TypeOK
  <2>3. \A c \in Cpu : /\ floor[c][e] <= sample[e][c]
                       /\ sample[e][c] <= cache_totals[c][e]
    BY <1>1 DEF ReaderInv, SlotsBracketed
  <2>4. /\ \A c \in Cpu : [d \in Cpu |-> floor[d][e]][c] <= sample[e][c]
        /\ \A c \in Cpu :
             sample[e][c] <= [d \in Cpu |-> cache_totals[d][e]][c]
    BY <2>3
  <2> QED
    BY <2>1, <2>2, <2>4, SumsAreMonotonic DEF Summed, Reported
<1>2. ReaderInv => SampleBracketed
  BY <1>1 DEF SampleBracketed
<1> QED
  BY <1>2, ReaderCorrect, PTL
=============================================================================
