----------------------- MODULE ProfilerResourcesProofs -----------------------
(***************************************************************************)
(* Machine-checked proofs about ProfilerResources: what the profiler owns  *)
(* is right after any number of calls that succeed or fail anywhere, for   *)
(* any number of CPUs, events and PIDs.                                    *)
(*                                                                         *)
(* None of the three invariants is inductive: they speak of the time       *)
(* between calls, or of an initialized profiler.  The inductive invariant  *)
(* says what holds at every step of a call.                                *)
(***************************************************************************)
EXTENDS ProfilerResources, TLAPS

(* The counters of all events on all CPUs, opened by call g.               *)
FullSet(g) == {g} \X Event \X Cpu

(* The local variables of initializeProfilerResources own something, a     *)
(* call has not committed yet, and the map descriptors are those of the    *)
(* object it opened.                                                       *)
Building ==
  step \in {"load", "resolve", "resolvePerf", "openFds", "bind", "attach"}
Uncommitted == Building \/ step \in {"discover", "open"}
Resolved == step \in {"resolvePerf", "openFds", "bind", "attach", "configure"}

(* A call under way has a number and a PID; its object is newer than that  *)
(* of the members until it is committed.                                   *)
CallInv ==
  /\ bpfObject <= calls
  /\ Uncommitted => bpfObject < calls
  /\ step = "configure" => bpfObject = calls
  /\ step \notin {"idle", "destroyed"} =>
       calls > 0 /\ requestedPid \in Pid /\ ~initialized
  /\ step \notin {"idle", "discover", "destroyed"} => cpuCount = CpuCount

(* The object, the link and the maps of the members come and go together;  *)
(* the kernel has those of the members and the object under construction.  *)
ObjectInv ==
  /\ bpfLink = bpfObject
  /\ step # "destroyed" => perfMaps = bpfObject
  /\ objectPtr = IF Building THEN calls ELSE None
  /\ openObjects = {bpfObject, objectPtr} \ {None}
  /\ attached = {bpfObject} \ {None}
  /\ Resolved => {targetPidMapFd, totalsMapFd} = {calls}

(* The loops: at which counter of which event the call has arrived.        *)
LoopInv ==
  /\ step \in {"openFds", "bind"} => eventSpecIdx < EventCount
  /\ step = "attach" => eventSpecIdx = EventCount
  /\ step \notin {"openFds", "bind", "attach"} => eventSpecIdx = 0
  /\ step \notin {"openFds", "bind"} => cpuIdx = 0

(* What a call has opened: all counters of the events before eventSpecIdx, *)
(* and of that event those of the CPUs the loop has passed.                *)
Opened ==
  {fd \in FullSet(calls) :
     \/ fd[2] < eventSpecIdx
     \/ fd[2] = eventSpecIdx /\ step = "openFds" /\ fd[3] < cpuIdx
     \/ fd[2] = eventSpecIdx /\ step = "bind"}

(* The fds: those of the call under way, the full set of the members, and  *)
(* full sets of earlier generations that nobody owns any more.             *)
FdInv ==
  /\ localPerfFds = IF Building THEN Opened ELSE {}
  /\ perfFds = IF bpfObject = None THEN {} ELSE FullSet(bpfObject)
  /\ perfFds \cup localPerfFds \subseteq openFds
  /\ \A fd \in openFds \ (perfFds \cup localPerfFds) :
       /\ FullSet(fd[1]) \subseteq openFds
       /\ fd[1] # bpfObject
       /\ fd[1] <= calls
       /\ Uncommitted => fd[1] # calls

(* What initializeProfiling reported as done.                              *)
DoneInv ==
  initialized /\ step # "destroyed" =>
    /\ bpfObject # None
    /\ {targetPidMapFd, totalsMapFd} = {bpfObject}
    /\ targetPid[bpfObject] \in Pid
    /\ calls = bpfObject => targetPid[bpfObject] = requestedPid

ResourcesInv ==
  ResourcesTypeOK /\ CallInv /\ ObjectInv /\ LoopInv /\ FdInv /\ DoneInv

-----------------------------------------------------------------------------
(* The type invariant, one variable at a time, but for the flag.           *)
TypesOneByOne ==
  /\ cpuCount = 0 \/ cpuCount = CpuCount
  /\ bpfObject \in 0 .. MaxCalls /\ bpfLink \in 0 .. MaxCalls
  /\ perfMaps \in 0 .. MaxCalls /\ objectPtr \in 0 .. MaxCalls
  /\ targetPidMapFd \in 0 .. MaxCalls /\ totalsMapFd \in 0 .. MaxCalls
  /\ perfFds \subseteq PerfFd /\ localPerfFds \subseteq PerfFd
  /\ openFds \subseteq PerfFd
  /\ step \in {"idle", "discover", "open", "load", "resolve",
               "resolvePerf", "openFds", "bind", "attach", "configure",
               "destroyed"}
  /\ calls \in 0 .. MaxCalls
  /\ requestedPid \in Pid \cup {NoPid}
  /\ status \in {"none", "ok", "error"}
  /\ eventSpecIdx \in 0 .. EventCount
  /\ cpuIdx \in Cpu
  /\ openObjects \subseteq Generation /\ attached \subseteq Generation
  /\ targetPid \in [Generation -> Pid \cup {NoPid}]

(* The numbers the constants stand for.                                    *)
LEMMA Bounds ==
  /\ CpuCount \in Nat /\ CpuCount > 0
  /\ EventCount \in Nat /\ EventCount > 0
  /\ MaxCalls \in Nat
  /\ Event \subseteq Nat /\ Cpu \subseteq Nat
  /\ Generation \subseteq Nat \ {0}
  /\ NoPid \notin Pid
BY ResourcesAssumption DEF Event, Cpu, Generation

(* The type invariant, one variable at a time, now and after a step.       *)
LEMMA PointwiseTypes ==
  /\ ResourcesTypeOK = (TypesOneByOne /\ initialized \in BOOLEAN)
  /\ ResourcesTypeOK' = (TypesOneByOne' /\ initialized' \in BOOLEAN)
<1> Handle = 0 .. MaxCalls
  BY Bounds DEF Handle, None, Generation
<1> QED
  BY DEF ResourcesTypeOK, TypesOneByOne

(* Every fd carries the number of a call.                                  *)
LEMMA FdGenerations ==
  ASSUME TypesOneByOne
  PROVE  \A fd \in openFds : fd[1] \in Nat \ {0}
BY Bounds DEF TypesOneByOne, PerfFd

(* What a member of a full set is.                                         *)
LEMMA FullSetMembers ==
  ASSUME NEW g, NEW fd
  PROVE  fd \in FullSet(g) <=>
           \E e \in Event, c \in Cpu : fd = <<g, e, c>>
BY DEF FullSet

(* A profiler that was just constructed owns nothing.                      *)
LEMMA InitEstablishes ==
  ResourcesInit => ResourcesInv
<1> SUFFICES ASSUME ResourcesInit PROVE ResourcesInv
  OBVIOUS
<1> USE Bounds DEF ResourcesInit
<1>1. TypesOneByOne
  BY DEF TypesOneByOne, None, Cpu
<1>2. initialized \in BOOLEAN
  OBVIOUS
<1>3. ResourcesTypeOK
  BY <1>1, <1>2, PointwiseTypes
<1>4. CallInv /\ LoopInv /\ DoneInv
  BY DEF CallInv, LoopInv, DoneInv, None, Uncommitted, Building
<1>5. ObjectInv /\ FdInv
  BY DEF ObjectInv, FdInv, None, Building, Resolved, Uncommitted
<1> QED
  BY <1>3, <1>4, <1>5 DEF ResourcesInv

(* A call begins, or returns at once.                                      *)
LEMMA InitializeKeeps ==
  ASSUME ResourcesInv, NEW pid \in Pid, InitializeProfiling(pid)
  PROVE  ResourcesInv'
<1> USE Bounds DEF ResourcesInv, InitializeProfiling, Call, memberVars,
        localVars,
          loopVars, osVars
<1>1. TypesOneByOne
  BY PointwiseTypes
<1>2. TypesOneByOne'
  BY <1>1 DEF TypesOneByOne
<1>3. ResourcesTypeOK'
  BY <1>1, <1>2, PointwiseTypes
<1>4. CallInv'
  BY <1>1 DEF CallInv, Uncommitted, Building, TypesOneByOne, None
<1>5. ObjectInv'
  BY <1>1 DEF ObjectInv, Building, Resolved, TypesOneByOne
<1>6. LoopInv'
  BY DEF LoopInv
<1>7. FdInv'
  BY <1>1, FdGenerations DEF FdInv, CallInv, Uncommitted, Building,
     TypesOneByOne
<1>8. DoneInv'
  BY <1>1 DEF DoneInv, CallInv, TypesOneByOne, None
<1> QED
  BY <1>3, <1>4, <1>5, <1>6, <1>7, <1>8

(* An early return, whatever became of the map descriptors.                *)
LEMMA GiveUpKeeps ==
  ASSUME ResourcesInv, Uncommitted, GiveUp,
         UNCHANGED <<cpuCount, bpfObject, bpfLink, perfMaps, perfFds,
                     initialized>>,
         {targetPidMapFd', totalsMapFd'} \subseteq 0 .. MaxCalls
  PROVE  ResourcesInv'
<1> USE Bounds DEF ResourcesInv, GiveUp, GiveUpClosing, argVars
<1>1. TypesOneByOne
  BY PointwiseTypes
<1>2. ~initialized /\ step # "idle" /\ step # "destroyed"
  BY DEF CallInv, Uncommitted, Building
<1>3. TypesOneByOne'
  BY <1>1 DEF TypesOneByOne, None, Cpu
<1>4. ResourcesTypeOK'
  BY <1>1, <1>3, PointwiseTypes
<1>5. CallInv' /\ LoopInv' /\ DoneInv'
  BY <1>1, <1>2 DEF CallInv, LoopInv, DoneInv, Uncommitted, Building,
     TypesOneByOne
<1>6. ObjectInv'
  BY <1>1, <1>2 DEF ObjectInv, Building, Resolved, TypesOneByOne, CallInv,
     None, Uncommitted
<1>7. FdInv'
  <2>1. ~Uncommitted' /\ ~Building' /\ calls' = calls
    BY DEF Uncommitted, Building
  <2>2. localPerfFds \subseteq FullSet(calls)
    BY DEF FdInv, Opened
  <2>3. \A fd \in localPerfFds : fd[1] = calls
    BY <2>2, FullSetMembers
  <2>4. \A g : \A fd \in FullSet(g) : fd[1] = g
    BY FullSetMembers
  <2>5. calls # bpfObject /\ perfFds \cap localPerfFds = {}
    BY <1>1, <2>3, <2>4 DEF FdInv, CallInv, TypesOneByOne
  <2> QED
    BY <2>1, <2>3, <2>4, <2>5 DEF FdInv
<1> QED
  BY <1>4, <1>5, <1>6, <1>7

(* A step that moves on and takes nothing but, maybe, map descriptors.     *)
LEMMA MovingOnKeeps ==
  ASSUME ResourcesInv,
         DiscoverCpus \/ LoadObject \/ ResolvePerfMaps
           \/ (ResolveMaps /\ step' = "resolvePerf")
  PROVE  ResourcesInv'
<1> USE Bounds DEF ResourcesInv, DiscoverCpus, LoadObject, ResolvePerfMaps,
          ResolveMaps, GiveUp, GiveUpClosing, memberVars, argVars, localVars,
          loopVars, osVars
<1>1. TypesOneByOne
  BY PointwiseTypes
<1>2. initialized' = initialized /\ ~initialized
  BY DEF CallInv
<1>3. TypesOneByOne'
  BY <1>1 DEF TypesOneByOne, None
<1>4. ResourcesTypeOK'
  BY <1>1, <1>2, <1>3, PointwiseTypes
<1>5. CallInv' /\ LoopInv' /\ DoneInv'
  BY <1>1, <1>2 DEF CallInv, LoopInv, DoneInv, Uncommitted, Building,
     TypesOneByOne
<1>6. ObjectInv'
  BY <1>1, <1>2 DEF ObjectInv, Building, Resolved, TypesOneByOne, None
<1>7. FdInv'
  BY <1>1, FullSetMembers DEF FdInv, Opened, Uncommitted, Building, LoopInv,
     TypesOneByOne
<1> QED
  BY <1>4, <1>5, <1>6, <1>7

(* The object of the call is opened.                                       *)
LEMMA OpenObjectKeeps ==
  ASSUME ResourcesInv, OpenObject
  PROVE  ResourcesInv'
<1> USE Bounds DEF ResourcesInv, OpenObject, memberVars, argVars, loopVars
<1>1. TypesOneByOne
  BY PointwiseTypes
<1>2. initialized' = initialized /\ ~initialized
  BY DEF CallInv
<1>3. TypesOneByOne'
  BY <1>1 DEF TypesOneByOne, CallInv, Generation
<1>4. ResourcesTypeOK'
  BY <1>1, <1>2, <1>3, PointwiseTypes
<1>5. CallInv' /\ LoopInv' /\ DoneInv'
  BY <1>1, <1>2 DEF CallInv, LoopInv, DoneInv, Uncommitted, Building,
       TypesOneByOne
<1>6. ObjectInv'
  BY <1>1, <1>2 DEF ObjectInv, CallInv, Building, Resolved, TypesOneByOne,
       None
<1>7. FdInv'
  <2>1. eventSpecIdx = 0 /\ localPerfFds = {} /\ step' = "load"
    BY DEF LoopInv, FdInv, Building
  <2>2. Opened' = {}
    <3>1. \A fd \in FullSet(calls) : fd[2] \in Nat
      BY FullSetMembers
    <3> QED
      BY <2>1, <3>1 DEF Opened
  <2> QED
    BY <2>1, <2>2 DEF FdInv, Uncommitted, Building
<1> QED
  BY <1>4, <1>5, <1>6, <1>7

(* One counter is opened.                                                  *)
LEMMA OpenPerfFdKeeps ==
  ASSUME ResourcesInv, OpenPerfFd
  PROVE  ResourcesInv'
<1> USE Bounds DEF ResourcesInv, OpenPerfFd, memberVars, argVars
<1>1. TypesOneByOne
  BY PointwiseTypes
<1>2. initialized' = initialized /\ ~initialized
  BY DEF CallInv
<1> DEFINE new == <<objectPtr, eventSpecIdx, cpuIdx>>
<1>3. /\ objectPtr = calls /\ calls \in Generation
      /\ eventSpecIdx \in Event /\ cpuIdx \in Cpu /\ cpuCount = CpuCount
  BY <1>1 DEF ObjectInv, CallInv, LoopInv, Building, TypesOneByOne,
       Generation, Event
<1>4. new \in PerfFd /\ new \in FullSet(calls)
  BY <1>3 DEF PerfFd, FullSet
<1>5. TypesOneByOne'
  <2>1. /\ openFds' \subseteq PerfFd
        /\ localPerfFds' \subseteq PerfFd
    BY <1>1, <1>4 DEF TypesOneByOne
  <2>2. cpuIdx' \in Cpu
    BY <1>3 DEF Cpu
  <2> QED
    BY <1>1, <2>1, <2>2 DEF TypesOneByOne
<1>6. ResourcesTypeOK'
  BY <1>1, <1>2, <1>5, PointwiseTypes
<1>7. CallInv' /\ LoopInv' /\ DoneInv'
  BY <1>1, <1>2 DEF CallInv, LoopInv, DoneInv, Uncommitted, Building,
       TypesOneByOne
<1>8. ObjectInv'
  BY <1>1, <1>2 DEF ObjectInv, CallInv, Building, Resolved, TypesOneByOne,
       None
<1>9. FdInv'
  <2>1. localPerfFds = Opened
    BY DEF FdInv, Building
  <2>2. Opened' = Opened \cup {new}
    <3>1. ASSUME NEW e \in Event, NEW c \in Cpu
          PROVE  <<calls, e, c>> \in Opened' <=>
                   <<calls, e, c>> \in Opened \/ <<calls, e, c>> = new
      <4>1. <<calls, e, c>> \in FullSet(calls)
        BY FullSetMembers
      <4>2. e \in Nat /\ c \in Nat /\ c < CpuCount
        BY DEF Cpu, Event
      <4> QED
        BY <1>3, <4>1, <4>2 DEF Opened, Cpu
    <3> QED
      BY <1>4, <3>1, FullSetMembers DEF Opened
  <2>3. Building' /\ Uncommitted' /\ Building /\ Uncommitted
    BY DEF Building, Uncommitted
  <2> QED
    BY <2>1, <2>2, <2>3 DEF FdInv
<1> QED
  BY <1>6, <1>7, <1>8, <1>9

(* One counter is bound.                                                   *)
LEMMA BindPerfFdKeeps ==
  ASSUME ResourcesInv, BindPerfFd
  PROVE  ResourcesInv'
<1> USE Bounds DEF ResourcesInv, BindPerfFd, BindPerfFdThen, memberVars,
          argVars, osVars
<1>1. TypesOneByOne
  BY PointwiseTypes
<1>2. initialized' = initialized /\ ~initialized
  BY DEF CallInv
<1>3. /\ eventSpecIdx \in Nat /\ eventSpecIdx < EventCount
      /\ cpuIdx \in Cpu /\ cpuCount = CpuCount
  BY <1>1 DEF CallInv, LoopInv, TypesOneByOne
<1>4. TypesOneByOne'
  <2>1. cpuIdx' \in Cpu
    BY <1>3 DEF Cpu
  <2> QED
    BY <1>1, <1>3, <2>1 DEF TypesOneByOne
<1>5. ResourcesTypeOK'
  BY <1>1, <1>2, <1>4, PointwiseTypes
<1>6. CallInv' /\ LoopInv' /\ DoneInv'
  BY <1>1, <1>2, <1>3 DEF CallInv, LoopInv, DoneInv, Uncommitted, Building,
       TypesOneByOne
<1>7. ObjectInv'
  BY <1>1, <1>2 DEF ObjectInv, Building, Resolved, TypesOneByOne
<1>8. FdInv'
  <2>1. Opened' = Opened
    <3>1. ASSUME NEW e \in Event, NEW c \in Cpu
          PROVE  <<calls, e, c>> \in Opened' <=> <<calls, e, c>> \in Opened
      <4>1. <<calls, e, c>> \in FullSet(calls)
        BY FullSetMembers
      <4>2. e \in Nat /\ c \in Nat
        OBVIOUS
      <4> QED
        BY <1>3, <4>1, <4>2 DEF Opened
    <3> QED
      BY <3>1, FullSetMembers DEF Opened
  <2>2. Building' /\ Uncommitted' /\ Building /\ Uncommitted
    BY DEF Building, Uncommitted
  <2> QED
    BY <2>1, <2>2 DEF FdInv
<1> QED
  BY <1>5, <1>6, <1>7, <1>8

(* Everything is handed to the members; what they owned of an earlier call *)
(* is released, but for its counters.                                      *)
LEMMA AttachKeeps ==
  ASSUME ResourcesInv, AttachAndCommit
  PROVE  ResourcesInv'
<1> USE Bounds DEF ResourcesInv, AttachAndCommit, argVars
<1>1. TypesOneByOne
  BY PointwiseTypes
<1>2. initialized' = initialized /\ ~initialized
  BY DEF CallInv
<1>3. /\ objectPtr = calls /\ calls \in Generation /\ bpfObject < calls
      /\ bpfObject \in Nat
  BY <1>1 DEF ObjectInv, CallInv, Building, Uncommitted, TypesOneByOne,
       Generation
<1>4. TypesOneByOne'
  BY <1>1, <1>3 DEF TypesOneByOne, None
<1>5. ResourcesTypeOK'
  BY <1>1, <1>2, <1>4, PointwiseTypes
<1>6. CallInv' /\ LoopInv' /\ DoneInv'
  BY <1>1, <1>2, <1>3 DEF CallInv, LoopInv, DoneInv, Uncommitted, Building,
       TypesOneByOne
<1>7. ObjectInv'
  BY <1>1, <1>3 DEF ObjectInv, Building, Resolved, None
<1>8. FdInv'
  <2>1. ~Building' /\ ~Uncommitted' /\ Building /\ Uncommitted
    BY DEF Building, Uncommitted
  <2>2. localPerfFds = FullSet(calls)
    <3>1. \A fd \in FullSet(calls) : fd[2] \in Nat /\ fd[2] < EventCount
      BY FullSetMembers DEF Event
    <3> QED
      BY <2>1, <3>1 DEF FdInv, Opened, LoopInv
  <2>3. perfFds' = IF bpfObject' = None THEN {} ELSE FullSet(bpfObject')
    BY <1>3, <2>2 DEF None
  <2>4. \A fd \in perfFds : fd[1] = bpfObject /\ FullSet(fd[1]) = perfFds
    BY FullSetMembers DEF FdInv
  <2> QED
    BY <1>3, <2>1, <2>2, <2>3, <2>4 DEF FdInv
<1> QED
  BY <1>5, <1>6, <1>7, <1>8

(* The target's PID is written to the map, or is not.                      *)
LEMMA ConfigureKeeps ==
  ASSUME ResourcesInv, ConfigureTargetPid \/ ConfigureFails
  PROVE  ResourcesInv'
<1> USE Bounds DEF ResourcesInv, ConfigureTargetPid, ConfigureFails,
          Configured, argVars, localVars, loopVars
<1>1. TypesOneByOne
  BY PointwiseTypes
<1>2. initialized' \in BOOLEAN /\ ~initialized
  BY PointwiseTypes DEF CallInv
<1>3. /\ targetPidMapFd = calls /\ totalsMapFd = calls /\ bpfObject = calls
      /\ calls \in Generation /\ requestedPid \in Pid
  BY <1>1 DEF ObjectInv, CallInv, Resolved, TypesOneByOne, Generation
<1>4. TypesOneByOne'
  BY <1>1, <1>3 DEF TypesOneByOne
<1>5. ResourcesTypeOK'
  BY <1>1, <1>2, <1>4, PointwiseTypes
<1>6. CallInv' /\ LoopInv'
  BY DEF CallInv, LoopInv, Uncommitted, Building
<1>7. ObjectInv'
  BY DEF ObjectInv, Building, Resolved
<1>8. FdInv'
  BY DEF FdInv, Building, Uncommitted
<1>9. DoneInv'
  <2>1. CASE ConfigureTargetPid
    BY <1>1, <1>3, <2>1 DEF DoneInv, None, TypesOneByOne
  <2>2. CASE ConfigureFails
    BY <1>2, <2>2 DEF DoneInv
  <2> QED
    BY <2>1, <2>2
<1> QED
  BY <1>5, <1>6, <1>7, <1>8, <1>9

(* The profiler is destroyed.                                              *)
LEMMA DestroyKeeps ==
  ASSUME ResourcesInv, Destroy
  PROVE  ResourcesInv'
<1> USE Bounds DEF ResourcesInv, Destroy, argVars, localVars, loopVars
<1>1. TypesOneByOne
  BY PointwiseTypes
<1>2. initialized' \in BOOLEAN
  BY PointwiseTypes
<1>3. TypesOneByOne'
  BY <1>1 DEF TypesOneByOne, None
<1>4. ResourcesTypeOK'
  BY <1>1, <1>2, <1>3, PointwiseTypes
<1>5. CallInv' /\ LoopInv' /\ DoneInv'
  BY <1>1 DEF CallInv, LoopInv, DoneInv, Uncommitted, Building, None,
       TypesOneByOne
<1>6. ObjectInv'
  BY DEF ObjectInv, Building, Resolved, None
<1>7. FdInv'
  <2>1. ~Building' /\ ~Uncommitted' /\ ~Building /\ ~Uncommitted
    BY DEF Building, Uncommitted
  <2>2. \A fd \in openFds : fd[1] # None
    BY <1>1, FdGenerations DEF None
  <2>3. \A g : \A fd \in FullSet(g) : fd[1] = g
    BY FullSetMembers
  <2> QED
    BY <2>1, <2>2, <2>3 DEF FdInv
<1> QED
  BY <1>4, <1>5, <1>6, <1>7

(* What a step leaves unchanged is unchanged.                              *)
LEMMA StutterKeeps ==
  ASSUME ResourcesInv, UNCHANGED resVars
  PROVE  ResourcesInv'
BY DEF ResourcesInv, ResourcesTypeOK, CallInv, ObjectInv, LoopInv, FdInv,
     DoneInv, Opened, Building, Uncommitted, Resolved, resVars, memberVars,
     argVars, loopVars, localVars, osVars

(* Through every call and every way it may fail, the object, the counters  *)
(* and the flags of the profiler are those of ResourcesInv.                *)
THEOREM ResourcesInvariant == ResourcesSpec => []ResourcesInv
<1>1. ResourcesInit => ResourcesInv
  BY InitEstablishes
<1>2. ASSUME ResourcesInv, [ResourcesNext]_resVars
      PROVE  ResourcesInv'
  <2>1. ASSUME NEW pid \in Pid, InitializeProfiling(pid)
        PROVE  ResourcesInv'
    BY <1>2, <2>1, InitializeKeeps
  <2>2. CASE DiscoverCpus
    BY <1>2, <2>2, MovingOnKeeps
  <2>3. CASE OpenObject
    BY <1>2, <2>3, OpenObjectKeeps
  <2>4. CASE LoadObject
    BY <1>2, <2>4, MovingOnKeeps
  <2>5. CASE ResolveMaps
    <3>1. CASE step' = "resolvePerf"
      BY <1>2, <2>5, <3>1, MovingOnKeeps
    <3>2. CASE step' # "resolvePerf"
      <4>1. Uncommitted /\ GiveUp
        BY <2>5, <3>2 DEF ResolveMaps, Uncommitted, Building
      <4>2. {targetPidMapFd', totalsMapFd'} \subseteq 0 .. MaxCalls
        <5>1. objectPtr \in 0 .. MaxCalls
          BY <1>2, PointwiseTypes DEF ResourcesInv, TypesOneByOne
        <5> QED
          BY <2>5, <5>1, Bounds DEF ResolveMaps, None
      <4> QED
        BY <1>2, <2>5, <4>1, <4>2, GiveUpKeeps DEF ResolveMaps
    <3> QED
      BY <3>1, <3>2
  <2>6. CASE ResolvePerfMaps
    BY <1>2, <2>6, MovingOnKeeps
  <2>7. CASE OpenPerfFd
    BY <1>2, <2>7, OpenPerfFdKeeps
  <2>8. CASE BindPerfFd
    BY <1>2, <2>8, BindPerfFdKeeps
  <2>9. CASE AttachAndCommit
    BY <1>2, <2>9, AttachKeeps
  <2>10. CASE ResourceFails
    <3>1. Uncommitted /\ GiveUp /\ UNCHANGED memberVars
      BY <2>10 DEF ResourceFails, Uncommitted, Building
    <3>2. {targetPidMapFd', totalsMapFd'} \subseteq 0 .. MaxCalls
      BY <1>2, <3>1, PointwiseTypes
         DEF ResourcesInv, TypesOneByOne, memberVars
    <3> QED
      BY <1>2, <3>1, <3>2, GiveUpKeeps DEF memberVars
  <2>11. CASE ConfigureTargetPid \/ ConfigureFails
    BY <1>2, <2>11, ConfigureKeeps
  <2>12. CASE Destroy
    BY <1>2, <2>12, DestroyKeeps
  <2>13. CASE Destroyed \/ UNCHANGED resVars
    BY <1>2, <2>13, StutterKeeps DEF Destroyed
  <2> QED
    BY <1>2, <2>1, <2>2, <2>3, <2>4, <2>5, <2>6, <2>7, <2>8, <2>9, <2>10,
       <2>11, <2>12, <2>13 DEF ResourcesNext
<1> QED
  BY <1>1, <1>2, PTL DEF ResourcesSpec

(* Handles, counters and flags keep their types; so the loop over the CPUs *)
(* never names a CPU there is not.                                         *)
THEOREM ResourcesTypesOK == ResourcesSpec => []ResourcesTypeOK
<1>1. ResourcesInv => ResourcesTypeOK
  BY DEF ResourcesInv
<1> QED
  BY <1>1, ResourcesInvariant, PTL

(* While _isProfilerInitialized is set, what sampleOnce uses is live, and  *)
(* its counters are all open and owned by the destructor, whatever failed  *)
(* before: the fact that lets later calls return at once.                  *)
THEOREM InitializedProfilerIsLive == ResourcesSpec => []InitializedIsLive
<1>1. ResourcesInv => InitializedIsLive
  <2> SUFFICES ASSUME ResourcesInv, initialized, step # "destroyed"
               PROVE  InitializedIsLive
    BY DEF InitializedIsLive
  <2>1. step = "idle" /\ ~Building
    BY DEF ResourcesInv, CallInv, Building
  <2>2. bpfObject # None /\ objectPtr = None
    BY <2>1 DEF ResourcesInv, DoneInv, ObjectInv
  <2>3. /\ {bpfLink, totalsMapFd, targetPidMapFd, perfMaps} = {bpfObject}
        /\ openObjects = {bpfObject} /\ attached = {bpfObject}
    BY <2>2 DEF ResourcesInv, ObjectInv, DoneInv
  <2>4. perfFds = {bpfObject} \X Event \X Cpu /\ perfFds \subseteq openFds
    BY <2>2 DEF ResourcesInv, FdInv, FullSet
  <2> QED
    BY <2>3, <2>4 DEF InitializedIsLive, ResourcesInv, DoneInv
<1> QED
  BY <1>1, ResourcesInvariant, PTL

(* Between calls at most one BPF object is open and one program attached,  *)
(* both of them the members': no failure and no repeated call leaves one.  *)
THEOREM AtMostOneObject == ResourcesSpec => []OneObjectBetweenCalls
<1>1. ResourcesInv => OneObjectBetweenCalls
  BY DEF ResourcesInv, ObjectInv, OneObjectBetweenCalls, Building
<1> QED
  BY <1>1, ResourcesInvariant, PTL

(* Whichever step of initializeProfilerResources fails, closePerfFds gets  *)
(* all the call had opened: an fd without an owner is one of a full set    *)
(* that an earlier call had committed.                                     *)
THEOREM FailuresCloseEverything == ResourcesSpec => []NothingIsHalfClosed
<1>1. ResourcesInv => NothingIsHalfClosed
  BY DEF ResourcesInv, FdInv, FullSet, NothingIsHalfClosed
<1> QED
  BY <1>1, ResourcesInvariant, PTL
=============================================================================
