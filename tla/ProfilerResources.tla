-------------------------- MODULE ProfilerResources --------------------------
(***************************************************************************)
(* What EBpfCacheProfiler owns and when: initializeProfiling with every    *)
(* error path of initializeProfilerResources and configureTargetPid, calls *)
(* repeated after success or failure, and the destructor.                  *)
(*                                                                         *)
(* A BPF object, its maps and its link are named by the number of the call *)
(* that opened them (None for a null pointer or a descriptor of -1); a     *)
(* perf fd by that number, its event and its CPU.  The kernel's side is    *)
(* what is open, attached and written in each object's target_pid map.     *)
(***************************************************************************)
EXTENDS Integers, FiniteSets

CONSTANTS
  CpuCount,          (* what sysconf(_SC_NPROCESSORS_ONLN) returns         *)
  EventCount,        (* the size of kPerfEventSpecs                        *)
  Pid,               (* the target PIDs a caller may ask for               *)
  NoPid,             (* the value of a target_pid map never written        *)
  MaxCalls,          (* bound: calls of initializeProfiling                *)
  ResourceMayFail,   (* whether initializeProfilerResources may fail       *)
  ConfigureMayFail   (* whether configureTargetPid may fail                *)

ASSUME ResourcesAssumption ==
  /\ CpuCount \in Nat \ {0}
  /\ EventCount \in Nat \ {0}
  /\ NoPid \notin Pid
  /\ MaxCalls \in Nat
  /\ ResourceMayFail \in BOOLEAN
  /\ ConfigureMayFail \in BOOLEAN

None == 0
Generation == 1 .. MaxCalls
Handle == {None} \cup Generation
Cpu == 0 .. CpuCount - 1
Event == 0 .. EventCount - 1
PerfFd == Generation \X Event \X Cpu

VARIABLES              (* the members                                      *)
  cpuCount,            (* _cpuCount                                        *)
  bpfObject,           (* _bpfObjectPtr                                    *)
  bpfLink,             (* _bpfLinkPtr                                      *)
  perfMaps,            (* _perfMapFds, all maps of one object              *)
  perfFds,             (* _perfFds                                         *)
  targetPidMapFd,      (* _targetPidMapFd                                  *)
  totalsMapFd,         (* _totalsMapFd                                     *)
  initialized          (* _isProfilerInitialized                           *)

VARIABLES              (* the call under way                               *)
  step,                (* what it does next, or "idle"                     *)
  calls,               (* how many calls were made                         *)
  requestedPid,        (* its argument                                     *)
  status,              (* what the last call returned                      *)
  objectPtr,           (* the local objectPtr                              *)
  localPerfFds,        (* the local localPerfFds                           *)
  eventSpecIdx,        (* its loops                                        *)
  cpuIdx

VARIABLES              (* the kernel                                       *)
  openObjects,         (* objects whose maps and programs exist            *)
  attached,            (* objects whose program is attached                *)
  openFds,             (* open perf fds                                    *)
  targetPid            (* targetPid[g]: the target_pid map of object g     *)

memberVars == <<cpuCount, bpfObject, bpfLink, perfMaps, perfFds,
                targetPidMapFd, totalsMapFd, initialized>>
argVars == <<calls, requestedPid>>
loopVars == <<eventSpecIdx, cpuIdx>>
localVars == <<objectPtr, localPerfFds, loopVars>>
osVars == <<openObjects, attached, openFds, targetPid>>
resVars == <<memberVars, step, argVars, status, localVars, osVars>>

ResourcesTypeOK ==
  /\ cpuCount \in {0, CpuCount}
  /\ {bpfObject, bpfLink, perfMaps, objectPtr} \subseteq Handle
  /\ {targetPidMapFd, totalsMapFd} \subseteq Handle
  /\ {perfFds, localPerfFds, openFds} \subseteq SUBSET PerfFd
  /\ initialized \in BOOLEAN
  /\ step \in {"idle", "discover", "open", "load", "resolve", "resolvePerf",
               "openFds", "bind", "attach", "configure", "destroyed"}
  /\ calls \in 0 .. MaxCalls
  /\ requestedPid \in Pid \cup {NoPid}
  /\ status \in {"none", "ok", "error"}
  /\ eventSpecIdx \in 0 .. EventCount
  /\ cpuIdx \in Cpu
  /\ {openObjects, attached} \subseteq SUBSET Generation
  /\ targetPid \in [Generation -> Pid \cup {NoPid}]

ResourcesInit ==
  /\ cpuCount = 0
  /\ bpfObject = None
  /\ bpfLink = None
  /\ perfMaps = None
  /\ perfFds = {}
  /\ targetPidMapFd = None
  /\ totalsMapFd = None
  /\ initialized = FALSE
  /\ step = "idle"
  /\ calls = 0
  /\ requestedPid = NoPid
  /\ status = "none"
  /\ objectPtr = None
  /\ localPerfFds = {}
  /\ eventSpecIdx = 0
  /\ cpuIdx = 0
  /\ openObjects = {}
  /\ attached = {}
  /\ openFds = {}
  /\ targetPid = [g \in Generation |-> NoPid]

-----------------------------------------------------------------------------
(* A call; `early`: it returns at once.                                    *)
Call(pid, early) ==
  /\ step = "idle"
  /\ calls < MaxCalls
  /\ calls' = calls + 1
  /\ requestedPid' = pid
  /\ IF early
       THEN status' = "ok" /\ UNCHANGED step
       ELSE step' = "discover" /\ UNCHANGED status
  /\ UNCHANGED <<memberVars, localVars, osVars>>

(* initializeProfiling: nothing is done twice.                             *)
InitializeProfiling(pid) == Call(pid, initialized)

(* An early return that closes the given fds and objects.                  *)
GiveUpClosing(fds, objects) ==
  /\ ResourceMayFail
  /\ step' = "idle"
  /\ status' = "error"
  /\ openFds' = openFds \ fds
  /\ openObjects' = openObjects \ objects
  /\ objectPtr' = None
  /\ localPerfFds' = {}
  /\ eventSpecIdx' = 0
  /\ cpuIdx' = 0
  /\ UNCHANGED <<argVars, attached, targetPid>>

(* Mutants: closePerfFds is forgotten; a raw pointer closes no object.     *)
GiveUpWithoutClosing == GiveUpClosing({}, {objectPtr})
GiveUpLeakingTheObject == GiveUpClosing(localPerfFds, {})

(* An early return of initializeProfilerResources: closePerfFds, and the   *)
(* local objectPtr closes its object.                                      *)
GiveUp == GiveUpClosing(localPerfFds, {objectPtr})

(* initializeProfilerResources fails at a step that assigned no member.    *)
ResourceFails ==
  /\ step \in {"discover", "open", "load", "resolvePerf", "openFds", "bind",
               "attach"}
  /\ GiveUp
  /\ UNCHANGED memberVars

DiscoverCpus ==
  /\ step = "discover"
  /\ cpuCount' = CpuCount
  /\ step' = "open"
  /\ UNCHANGED <<bpfObject, bpfLink, perfMaps, perfFds, targetPidMapFd,
                 totalsMapFd, initialized, argVars, status, localVars, osVars>>

OpenObject ==
  /\ step = "open"
  /\ objectPtr' = calls
  /\ openObjects' = openObjects \cup {calls}
  /\ step' = "load"
  /\ UNCHANGED <<memberVars, argVars, status, localPerfFds, loopVars,
                 attached, openFds, targetPid>>

LoadObject ==
  /\ step = "load"
  /\ step' = "resolve"
  /\ UNCHANGED <<memberVars, argVars, status, localVars, osVars>>

(* The two map descriptors go straight to the members, found or not.       *)
ResolveMaps ==
  /\ step = "resolve"
  /\ targetPidMapFd' \in {objectPtr, None}
  /\ totalsMapFd' \in {objectPtr, None}
  /\ IF None \in {targetPidMapFd', totalsMapFd'}
       THEN GiveUp
       ELSE /\ step' = "resolvePerf"
            /\ UNCHANGED <<argVars, status, localVars, osVars>>
  /\ UNCHANGED <<cpuCount, bpfObject, bpfLink, perfMaps, perfFds,
                 initialized>>

ResolvePerfMaps ==
  /\ step = "resolvePerf"
  /\ step' = "openFds"
  /\ UNCHANGED <<memberVars, argVars, status, localVars, osVars>>

(* openPerfEventFd for one CPU; after the last one the event is bound.     *)
OpenPerfFd ==
  /\ step = "openFds"
  /\ LET fd == <<objectPtr, eventSpecIdx, cpuIdx>> IN
     /\ openFds' = openFds \cup {fd}
     /\ localPerfFds' = localPerfFds \cup {fd}
  /\ IF cpuIdx + 1 < cpuCount
       THEN cpuIdx' = cpuIdx + 1 /\ UNCHANGED step
       ELSE cpuIdx' = 0 /\ step' = "bind"
  /\ UNCHANGED <<memberVars, argVars, status, objectPtr, eventSpecIdx,
                 openObjects, attached, targetPid>>

(* Reset, enable and bind for one CPU; after the last one, where cpuIdx    *)
(* becomes `restart`, comes the next event, after the last event the       *)
(* program.                                                                *)
BindPerfFdThen(restart) ==
  /\ step = "bind"
  /\ IF cpuIdx + 1 < cpuCount
       THEN cpuIdx' = cpuIdx + 1 /\ UNCHANGED <<eventSpecIdx, step>>
       ELSE /\ cpuIdx' = restart
            /\ eventSpecIdx' = eventSpecIdx + 1
            /\ step' = IF eventSpecIdx + 1 < EventCount
                         THEN "openFds" ELSE "attach"
  /\ UNCHANGED <<memberVars, argVars, status, objectPtr, localPerfFds, osVars>>

(* Mutant: the loop over the CPUs does not start over.                     *)
BindPerfFdPastTheEnd == BindPerfFdThen(cpuIdx + 1)

BindPerfFd == BindPerfFdThen(0)

(* The program is attached and everything is moved to the members.  The    *)
(* smart pointers release what they held before; the vector of fds only    *)
(* forgets it.                                                             *)
AttachAndCommit ==
  /\ step = "attach"
  /\ bpfObject' = objectPtr
  /\ bpfLink' = objectPtr
  /\ perfMaps' = objectPtr
  /\ perfFds' = localPerfFds
  /\ openObjects' = openObjects \ {bpfObject}
  /\ attached' = (attached \cup {objectPtr}) \ {bpfLink}
  /\ objectPtr' = None
  /\ localPerfFds' = {}
  /\ eventSpecIdx' = 0
  /\ step' = "configure"
  /\ UNCHANGED <<cpuCount, targetPidMapFd, totalsMapFd, initialized, argVars,
                 status, cpuIdx, openFds, targetPid>>

(* configureTargetPid returns, and with it the call.                       *)
Configured(result, flag) ==
  /\ step = "configure"
  /\ step' = "idle"
  /\ status' = result
  /\ initialized' = flag
  /\ UNCHANGED <<cpuCount, bpfObject, bpfLink, perfMaps, perfFds,
                 targetPidMapFd, totalsMapFd, argVars, localVars, openObjects,
                 attached, openFds>>

ConfigureTargetPid ==
  /\ Configured("ok", TRUE)
  /\ targetPid' = [targetPid EXCEPT ![targetPidMapFd] = requestedPid]

(* Mutant: the flag is set before the configuration is known to be done.   *)
ConfigureFailsInitialized ==
  ConfigureMayFail /\ Configured("error", TRUE) /\ UNCHANGED targetPid

(* Its error return leaves everything initializeProfilerResources set up.  *)
ConfigureFails ==
  ConfigureMayFail /\ Configured("error", initialized) /\ UNCHANGED targetPid

(* The destructor closes _perfFds, then the members go: link and object.   *)
Destroy ==
  /\ step = "idle"
  /\ step' = "destroyed"
  /\ openFds' = openFds \ perfFds
  /\ perfFds' = {}
  /\ attached' = attached \ {bpfLink}
  /\ bpfLink' = None
  /\ openObjects' = openObjects \ {bpfObject}
  /\ bpfObject' = None
  /\ UNCHANGED <<cpuCount, perfMaps, targetPidMapFd, totalsMapFd, initialized,
                 argVars, status, localVars, targetPid>>

Destroyed == step = "destroyed" /\ UNCHANGED resVars

ResourcesNext ==
  \/ \E pid \in Pid : InitializeProfiling(pid)
  \/ DiscoverCpus \/ OpenObject \/ LoadObject
  \/ ResolveMaps \/ ResolvePerfMaps
  \/ OpenPerfFd \/ BindPerfFd \/ AttachAndCommit
  \/ ResourceFails
  \/ ConfigureTargetPid \/ ConfigureFails
  \/ Destroy \/ Destroyed

ResourcesSpec == ResourcesInit /\ [][ResourcesNext]_resVars

-----------------------------------------------------------------------------
(* sampleOnce trusts _isProfilerInitialized: when it is set, the map it    *)
(* reads belongs to the live object whose program is attached, every       *)
(* counter of every CPU is open and owned by the destructor.  The call     *)
(* that set it up has its PID profiled, and a later call, which asks for   *)
(* another and is told "ok", leaves all of this alone.                     *)
InitializedIsLive ==
  initialized /\ step # "destroyed" =>
    /\ {bpfLink, totalsMapFd, targetPidMapFd, perfMaps} = {bpfObject}
    /\ openObjects = {bpfObject}
    /\ attached = {bpfObject}
    /\ targetPid[bpfObject] \in Pid
    /\ calls = bpfObject => targetPid[bpfObject] = requestedPid
    /\ perfFds = {bpfObject} \X Event \X Cpu
    /\ perfFds \subseteq openFds

(* However often initialization fails and is tried again, the process does *)
(* not keep more than one object open or program attached between calls.   *)
OneObjectBetweenCalls ==
  step \in {"idle", "destroyed"} =>
    /\ openObjects = {bpfObject} \ {None}
    /\ attached = {bpfLink} \ {None}

(* A call that fails half way closes whatever it opened: a descriptor that *)
(* lost its owner is one of a full set, committed by a call and replaced   *)
(* by a later one.                                                         *)
NothingIsHalfClosed ==
  \A fd \in openFds \ (perfFds \cup localPerfFds) :
    /\ {fd[1]} \X Event \X Cpu \subseteq openFds
    /\ fd[1] # bpfObject

(* "failure cleanup can close everything from one place no matter where    *)
(* initialization fails": every open perf fd has an owner that closes it.  *)
PerfFdsAreOwned == openFds = perfFds \cup localPerfFds
=============================================================================
