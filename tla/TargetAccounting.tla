-------------------------- MODULE TargetAccounting --------------------------
(***************************************************************************)
(* What the in-kernel sampler promises, without counters or baselines.     *)
(*                                                                         *)
(* Each CPU is occupied by one process at a time.  While a process         *)
(* occupies a CPU, its memory accesses fill one window per cache event.    *)
(* At a scheduler switch every window of that CPU is settled before the    *)
(* next process takes over: it is credited in full if the occupant is the  *)
(* armed target, and dropped otherwise.  So no window ever changes owner,  *)
(* and only the target's windows are credited.                             *)
(*                                                                         *)
(* CacheSampler implements this with cumulative counters and a remembered  *)
(* previous value per CPU and event.                                       *)
(***************************************************************************)
EXTENDS Integers

CONSTANTS
  Cpu,         (* the CPUs                                                 *)
  Event,       (* the cache events counted on each CPU                     *)
  Process,     (* the processes that may occupy a CPU                      *)
  Idle,        (* the idle task: it touches no memory in user mode         *)
  Target,      (* the profiled process                                     *)
  MayLose      (* whether a window may be lost when its counter cannot be  *)
               (* read                                                     *)

VARIABLES
  running,     (* running[c]: the process that occupies CPU c              *)
  armed,       (* the target has been made known to the sampler            *)
  switching,   (* switching[c]: a switch is under way on CPU c             *)
  keep,        (* keep[c]: the switch under way on c credits the windows   *)
  due,         (* due[c]: the events that switch has still to settle       *)
  window,      (* window[c][e]: the occupant's counts not settled yet      *)
  credited     (* credited[c][e]: the counts credited to the target        *)

vars == <<running, armed, switching, keep, due, window, credited>>

Init ==
  /\ running \in [Cpu -> Process]
  /\ armed = FALSE
  /\ switching = [c \in Cpu |-> FALSE]
  /\ keep = [c \in Cpu |-> FALSE]
  /\ due = [c \in Cpu |-> {}]
  /\ window = [c \in Cpu |-> [e \in Event |-> 0]]
  /\ credited = [c \in Cpu |-> [e \in Event |-> 0]]

Arm ==
  /\ armed' = TRUE
  /\ UNCHANGED <<running, switching, keep, due, window, credited>>

(* The occupant of c works: its windows grow, and no other CPU's do.       *)
Burst(c) ==
  /\ ~switching[c]
  /\ running[c] # Idle
  /\ window' \in [Cpu -> [Event -> Nat]]
  /\ \A e \in Event : window'[c][e] >= window[c][e]
  /\ \A d \in Cpu \ {c} : window'[d] = window[d]
  /\ UNCHANGED <<running, armed, switching, keep, due, credited>>

BeginSwitch(c) ==
  /\ ~switching[c]
  /\ switching' = [switching EXCEPT ![c] = TRUE]
  /\ keep' = [keep EXCEPT ![c] = armed /\ running[c] = Target]
  /\ due' = [due EXCEPT ![c] = Event]
  /\ UNCHANGED <<running, armed, window, credited>>

Settle(c, e) ==
  /\ e \in due[c]
  /\ due' = [due EXCEPT ![c] = @ \ {e}]
  /\ window' = [window EXCEPT ![c][e] = 0]
  /\ credited' = [credited EXCEPT
       ![c][e] = IF keep[c] THEN @ + window[c][e] ELSE @]
  /\ UNCHANGED <<running, armed, switching, keep>>

Lose(c, e) ==
  /\ MayLose
  /\ e \in due[c]
  /\ due' = [due EXCEPT ![c] = @ \ {e}]
  /\ window' = [window EXCEPT ![c][e] = 0]
  /\ UNCHANGED <<running, armed, switching, keep, credited>>

EndSwitch(c, p) ==
  /\ switching[c]
  /\ due[c] = {}
  /\ switching' = [switching EXCEPT ![c] = FALSE]
  /\ keep' = [keep EXCEPT ![c] = FALSE]
  /\ running' = [running EXCEPT ![c] = p]
  /\ UNCHANGED <<armed, due, window, credited>>

(* A switch nobody watches: allowed only when it has nothing to settle.    *)
QuietSwitch(c, p) ==
  /\ ~switching[c]
  /\ \A e \in Event : window[c][e] = 0
  /\ running' = [running EXCEPT ![c] = p]
  /\ UNCHANGED <<armed, switching, keep, due, window, credited>>

Next ==
  \/ Arm
  \/ \E c \in Cpu :
       \/ Burst(c)
       \/ BeginSwitch(c)
       \/ \E e \in Event : Settle(c, e) \/ Lose(c, e)
       \/ \E p \in Process : EndSwitch(c, p) \/ QuietSwitch(c, p)

Spec == Init /\ [][Next]_vars
=============================================================================
