------------------------ MODULE MCCacheSampleReader ------------------------
(* Instance of CacheSampleReader for TLC: two slots, one per CPU, that a   *)
(* read copies one after the other while both handlers run.                *)
EXTENDS CacheSampleReader

CONSTANTS other

(* Every piece of work is one count of each event.                         *)
MCFootprint == {[e \in Event |-> 1]}
MCProcess == {Idle, Target, other}
=============================================================================
