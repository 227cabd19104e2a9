--------------------------- MODULE MCCacheSampler ---------------------------
(* Instance of CacheSampler for TLC: event 0 stands for an access counter  *)
(* and event 1 for the miss counter of the same cache level.               *)
EXTENDS CacheSampler

CONSTANTS other

(* Every miss is an access.                                                *)
MCFootprint == {[e \in Event |-> 1], [e \in Event |-> IF e = 0 THEN 1 ELSE 0]}
MCProcess == {Idle, Target, other}
=============================================================================
