------------------------- MODULE MCProfilerSession -------------------------
(* Instance of ProfilerSession for TLC: a burst of work counts once.       *)
EXTENDS ProfilerSession

CONSTANT other

MCFootprint == {[e \in Event |-> 1]}
MCProcess == {Idle, Target, other}
=============================================================================
