-------------------------- MODULE MCBackgroundStarts --------------------------
(* Instances of BackgroundStarts for TLC: one demand, no budgets.            *)
EXTENDS BackgroundStarts

MCDemands == {[memory_mb |-> 1, gpu_slots |-> 0]}
=============================================================================
