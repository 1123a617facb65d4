-------------------------- MODULE MCInstanceRegistry --------------------------
(* Finite values for InstanceRegistry.  Ports keep their order, which the    *)
(* scan uses; AVD names and pids are interchangeable.                        *)
EXTENDS InstanceRegistry, TLC

MCSymmetry == Permutations(Avds) \cup Permutations(Pids)
=============================================================================
