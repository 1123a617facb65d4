------------------------- MODULE MCLaunchScheduler -------------------------
(* Instances of LaunchScheduler for TLC.                                    *)
EXTENDS LaunchScheduler, TLC

\* A heavy AVD, and a light one that needs the host GPU: two external ones of
\* the second kind overcommit the GPU and leave memory for one that needs none.
MCDemands == {[memory_mb |-> 2, gpu_slots |-> 0],
              [memory_mb |-> 1, gpu_slots |-> 1]}
KeySymmetry == Permutations(Keys)
=============================================================================
