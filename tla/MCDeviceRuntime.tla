---------------------------- MODULE MCDeviceRuntime ----------------------------
(* Finite values for DeviceRuntime.  Every AVD asks for one unit of memory,  *)
(* so AVD names are interchangeable, and SDK roots are; ports and pids keep  *)
(* their order.                                                              *)
EXTENDS DeviceRuntime, TLC

MCDemand == [a \in Avds |-> [memory_mb |-> 1, gpu_slots |-> 0]]
MCSymmetry == Permutations(Avds) \cup Permutations(Sdks)
=============================================================================
