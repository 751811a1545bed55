------------------------------ MODULE MCKernel ------------------------------
(* Instances of Kernel for TLC; the .cfg files choose the sizes. *)
EXTENDS Kernel, TLC


(* Pages and CPUs other than the boot CPU are interchangeable. *)
PagePermutations == Permutations(Pages)
=============================================================================
