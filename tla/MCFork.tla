------------------------------- MODULE MCFork -------------------------------
(* Fork for TLC: physical pages are interchangeable. *)
EXTENDS Fork, TLC

PageSymmetry == Permutations(Pages)
=============================================================================
