------------------------------- MODULE MCPmap -------------------------------
EXTENDS Pmap, TLC, Bitwise

(* Physical pages are interchangeable, and so are the slots of envs[]. *)
PmapSymmetry == Permutations(Pages) \cup Permutations(Envs)

(* Pages by their numbers, and a perm with the lowest bit of an address.   *)
PageNumbers == 1 .. 7
LowestBit   == {[p \in PageNumbers |-> p | 1]}
=============================================================================
