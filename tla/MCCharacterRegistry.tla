------------------------- MODULE MCCharacterRegistry -------------------------
(* Instances of CharacterRegistry for TLC. *)
EXTENDS CharacterRegistry, TLC

CONSTANTS u1, u2, o1, o2, o3

Symmetry == Permutations(Uses) \cup Permutations(Ops)
=============================================================================
