---------------------------- MODULE MCUserGraph ----------------------------
(* UserGraph for TLC: labels are interchangeable, and so are attributes.   *)
EXTENDS UserGraph, TLC

Symmetry == Permutations(Labels) \cup Permutations(Attrs)

=============================================================================
