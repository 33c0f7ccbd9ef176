------------------------------ MODULE MCEvidence ------------------------------
(* Small instances of Evidence.                                            *)
EXTENDS Evidence, TLC

CONSTANTS p1, p2, o1, o2, c1, c2
MCSymmetry == Permutations(Plugins) \cup Permutations(Objects) \cup Permutations(Contents)
==============================================================================
