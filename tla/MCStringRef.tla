----------------------------- MODULE MCStringRef -----------------------------
(* Instances of StringRef for TLC: the references are interchangeable.     *)
EXTENDS StringRef, TLC

Symmetry == Permutations(Refs)
=============================================================================
