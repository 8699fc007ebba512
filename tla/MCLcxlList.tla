----------------------------- MODULE MCLcxlList -----------------------------
(* Instances of LcxlList for TLC.                                           *)
EXTENDS LcxlList, TLC

Symmetry == Permutations(Caller) \cup Permutations(Entry)

=============================================================================
