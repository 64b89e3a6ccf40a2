----------------------------- MODULE MCAccount -----------------------------
(* Instances of Account for TLC. *)
EXTENDS Account, TLC

Symmetry ==
  Permutations(Ids) \cup Permutations(Emails) \cup Permutations(Workers)
=============================================================================
