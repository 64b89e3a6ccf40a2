---------------------------- MODULE MCCoupleSpace ----------------------------
(* Instances of CoupleSpace for TLC. *)
EXTENDS CoupleSpace, TLC

Symmetry ==
  Permutations(Verified) \cup Permutations(Conns) \cup Permutations(Workers)
    \cup Permutations(Handlers)
=============================================================================
