-------------------------- MODULE MCUserConnection --------------------------
(* Instances of UserConnection for TLC. *)
EXTENDS UserConnection, TLC

(* Sound for the safety runs: the users that are Verified, the rows and    *)
(* the workers are only compared with each other.                          *)
Symmetry ==
  Permutations(Verified) \cup Permutations(Conns) \cup Permutations(Workers)
=============================================================================
