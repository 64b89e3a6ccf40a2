----------------------------- MODULE MCServices -----------------------------
(* Instances of the components of Services for TLC. *)
EXTENDS Services, TLC
=============================================================================
