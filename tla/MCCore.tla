------------------------------- MODULE MCCore -------------------------------
(***************************************************************************)
(* Instances of Core for TLC: one for the life of the batches, one for the *)
(* LSM shares, the fees and the owner.                                     *)
(***************************************************************************)
EXTENDS Core

=============================================================================
