------------------------------ MODULE MCStaking ------------------------------
(***************************************************************************)
(* Instances of Staking for TLC.                                           *)
(***************************************************************************)
EXTENDS Staking, TLC

(* both validators, or the second alone *)
TwoValidators == {(1 :> 1) @@ (2 :> 1), 2 :> 1}

=============================================================================
