-------------------------- MODULE MCValidatorsStats --------------------------
(***************************************************************************)
(* Instances of ValidatorsStats for TLC.                                   *)
(***************************************************************************)
EXTENDS ValidatorsStats

CONSTANTS v1, v2

TwoLists == {<<v1, v2>>, <<v2>>}

=============================================================================
