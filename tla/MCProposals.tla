----------------------------- MODULE MCProposals -----------------------------
(***************************************************************************)
(* Instances of Proposals for TLC.                                         *)
(***************************************************************************)
EXTENDS Proposals

(* one proposal that is well received, and one that is vetoed *)
TwoTallies == {[yes |-> 2, veto |-> 1], [yes |-> 1, veto |-> 2]}
TwoLists == {Validators, {}}

=============================================================================
