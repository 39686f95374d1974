---------------------------- MODULE MCWithdrawals ----------------------------
(***************************************************************************)
(* Instances of Withdrawals for TLC.  Users are interchangeable.           *)
(***************************************************************************)
EXTENDS Withdrawals, TLC

Symmetry == Permutations(User)

Coins == {<<2>>, <<1, 1>>}

=============================================================================
