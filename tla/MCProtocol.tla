----------------------------- MODULE MCProtocol -----------------------------
(***************************************************************************)
(* Instance of Protocol for TLC: two reward denoms, two validators, two    *)
(* accounts that may own contracts.                                        *)
(***************************************************************************)
EXTENDS Protocol, TLC

CONSTANTS d1, d2, v1, v2, admin, dao

MCDenoms == <<d1, d2>>
MCReceiverSets == {{d1}, {d1, d2}}
MCUnbondingLists == {<<v1, v2>>, <<v2, v2>>}

(* the accounts are used symmetrically *)
UserSymmetry == Permutations(User)
=============================================================================
