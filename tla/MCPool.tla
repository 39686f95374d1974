------------------------------- MODULE MCPool -------------------------------
(***************************************************************************)
(* Instance of Pool for TLC.  A precision of 100 is large beside amounts   *)
(* of a few coins, as 10^18 is beside the amounts of the chain.            *)
(***************************************************************************)
EXTENDS Pool

=============================================================================
