---------------------------- MODULE MCPuppeteer ----------------------------
(***************************************************************************)
(* Instance of Puppeteer for TLC: two clients, two transactions that go    *)
(* over the ICA channel or, in some configurations, one of them over the   *)
(* transfer channel.                                                       *)
(***************************************************************************)
EXTENDS Puppeteer, TLC

(* the clients are used symmetrically; so are the transactions when none is
   an IBC transfer.  For safety only. *)
ClientSymmetry == Permutations(Client)

=============================================================================
