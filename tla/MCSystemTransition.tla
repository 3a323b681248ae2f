------------------------- MODULE MCSystemTransition -------------------------
(***************************************************************************)
(* Instances of SystemTransition for TLC.  Two setups for different builds *)
(* of which b2 keeps the Admin that runs, so it may follow b1 without a    *)
(* restart and its workers with it.  Or one upgrade.                       *)
(***************************************************************************)
EXTENDS SystemTransition, TLC

CONSTANTS op1, op2, b0, b1, b2, r1, r2

MCTwo == op1 :> b1 @@ op2 :> b2
MCSetups == op1 :> "setup" @@ op2 :> "setup"
MCUpgrade == op1 :> "upgrade"
MCOne == op1 :> b1

Threads == Permutations(Requests)
=============================================================================
