------------------------- MODULE MCPublishDelivery --------------------------
(***************************************************************************)
(* An instance of PublishDelivery for TLC.                                 *)
(***************************************************************************)
EXTENDS PublishDelivery, TLC

Symmetry == Permutations(Mids)
=============================================================================
