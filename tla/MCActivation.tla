------------------------------ MODULE MCActivation ------------------------------
(***************************************************************************)
(* ActivationMutation with an earlier activation that has the same workflow. *)
(***************************************************************************)
EXTENDS ActivationMutation

MCSameAssets == {"workflow"}
=============================================================================
