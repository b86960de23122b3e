------------------------------ MODULE MCMirror ------------------------------
(***************************************************************************)
(* Instances of the controller that meet the conditions of Mirror.         *)
(***************************************************************************)
EXTENDS MCController, Mirror

ASSUME InstanceIsCalm == Calm
=============================================================================
