-------------------------- MODULE MCNamespaceWatch --------------------------
(***************************************************************************)
(* Instances of the namespace watch for TLC.                               *)
(***************************************************************************)
EXTENDS NamespaceWatch

CONSTANTS ns1, ns2
=============================================================================
