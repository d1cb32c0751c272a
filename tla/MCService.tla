----------------------------- MODULE MCService -----------------------------
(***************************************************************************)
(* Service with one viewer.                                                *)
(***************************************************************************)
EXTENDS Service

CONSTANT v1
=============================================================================
