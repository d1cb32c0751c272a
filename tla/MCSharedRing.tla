---------------------------- MODULE MCSharedRing ----------------------------
(***************************************************************************)
(* SharedRing with three slots and two viewers: as many leases as slots.   *)
(***************************************************************************)
EXTENDS SharedRing, TLC

CONSTANTS v1, v2
=============================================================================
