-------------------------- MODULE MCAudioDelivery --------------------------
(***************************************************************************)
(* AudioDelivery on a small instance: two viewers, short packets.          *)
(***************************************************************************)
EXTENDS AudioDelivery, TLC

CONSTANTS v1, v2

Symmetry == Permutations(Viewers)
=============================================================================
