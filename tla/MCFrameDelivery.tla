-------------------------- MODULE MCFrameDelivery --------------------------
(***************************************************************************)
(* FrameDelivery on a small instance: two tiles, two colours, two viewers. *)
(***************************************************************************)
EXTENDS FrameDelivery, TLC

CONSTANTS v1, v2, t1, t2, light, dark, small, large

MCTiles   == {t1, t2}
MCColors  == {light, dark}
MCScreen  == {MCTiles}             \* requests for the whole screen
MCHalves  == {{t1}, {t2}}          \* requests for a part of it
MCApart   == (v1 :> {FALSE}) @@ (v2 :> {TRUE})
MCSingle  == (v1 :> {FALSE})

(* Tiles and colours are interchangeable; viewers are not, when they have  *)
(* different abilities, and liveness is checked without symmetry.          *)
Symmetry == Permutations(MCTiles) \cup Permutations(MCColors)
=============================================================================
