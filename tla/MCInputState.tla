---------------------------- MODULE MCInputState ----------------------------
(***************************************************************************)
(* InputState with a Shift key and a letter key, or with Shift alone, and  *)
(* two positions.                                                          *)
(***************************************************************************)
EXTENDS InputState

CONSTANTS shift, lower, none, origin, elsewhere

MCKeysyms    == {shift, lower}
MCModifierOf == [k \in Keysyms |-> IF k = shift THEN shift ELSE none]
MCUsageOf    == [k \in Keysyms |-> IF k = lower THEN 4 ELSE 0]
MCShift      == {shift}
MCPositions  == {origin, elsewhere}
=============================================================================
