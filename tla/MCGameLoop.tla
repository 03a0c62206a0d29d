----------------------------- MODULE MCGameLoop -----------------------------
(***************************************************************************)
(* Levels for TLC: "good" has a door and a player, "broken" cannot be read *)
(* and "empty" has neither player nor door, as a map the editor has        *)
(* just created.                                                           *)
(***************************************************************************)
EXTENDS GameLoop

CONSTANTS good, broken, empty

MCDoorCount == [l \in Levels |-> IF l = good THEN 1 ELSE 0]
=============================================================================
