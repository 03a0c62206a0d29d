------------------------------ MODULE MCLevel ------------------------------
(***************************************************************************)
(* Levels for TLC: one as the map editor saves them, one with a picture    *)
(* for the empty cell, one whose second picture cannot be loaded, one with *)
(* its objects out of order, and three whose files are at fault.           *)
(***************************************************************************)
EXTENDS Level

Object(id, picture) == [id |-> id, picture |-> picture]

Saved == <<Object(0, ""), Object(1, "hero"), Object(2, "wall"), Object(3, "end")>>

MCObjects == [l \in Levels |->
  CASE l = "saved"    -> Saved
    [] l = "painted"  -> <<Object(0, "floor"), Object(1, "hero"), Object(2, "end")>>
    [] l = "broken"   -> <<Object(0, ""), Object(1, "gone"), Object(2, "wall")>>
    [] l = "shuffled" -> <<Object(0, ""), Object(2, "wall"), Object(1, "hero")>>
    [] l = "sparse"   -> <<Object(0, ""), Object(7, "wall")>>
    [] OTHER          -> Saved]

MCTiles == [l \in Levels |-> IF l = "sparse" THEN {0} ELSE {0, 1, 2}]

MCRows == [l \in Levels |-> IF l = "broken" THEN 1 ELSE 2]

MCMap == [l \in Levels |-> CASE l = "short" -> "short" [] l = "mapless" -> "none"
                             [] OTHER -> "whole"]
=============================================================================
