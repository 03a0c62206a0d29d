----------------------------- MODULE MCMapEditor -----------------------------
(***************************************************************************)
(* A folder of four pictures and a small grid for TLC.  There is no level  *)
(* at first, or one that uses empty, player, door, end and a plain tile.   *)
(***************************************************************************)
EXTENDS MapEditor

CONSTANTS industrial01, industrial02, industrial45, industrial81

MCFolder == <<industrial01, industrial02, industrial45, industrial81>>

MCLevel ==
  [objects |-> <<Object(0, EMPTY), Object(1, PLAYER), Object(2, DOOR), Object(3, END),
                 Object(4, industrial01)>>,
   data    |-> [c \in Cells |-> CASE c = <<0, 0>> -> 1 [] c = <<0, 1>> -> 2
                                  [] c = <<1, 0>> -> 3 [] c = <<1, 2>> -> 4 [] OTHER -> 0]]

MCFirstFiles == {MCLevel}
=============================================================================
