----------------------------- MODULE EntityList -----------------------------
(***************************************************************************)
(* What the entity manager promises its users: a list of entities that a   *)
(* creation extends at the end and nothing else changes, so that every     *)
(* traversal meets the entities in the order of their creation and an      *)
(* index once given, as player_idx, keeps naming the same entity.          *)
(***************************************************************************)
EXTENDS Sequences

CONSTANT Entities

VARIABLE list

Init == list = <<>>

Create == \E e \in Entities : list' = Append(list, e)

Next == Create

Spec == Init /\ [][Next]_list
=============================================================================
