----------------------------- MODULE MCDoorLink -----------------------------
(***************************************************************************)
(* Instances of DoorLink for TLC: a level of two doors, a run that opens   *)
(* one, one that closes it and one with words for numbers.                 *)
(***************************************************************************)
EXTENDS DoorLink

MCCommand ==
  [i \in Runs |-> CASE i = 1 -> [door |-> 0, open |-> TRUE]
                    [] i = 2 -> [door |-> 0, open |-> FALSE]
                    [] i = 3 -> [door |-> 7, open |-> TRUE]]
=============================================================================
