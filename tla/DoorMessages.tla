---------------------------- MODULE DoorMessages ----------------------------
(***************************************************************************)
(* What the door topic promises the game: the commands published in the    *)
(* guest reach msgarrvd at most once and in the order of their             *)
(* publication; any of them may be lost (QoS 0, a clean session).          *)
(***************************************************************************)
EXTENDS Naturals

VARIABLES sent,  \* how many commands have been published
          last   \* the one msgarrvd had last, 0 before the first

Init == sent = 0 /\ last = 0

Publish == sent' = sent + 1 /\ last' = last

Arrive == \E k \in (last + 1)..sent : last' = k /\ sent' = sent

Next == Publish \/ Arrive

Spec == Init /\ [][Next]_<<sent, last>>
=============================================================================
