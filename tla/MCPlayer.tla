------------------------------ MODULE MCPlayer ------------------------------
(***************************************************************************)
(* Levels of Player for TLC.  A room with ledges of one and of two tiles,  *)
(* and one where the player starts on a door, from which a platform can be *)
(* reached once the door is open; end tiles over and under the platform.   *)
(***************************************************************************)
EXTENDS Player

Ledges == << <<4, 4, 4, 4, 4, 4>>,
             <<4, 0, 0, 0, 0, 4>>,
             <<4, 0, 0, 0, 0, 4>>,
             <<4, 0, 0, 0, 0, 4>>,
             <<4, 0, 0, 1, 3, 4>>,
             <<4, 5, 0, 0, 5, 4>>,
             <<4, 5, 5, 0, 5, 4>>,
             <<4, 4, 4, 4, 4, 4>> >>

Lift == << <<4, 3, 4, 4>>,
           <<4, 0, 0, 4>>,
           <<4, 0, 0, 4>>,
           <<4, 5, 1, 4>>,
           <<4, 3, 0, 4>>,
           <<4, 0, 2, 4>>,
           <<4, 4, 4, 4>> >>

MCLayouts == <<Ledges, Lift>>
=============================================================================
