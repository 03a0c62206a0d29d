------------------------------- MODULE Player -------------------------------
(***************************************************************************)
(* The player and the doors of a level, frame by frame: get_map makes them *)
(* entities, update_all_entities updates them in the order of the layout,  *)
(* player.c moves the player against the solid tiles, door.c raises a door *)
(* that is open and pushes the player out of it.  A message may open or    *)
(* stop a door between any two updates.                                    *)
(*                                                                         *)
(* Lengths are twentieths of a pixel: gravity is 0.2 and a door's step is  *)
(* 0.25 pixels.  What float rounding adds to that is kept where a test     *)
(* sees it: a jump's velocity, summed up from -6, stays a little below the *)
(* decimal one, so it is still negative at 0 and below 2 at 2.             *)
(***************************************************************************)
EXTENDS Integers, Sequences, FiniteSets

CONSTANT Layouts  \* the maps of the level files: rows of tile ids

EMPTY  == 0
PLAYER == 1
DOOR   == 2
END    == 3

CellsOf(layout) == (0..(Len(layout) - 1)) \X (0..(Len(layout[1]) - 1))
IdIn(layout, c) == layout[c[1] + 1][c[2] + 1]

ASSUME LayoutAssumption ==
  \A l \in DOMAIN Layouts :
    LET layout == Layouts[l]
    IN  /\ layout \in Seq(Seq(Nat)) /\ layout # <<>>
        /\ \A r \in DOMAIN layout : Len(layout[r]) = Len(layout[1])
        /\ \E start \in CellsOf(layout) :
             \A c \in CellsOf(layout) : IdIn(layout, c) = PLAYER <=> c = start

PX   == 20         \* a pixel
TILE == 32 * PX    \* TILE_SIZE, a tile's, a door's and the player's width
TALL == 2 * TILE   \* the player's height

Before(a, b) == a[1] < b[1] \/ (a[1] = b[1] /\ a[2] < b[2])

VARIABLES level,     \* the level that is played
          pos_x, pos_y, velocity_y,  \* the player
          jumping,   \* the velocity has been summed up from a jump's
          on_ground,
          door_y,    \* the height of each door
          is_open,
          stopped,   \* game_state is GAME_STOP: the end tile was touched
          turn,      \* the entity that update_all_entities updates next
          astray     \* since it last stood free on a tile the player was pushed by
                     \* a door or put into a tile, or left at the map's top or left

playerVars == <<pos_x, pos_y, velocity_y, jumping, on_ground>>
vars == <<level, playerVars, door_y, is_open, stopped, turn, astray>>

Cells == CellsOf(Layouts[level])
Id(c) == IdIn(Layouts[level], c)

\* get_map makes an entity of each such cell, row by row, and empties it: the
\* n-th is of the cell that n - 1 of them come before.
MadeOf(layout) == {c \in CellsOf(layout) : IdIn(layout, c) \in {PLAYER, DOOR}}
EntitiesOf ==
  [l \in DOMAIN Layouts |->
     LET made == MadeOf(Layouts[l])
     IN  [n \in 1..Cardinality(made) |->
            CHOOSE c \in made : Cardinality({b \in made : Before(b, c)}) = n - 1]]
Entities == EntitiesOf[level]
Start    == CHOOSE c \in Cells : Id(c) = PLAYER
Tile(c)  == IF Id(c) \in {PLAYER, DOOR} THEN EMPTY ELSE Id(c)

\* A pixel of the player at (x, y) is in the cell.
Overlaps(x, y, c) ==
  /\ x + TILE > c[2] * TILE /\ x < (c[2] + 1) * TILE
  /\ y + TALL >= c[1] * TILE + PX /\ y < (c[1] + 1) * TILE

Inside(x, y) == \E c \in Cells : Tile(c) \notin {EMPTY, END} /\ Overlaps(x, y, c)

Free(x, y) == \A c \in Cells : Tile(c) # EMPTY => ~Overlaps(x, y, c)

OffMap(x, y) == x < 0 \/ y < 0

Init ==
  /\ level \in DOMAIN Layouts
  /\ pos_x = Start[2] * TILE /\ pos_y = Start[1] * TILE
  /\ velocity_y = 0 /\ jumping = FALSE /\ on_ground = FALSE
  /\ door_y = [d \in {c \in Cells : Id(c) = DOOR} |-> d[1] * TILE]
  /\ is_open = [d \in DOMAIN door_y |-> FALSE]
  /\ stopped = FALSE /\ turn = 1
  /\ astray = ~Free(pos_x, pos_y)

-----------------------------------------------------------------------------
(* check_collision_pl                                                      *)

\* (int)pos / n: both cut towards zero.
Cut(p, n) == IF p >= 0 THEN p \div n ELSE -((-p) \div n)

\* ... wrong: the player is as tall as it is wide.
CoveredAsSquare(x, y) ==
  LET px == Cut(x, PX)  py == Cut(y, PX)
  IN  (Cut(py, 32)..Cut(py + 31, 32)) \X (Cut(px, 32)..Cut(px + 31, 32))

\* The cells from the player's first pixel to its last.
Covered(x, y) ==
  LET px == Cut(x, PX)  py == Cut(y, PX)
  IN  (Cut(py, 32)..Cut(py + 63, 32)) \X (Cut(px, 32)..Cut(px + 31, 32))

Hits(x, y) == {c \in Covered(x, y) : c \in Cells /\ Tile(c) > 0}

Touches(hits, tile) == \E c \in hits : Tile(c) = tile

\* The first cell hit moves the player and zeroes the velocity that the others
\* are compared with; an end tile there leaves the player where it is.
First(hits) == CHOOSE c \in hits : \A b \in hits : ~Before(b, c)
Blocks(hits) == IF hits = {} THEN FALSE ELSE Tile(First(hits)) # END

\* dir = 0: out of the blocking tile to the side the player came from.
Sideways(x, hits, step) ==
  IF step = 0 \/ ~Blocks(hits) THEN x
  ELSE First(hits)[2] * TILE + (IF step > 0 THEN -TILE ELSE TILE)

\* dir = 1: onto the blocking tile or below it, as the velocity's sign has it.
Vertical(y, hits, falling, rising) ==
  IF ~(falling \/ rising) \/ ~Blocks(hits) THEN y
  ELSE First(hits)[1] * TILE + (IF falling THEN -TALL ELSE TILE)

-----------------------------------------------------------------------------
(* update_player                                                           *)

\* D and A, with shift or without, both of them or neither.  velocity.x lasts
\* no longer than the frame.
Steps == {-3, -1, 0, 1, 3}

\* ... wrong: a little more.
JumpSpeedHigher == 6 * PX + PX \div 5

JumpSpeed == 6 * PX

\* fminf(v, 2) < 2 ? 0.2 : 0
Gravity(v, jumped) ==
  IF v < 2 * PX \/ (v = 2 * PX /\ jumped) THEN v + PX \div 5 ELSE v

\* ... wrong: whoever falls keeps the ground.
KeepsGroundFalling(jumps, falling) == on_ground /\ ~jumps

KeepsGround(jumps, falling) == on_ground /\ ~jumps /\ ~falling

\* jumps: the space key, which counts on the ground.
UpdatePlayer(step, jumps) ==
  LET jumped  == jumping \/ jumps
      v       == Gravity(IF jumps THEN velocity_y - JumpSpeed ELSE velocity_y, jumped)
      falling == v > 0
      rising  == v < 0 \/ (v = 0 /\ jumped)
      x0 == pos_x + step * PX
      beside == Hits(x0, pos_y)
      x1 == Sideways(x0, beside, step)
      y0 == pos_y + v + PX
      above_below == Hits(x1, y0)
      hit == (falling \/ rising) /\ Blocks(above_below)
  IN  /\ Id(Entities[turn]) = PLAYER
      /\ pos_x' = x1
      /\ pos_y' = Vertical(y0, above_below, falling, rising)
      /\ velocity_y' = IF hit THEN 0 ELSE v
      /\ jumping' = (jumped /\ ~hit)
      /\ on_ground' = IF hit THEN falling ELSE KeepsGround(jumps, falling)
      /\ stopped' = (stopped \/ Touches(beside, END) \/ Touches(above_below, END))
      /\ astray' = IF OffMap(pos_x', pos_y') THEN TRUE
                   ELSE astray /\ ~(on_ground' /\ Free(pos_x', pos_y'))
      /\ UNCHANGED <<level, door_y, is_open>>

-----------------------------------------------------------------------------
(* update_door                                                             *)

UpdateDoor(d) ==
  LET top    == IF is_open[d] /\ door_y[d] > d[1] * TILE - TILE
                THEN door_y[d] - PX \div 4 ELSE door_y[d]
      side   == d[2] * TILE
      dx_left   == pos_x + TILE - side
      dx_right  == side + TILE - pos_x
      dy_top    == pos_y + TALL - top
      dy_bottom == top + TILE - pos_y
      min(a, b) == IF a < b THEN a ELSE b
      hit       == dx_left > 0 /\ dx_right > 0 /\ dy_top > 0 /\ dy_bottom > 0
      sideways  == min(dx_left, dx_right) < min(dy_top, dy_bottom)
      onto      == dy_top < dy_bottom
  IN  /\ Entities[turn] = d
      /\ door_y' = [door_y EXCEPT ![d] = top]
      /\ pos_x' = IF ~(hit /\ sideways) THEN pos_x
                  ELSE IF dx_left < dx_right THEN side - TILE ELSE side + TILE
      /\ pos_y' = IF ~hit \/ sideways THEN pos_y
                  ELSE IF onto THEN top - TALL ELSE top + TILE
      /\ velocity_y' = IF hit /\ ~sideways THEN 0 ELSE velocity_y
      /\ jumping' = (jumping /\ ~(hit /\ ~sideways))
      /\ on_ground' = (on_ground \/ (hit /\ ~sideways /\ onto))
      /\ astray' = (astray \/ hit)
      /\ UNCHANGED <<level, is_open, stopped>>

-----------------------------------------------------------------------------
\* update_all_entities, one entity at a time; the engine calls it again only
\* while game_state is GAME_RUN.
Update ==
  /\ ~(turn = 1 /\ stopped)
  /\ turn' = (turn % Len(Entities)) + 1
  /\ \/ \E step \in Steps, jumps \in {FALSE, on_ground} : UpdatePlayer(step, jumps)
     \/ \E d \in DOMAIN door_y : UpdateDoor(d)

\* msgarrvd: door->is_open = state.
MessageArrived(d) ==
  /\ is_open' = [is_open EXCEPT ![d] = ~@]
  /\ UNCHANGED <<level, playerVars, door_y, stopped, turn, astray>>

Next == Update \/ \E d \in DOMAIN door_y : MessageArrived(d)

Spec == Init /\ [][Next]_vars

-----------------------------------------------------------------------------
(* Properties                                                              *)

\* Type correctness of the model.
TypeOK ==
  /\ pos_x \in Int /\ pos_y \in Int
  /\ velocity_y \in (-6 * PX)..(2 * PX + PX \div 5)
  /\ jumping \in BOOLEAN /\ on_ground \in BOOLEAN
  /\ \A d \in DOMAIN door_y : door_y[d] \in ((d[1] - 1) * TILE)..(d[1] * TILE)
  /\ is_open \in [DOMAIN door_y -> BOOLEAN]
  /\ stopped \in BOOLEAN /\ turn \in 1..Len(Entities) /\ astray \in BOOLEAN

\* Until the level ends, a player that no door has led astray is inside no solid
\* tile, whatever the keys and however it came there.
WallsHold == ~astray /\ ~stopped => ~Inside(pos_x, pos_y)

\* A wall, a floor or a ceiling only shortens a movement: update_player takes
\* the sign of the velocity for the direction of a movement that goes a pixel
\* further down, and the two agree whenever something is hit.
WallsOnlyStop ==
  [][~astray /\ ~astray' /\ ~stopped' =>
       /\ pos_x' - pos_x \in (-3 * PX)..(3 * PX)
       /\ pos_y' - pos_y \in (-5 * PX)..(4 * PX)]_vars

\* Whoever may jump stands on something.
JumpNeedsGround == on_ground /\ ~astray => Inside(pos_x, pos_y + PX)

\* A player on the end tile has ended the level.
EndNoticed ==
  ~astray /\ (\E c \in Cells : Id(c) = END /\ Overlaps(pos_x, pos_y, c)) => stopped

LastRow == Len(Layouts[level]) - 1
LastCol == Len(Layouts[level][1]) - 1

\* Every cell at the edge of the map is a tile, as in the levels in the repository.
Framed ==
  \A c \in Cells : c[1] \in {0, LastRow} \/ c[2] \in {0, LastCol} => Tile(c) # EMPTY

\* In a framed level nothing but a door leads the player astray: the tiles alone
\* keep it on the map.
OnlyDoorsLeadAstray ==
  [][Framed /\ ~astray /\ astray' /\ ~stopped' => Id(Entities[turn]) = DOOR]_vars
=============================================================================
