---------------------------- MODULE PlayerProofs ----------------------------
(***************************************************************************)
(* Proofs about Player for the maps of any levels.  The cells that         *)
(* check_collision_pl looks at are the cells the player overlaps; one      *)
(* movement of an update meets the tiles of one row or column only, and    *)
(* what stops it leaves the player free; and the two places where the      *)
(* sign of the velocity and the direction of the movement part, at the     *)
(* top of a jump, are out of reach of any tile.                            *)
(***************************************************************************)
EXTENDS Player, FiniteSetTheorems, TLAPS

\* The player is n frames into a jump from a place whose height is a row's.
InJump(n, floor) ==
  /\ velocity_y = 4 * n - JumpSpeed
  /\ pos_y = floor * TILE + 2 * n * n - 98 * n

\* Whoever stands is still, and only a jump goes up.
MotionInv ==
  /\ on_ground => velocity_y = 0 /\ ~jumping
  /\ ~jumping => velocity_y >= 0

\* The player is moved by whole pixels to the side and lands on edges of tiles.
GridInv ==
  /\ pos_x % PX = 0
  /\ ~astray => ~OffMap(pos_x, pos_y) /\ (on_ground => pos_y % TILE = 0)

\* WallsHold and EndNoticed in one: neither wall nor end tile.
FreeInv == ~astray /\ ~stopped => Free(pos_x, pos_y)

\* Until its velocity points down, a jump has gone as it began: nothing stopped it.
JumpInv ==
  ~astray /\ jumping /\ velocity_y <= 0 => \E n \in 1..30 : \E floor \in Int : InJump(n, floor)

\* A door moves by quarters of a pixel, so that it stops where it should.
DoorsInv == \A d \in DOMAIN door_y : door_y[d] % 5 = 0

PlaceInv == level \in DOMAIN Layouts /\ DOMAIN door_y = {c \in Cells : Id(c) = DOOR}

Inv == PlaceInv /\ TypeOK /\ MotionInv /\ GridInv /\ FreeInv /\ JumpInv /\ DoorsInv /\ JumpNeedsGround

-----------------------------------------------------------------------------
(* Cells                                                                   *)

\* The cells of a level are pairs of numbers with an id each.
LEMMA CellFacts ==
  ASSUME level \in DOMAIN Layouts
  PROVE  \A c \in Cells : /\ c[1] \in Nat /\ c[2] \in Nat /\ c = <<c[1], c[2]>>
                          /\ Id(c) \in Nat /\ Tile(c) \in Nat
  <1> DEFINE layout == Layouts[level]
  <1>1. /\ layout \in Seq(Seq(Nat)) /\ layout # <<>>
        /\ \A r \in DOMAIN layout : Len(layout[r]) = Len(layout[1])
    BY LayoutAssumption
  <1>2. Len(layout) \in Nat /\ Len(layout[1]) \in Nat
    BY <1>1
  <1> SUFFICES ASSUME NEW c \in Cells
               PROVE  /\ c[1] \in Nat /\ c[2] \in Nat /\ c = <<c[1], c[2]>>
                      /\ Id(c) \in Nat /\ Tile(c) \in Nat
    OBVIOUS
  <1>3. c[1] \in 0..(Len(layout) - 1) /\ c[2] \in 0..(Len(layout[1]) - 1) /\ c = <<c[1], c[2]>>
    BY DEF Cells, CellsOf
  <1>4. c[1] + 1 \in DOMAIN layout
    BY <1>1, <1>2, <1>3
  <1>5. layout[c[1] + 1] \in Seq(Nat) /\ c[2] + 1 \in DOMAIN layout[c[1] + 1]
    BY <1>1, <1>2, <1>3, <1>4
  <1>6. Id(c) \in Nat
    BY <1>5 DEF Id, IdIn
  <1> QED BY <1>2, <1>3, <1>6 DEF Tile, EMPTY

\* A level has entities: the player at least.
LEMMA SomeEntity ==
  ASSUME level \in DOMAIN Layouts
  PROVE  Len(Entities) \in Nat /\ Len(Entities) >= 1
  <1> DEFINE layout == Layouts[level]
             made == MadeOf(layout)
             rows == 0..(Len(layout) - 1)
             cols == 0..(Len(layout[1]) - 1)
  <1>1. /\ layout \in Seq(Seq(Nat)) /\ layout # <<>>
        /\ \E start \in CellsOf(layout) :
             \A c \in CellsOf(layout) : IdIn(layout, c) = PLAYER <=> c = start
    BY LayoutAssumption
  <1>2. Len(layout) \in Nat /\ Len(layout[1]) \in Nat
    BY <1>1
  <1>3. IsFiniteSet(rows) /\ IsFiniteSet(cols)
    <2>1. 0 \in Int /\ Len(layout) - 1 \in Int /\ Len(layout[1]) - 1 \in Int
      BY <1>2
    <2> QED BY ONLY <2>1, FS_Interval
  <1>4. IsFiniteSet(CellsOf(layout))
    BY <1>3, FS_Product DEF CellsOf
  <1>5. made \in SUBSET CellsOf(layout) /\ made # {}
    BY <1>1 DEF MadeOf
  <1>6. IsFiniteSet(made)
    BY <1>4, <1>5, FS_Subset
  <1> HIDE DEF made
  <1>7. Cardinality(made) \in Nat
    BY ONLY <1>6, FS_CardinalityType
  <1>8. Cardinality(made) # 0
    BY <1>5, <1>6, FS_EmptySet
  <1>9. Entities = [n \in 1..Cardinality(made) |->
                     CHOOSE c \in made : Cardinality({b \in made : Before(b, c)}) = n - 1]
    BY DEF Entities, EntitiesOf, made
  <1>10. Len(Entities) = Cardinality(made)
    BY ONLY <1>7, <1>9
  <1> QED BY <1>7, <1>8, <1>10

\* The cells looked at are in three rows and two columns, cut as they may be.
LEMMA Near ==
  ASSUME NEW x \in Int, NEW y \in Int
  PROVE  \E r \in Int, q \in Int : Covered(x, y) \subseteq {r, r + 1, r + 2} \X {q, q + 1}
  <1> DEFINE px == Cut(x, PX)
             py == Cut(y, PX)
  <1>1. px \in Int /\ py \in Int
    BY DEF Cut, PX
  <1> HIDE DEF px, py
  <1>2. /\ Cut(py, 32) \in Int /\ Cut(py + 63, 32) \in Int /\ Cut(py + 63, 32) <= Cut(py, 32) + 2
        /\ Cut(px, 32) \in Int /\ Cut(px + 31, 32) \in Int /\ Cut(px + 31, 32) <= Cut(px, 32) + 1
    BY <1>1 DEF Cut
  <1>3. /\ Cut(py, 32)..Cut(py + 63, 32) \subseteq {Cut(py, 32), Cut(py, 32) + 1, Cut(py, 32) + 2}
        /\ Cut(px, 32)..Cut(px + 31, 32) \subseteq {Cut(px, 32), Cut(px, 32) + 1}
    BY ONLY <1>2
  <1>4. Covered(x, y) = (Cut(py, 32)..Cut(py + 63, 32)) \X (Cut(px, 32)..Cut(px + 31, 32))
    BY DEF Covered, px, py
  <1> DEFINE r == Cut(py, 32)
             q == Cut(px, 32)
  <1>5. Covered(x, y) \subseteq {r, r + 1, r + 2} \X {q, q + 1}
    BY <1>3, <1>4
  <1>6. r \in Int /\ q \in Int
    BY <1>2
  <1> HIDE DEF r, q
  <1> QED BY <1>5, <1>6

\* Of hits in so few rows and columns one is the first.
LEMMA FirstIn ==
  ASSUME NEW r \in Int, NEW q \in Int, NEW hits, hits # {},
         hits \subseteq {r, r + 1, r + 2} \X {q, q + 1}
  PROVE  First(hits) \in hits
  <1>1. SUFFICES \E c \in hits : \A b \in hits : ~Before(b, c)
    BY DEF First
  <1>2. \A c \in hits : c = <<c[1], c[2]>> /\ c[1] \in {r, r + 1, r + 2} /\ c[2] \in {q, q + 1}
    OBVIOUS
  <1>3. ASSUME NEW i \in {r, r + 1, r + 2}, NEW j \in {q, q + 1}, <<i, j>> \in hits,
               \A b \in hits : b[1] >= i /\ (b[1] = i => b[2] >= j)
        PROVE  \E c \in hits : \A b \in hits : ~Before(b, c)
    <2>1. \A b \in hits : ~Before(b, <<i, j>>)
      BY <1>2, <1>3 DEF Before
    <2> QED BY <1>3, <2>1
  <1>4. ASSUME NEW i \in {r, r + 1, r + 2}, \E c \in hits : c[1] = i, \A b \in hits : b[1] >= i
        PROVE  \E c \in hits : \A b \in hits : ~Before(b, c)
    <2>1. CASE <<i, q>> \in hits
      <3>1. \A b \in hits : b[1] >= i /\ (b[1] = i => b[2] >= q)
        BY <1>2, <1>4
      <3> QED BY <1>3, <2>1, <3>1
    <2>2. CASE <<i, q>> \notin hits
      <3>1. \A b \in hits : b[1] = i => b[2] = q + 1
        BY <1>2, <2>2
      <3>2. <<i, q + 1>> \in hits
        BY <1>2, <1>4, <3>1
      <3>3. \A b \in hits : b[1] >= i /\ (b[1] = i => b[2] >= q + 1)
        BY <1>4, <3>1
      <3> QED BY <1>3, <3>2, <3>3
    <2> QED BY <2>1, <2>2
  <1>5. CASE \E c \in hits : c[1] = r
    BY <1>2, <1>4, <1>5
  <1>6. CASE (~ \E c \in hits : c[1] = r) /\ \E c \in hits : c[1] = r + 1
    <2>1. \A b \in hits : b[1] >= r + 1
      BY <1>2, <1>6
    <2> QED BY <1>4, <1>6, <2>1
  <1>7. CASE ~ \E c \in hits : c[1] \in {r, r + 1}
    <2>1. \A b \in hits : b[1] = r + 2
      BY <1>2, <1>7
    <2> QED BY <1>4, <2>1
  <1> QED BY <1>5, <1>6, <1>7

\* The first of the tiles hit is one of them.
LEMMA FirstHit ==
  ASSUME NEW x \in Int, NEW y \in Int, Hits(x, y) # {}
  PROVE  First(Hits(x, y)) \in Hits(x, y)
  <1>1. PICK r \in Int, q \in Int : Covered(x, y) \subseteq {r, r + 1, r + 2} \X {q, q + 1}
    BY Near
  <1>2. Hits(x, y) \subseteq {r, r + 1, r + 2} \X {q, q + 1}
    BY <1>1 DEF Hits
  <1> QED BY <1>2, FirstIn

\* From three pixels left of the map on, the columns looked at are those that the
\* player overlaps.
LEMMA Columns ==
  ASSUME NEW x \in Int, x % PX = 0, x >= -3 * PX, NEW j \in Nat
  PROVE  j \in Cut(Cut(x, PX), 32)..Cut(Cut(x, PX) + 31, 32)
           <=> x + TILE > j * TILE /\ x < (j + 1) * TILE
  <1>1. PICK a \in Int : x = 20 * a
    BY DEF PX
  <1>2. Cut(x, PX) = a
    BY <1>1 DEF Cut, PX
  <1>3. a >= -3
    BY <1>1 DEF PX
  <1>4. j \in Cut(a, 32)..Cut(a + 31, 32) <=> a + 32 > j * 32 /\ a < (j + 1) * 32
    BY <1>3 DEF Cut
  <1> QED BY <1>1, <1>2, <1>4 DEF TILE, PX

\* From five pixels above the map on, so are the rows.
LEMMA Rows ==
  ASSUME NEW y \in Int, y >= -5 * PX, NEW i \in Nat
  PROVE  i \in Cut(Cut(y, PX), 32)..Cut(Cut(y, PX) + 63, 32)
           <=> y + TALL >= i * TILE + PX /\ y < (i + 1) * TILE
  <1>1. CASE y >= 0
    BY <1>1 DEF Cut, TILE, PX, TALL
  <1>2. CASE y < 0
    <2>1. Cut(y, PX) \in -5..0
      BY <1>2 DEF Cut, PX
    <2>2. /\ Cut(Cut(y, PX), 32) = 0 /\ Cut(Cut(y, PX) + 63, 32) = 1
      BY <2>1 DEF Cut
    <2> QED BY <1>2, <2>2 DEF TILE, PX, TALL
  <1> QED BY <1>1, <1>2

\* There the tiles hit are exactly the tiles that the player overlaps.
LEMMA Exact ==
  ASSUME level \in DOMAIN Layouts,
         NEW x \in Int, x % PX = 0, x >= -3 * PX, NEW y \in Int, y >= -5 * PX
  PROVE  Hits(x, y) = {c \in Cells : Tile(c) # EMPTY /\ Overlaps(x, y, c)}
  <1>1. \A c \in Cells : Tile(c) > 0 <=> Tile(c) # EMPTY
    BY CellFacts DEF EMPTY
  <1>2. \A c \in Cells : c \in Covered(x, y) <=> Overlaps(x, y, c)
    <2> SUFFICES ASSUME NEW c \in Cells PROVE c \in Covered(x, y) <=> Overlaps(x, y, c)
      OBVIOUS
    <2>1. c = <<c[1], c[2]>> /\ c[1] \in Nat /\ c[2] \in Nat
      BY CellFacts
    <2>2. c \in Covered(x, y) <=> /\ c[1] \in Cut(Cut(y, PX), 32)..Cut(Cut(y, PX) + 63, 32)
                                 /\ c[2] \in Cut(Cut(x, PX), 32)..Cut(Cut(x, PX) + 31, 32)
      BY <2>1 DEF Covered
    <2>3. /\ c[1] \in Cut(Cut(y, PX), 32)..Cut(Cut(y, PX) + 63, 32)
               <=> y + TALL >= c[1] * TILE + PX /\ y < (c[1] + 1) * TILE
          /\ c[2] \in Cut(Cut(x, PX), 32)..Cut(Cut(x, PX) + 31, 32)
               <=> x + TILE > c[2] * TILE /\ x < (c[2] + 1) * TILE
      BY <2>1, Rows, Columns
    <2> QED BY <2>2, <2>3 DEF Overlaps
  <1> QED BY <1>1, <1>2 DEF Hits

\* A player that hits something, and no end tile, is stopped by a tile it hits.
LEMMA HitFacts ==
  ASSUME level \in DOMAIN Layouts,
         NEW x \in Int, NEW y \in Int, ~Touches(Hits(x, y), END), Hits(x, y) # {}
  PROVE  Blocks(Hits(x, y)) /\ First(Hits(x, y)) \in Hits(x, y) /\ First(Hits(x, y)) \in Cells
  BY FirstHit DEF Blocks, Touches, Hits

\* The lengths, in twentieths of a pixel.
LEMMA Sizes ==
  /\ PX = 20 /\ TILE = 640 /\ TALL = 1280 /\ PX \div 5 = 4 /\ PX \div 4 = 5
  /\ (-3 * PX) = -60 /\ 3 * PX = 60 /\ (-5 * PX) = -100 /\ 4 * PX = 80
  BY DEF PX, TILE, TALL

\* Overlaps in numbers.
LEMMA OverlapsIs ==
  ASSUME NEW x \in Int, NEW y \in Int, NEW c, c[1] \in Nat, c[2] \in Nat
  PROVE  Overlaps(x, y, c) <=> /\ x + 640 > c[2] * 640 /\ x < c[2] * 640 + 640
                              /\ y + 1260 >= c[1] * 640 /\ y < c[1] * 640 + 640
  <1> DEFINE i == c[1]
             j == c[2]
  <1>1. i \in Nat /\ j \in Nat
    OBVIOUS
  <1>2. Overlaps(x, y, c) <=> /\ x + 640 > j * 640 /\ x < (j + 1) * 640
                             /\ y + 1280 >= i * 640 + 20 /\ y < (i + 1) * 640
    BY Sizes DEF Overlaps
  <1> HIDE DEF i, j
  <1>3. Overlaps(x, y, c) <=> /\ x + 640 > j * 640 /\ x < j * 640 + 640
                             /\ y + 1260 >= i * 640 /\ y < i * 640 + 640
    BY <1>1, <1>2
  <1> QED BY <1>3 DEF i, j

-----------------------------------------------------------------------------
(* One movement                                                            *)

\* To the right: the column reached begins within the movement, and whatever is
\* overlapped beside it was overlapped before.
LEMMA RightEdge ==
  ASSUME NEW x \in Int, NEW x0 \in Int, NEW j \in Int,
         x0 > x, x0 <= x + 60, x0 + 640 > j * 640, x0 < j * 640 + 640,
         ~(x + 640 > j * 640 /\ x < j * 640 + 640)
  PROVE  /\ j * 640 - 640 >= x /\ j * 640 - 640 < x0
         /\ \A m \in Int : j * 640 > m * 640 /\ j * 640 - 640 < m * 640 + 640 =>
                           x + 640 > m * 640 /\ x < m * 640 + 640
  OBVIOUS

\* The same to the left.
LEMMA LeftEdge ==
  ASSUME NEW x \in Int, NEW x0 \in Int, NEW j \in Int,
         x0 < x, x0 >= x - 60, x0 + 640 > j * 640, x0 < j * 640 + 640,
         ~(x + 640 > j * 640 /\ x < j * 640 + 640)
  PROVE  /\ j * 640 + 640 <= x /\ j * 640 + 640 > x0
         /\ \A m \in Int : j * 640 + 640 + 640 > m * 640 /\ j * 640 + 640 < m * 640 + 640 =>
                           x + 640 > m * 640 /\ x < m * 640 + 640
  OBVIOUS
\* The same downwards: the row reached begins within the movement.
LEMMA LowerEdge ==
  ASSUME NEW y \in Int, NEW y0 \in Int, NEW i \in Int,
         y0 > y, y0 <= y + 64, y0 + 1260 >= i * 640, y0 < i * 640 + 640,
         ~(y + 1260 >= i * 640 /\ y < i * 640 + 640)
  PROVE  /\ i * 640 - 1280 > y - 20 /\ i * 640 - 1280 < y0
         /\ \A m \in Int : i * 640 - 1280 + 1260 >= m * 640 /\ i * 640 - 1280 < m * 640 + 640 =>
                           y + 1260 >= m * 640 /\ y < m * 640 + 640
  OBVIOUS
\* The same upwards: it ends there.
LEMMA UpperEdge ==
  ASSUME NEW y \in Int, NEW y0 \in Int, NEW i \in Int,
         y0 <= y, y0 >= y - 96, y0 + 1260 >= i * 640, y0 < i * 640 + 640,
         ~(y + 1260 >= i * 640 /\ y < i * 640 + 640)
  PROVE  /\ i * 640 + 640 <= y /\ i * 640 + 640 > y0
         /\ \A m \in Int : i * 640 + 640 + 1260 >= m * 640 /\ i * 640 + 640 < m * 640 + 640 =>
                           y + 1260 >= m * 640 /\ y < m * 640 + 640
  OBVIOUS

\* A movement to the side: beside the column it reaches.
LEMMA SidewaysFree ==
  ASSUME level \in DOMAIN Layouts,
         NEW x \in Nat, x % PX = 0, NEW y \in Nat, Free(x, y), NEW step \in Steps,
         NEW hits, hits = Hits(x + step * PX, y), ~Touches(hits, END),
         NEW x1, x1 = Sideways(x + step * PX, hits, step)
  PROVE  /\ x1 \in Int /\ x1 - x \in (-3 * PX)..(3 * PX) /\ x1 % PX = 0 /\ x1 >= -3 * PX
         /\ Free(x1, y)
  <1> DEFINE x0 == x + step * PX
             f == First(hits)
  <1>1. /\ x0 \in Int /\ x0 % 20 = 0 /\ x0 >= -60 /\ x0 >= x - 60 /\ x0 <= x + 60
        /\ step > 0 => x0 > x
        /\ step < 0 => x0 < x
        /\ step = 0 => x0 = x
    BY DEF Steps, PX
  <1> HIDE DEF x0
  <1>2. hits = {c \in Cells : Tile(c) # EMPTY /\ Overlaps(x0, y, c)}
    BY <1>1, Exact, Sizes DEF x0
  <1>3. SUFFICES x1 \in Int /\ x1 >= x - 60 /\ x1 <= x + 60 /\ x1 % 20 = 0 /\ Free(x1, y)
    <2> SUFFICES ASSUME x1 \in Int /\ x1 >= x - 60 /\ x1 <= x + 60 /\ x1 % 20 = 0
                 PROVE  x1 - x \in (-60)..60 /\ x1 % 20 = 0 /\ x1 >= -60
      BY Sizes
    <2> QED OBVIOUS
  <1>4. CASE hits = {}
    <2>1. x1 = x0
      BY <1>4 DEF Sideways, Blocks, x0
    <2>2. Free(x0, y)
      BY <1>2, <1>4 DEF Free
    <2> QED BY <1>1, <2>1, <2>2
  <1>5. CASE hits # {}
    <2>1. Blocks(hits) /\ f \in hits /\ f \in Cells
      BY <1>1, <1>5, HitFacts DEF x0
    <2>2. f[1] \in Nat /\ f[2] \in Nat
      BY <2>1, CellFacts
    <2>3. Overlaps(x0, y, f) /\ ~Overlaps(x, y, f)
      BY <1>2, <2>1 DEF Free
    <2>4. step # 0
      BY <1>1, <2>3
    <2>5. x1 = f[2] * TILE + (IF step > 0 THEN -TILE ELSE TILE)
      BY <2>1, <2>4 DEF Sideways
    <2> DEFINE j == f[2]
    <2>6. j \in Int
      BY <2>2
    <2>7. /\ x0 + 640 > j * 640 /\ x0 < j * 640 + 640
          /\ ~(x + 640 > j * 640 /\ x < j * 640 + 640)
      BY <1>1, <2>2, <2>3, OverlapsIs
    <2>8. x1 = IF step > 0 THEN j * 640 - 640 ELSE j * 640 + 640
      BY <2>5, <2>6, Sizes
    <2> HIDE DEF j
    <2>9. x1 \in Int /\ x1 % 20 = 0
      BY <2>6, <2>8
    <2>10. /\ x1 >= x - 60 /\ x1 <= x + 60
           /\ \A m \in Int : x1 + 640 > m * 640 /\ x1 < m * 640 + 640 =>
                             x + 640 > m * 640 /\ x < m * 640 + 640
      <3>1. CASE step > 0
        <4>1. x1 = j * 640 - 640 /\ x0 > x
          BY <1>1, <2>8, <3>1
        <4>2. x1 >= x /\ x1 < x0
          BY <1>1, <2>6, <2>7, <4>1, RightEdge
        <4>3. \A m \in Int : j * 640 > m * 640 /\ j * 640 - 640 < m * 640 + 640 =>
                             x + 640 > m * 640 /\ x < m * 640 + 640
          BY <1>1, <2>6, <2>7, <4>1, RightEdge
        <4>4. x1 + 640 = j * 640
          BY <2>6, <4>1
        <4> QED BY <1>1, <2>9, <4>1, <4>2, <4>3, <4>4
      <3>2. CASE step < 0
        <4>1. x1 = j * 640 + 640 /\ x0 < x
          BY <1>1, <2>8, <3>2
        <4>2. /\ x1 <= x /\ x1 > x0
              /\ \A m \in Int : j * 640 + 640 + 640 > m * 640 /\ j * 640 + 640 < m * 640 + 640 =>
                                x + 640 > m * 640 /\ x < m * 640 + 640
          BY <1>1, <2>6, <2>7, <4>1, LeftEdge
        <4> QED BY <1>1, <2>9, <4>1, <4>2
      <3> QED BY <2>4, <3>1, <3>2 DEF Steps
    <2>11. Free(x1, y)
      <3>1. ASSUME NEW c \in Cells, Overlaps(x1, y, c) PROVE Overlaps(x, y, c)
        <4>1. c[1] \in Nat /\ c[2] \in Nat
          BY CellFacts
        <4>2. /\ x1 + 640 > c[2] * 640 /\ x1 < c[2] * 640 + 640
              /\ y + 1260 >= c[1] * 640 /\ y < c[1] * 640 + 640
          BY <2>9, <3>1, <4>1, OverlapsIs
        <4>3. x + 640 > c[2] * 640 /\ x < c[2] * 640 + 640
          BY <2>10, <4>1, <4>2
        <4> QED BY <4>1, <4>2, <4>3, OverlapsIs
      <3> QED BY <3>1 DEF Free
    <2> QED BY <2>9, <2>10, <2>11
  <1> QED BY <1>4, <1>5

\* An update whose velocity agrees with the direction of the movement, or that
\* meets nothing: the player stops on or below the row it reaches.
LEMMA VerticalFree ==
  ASSUME level \in DOMAIN Layouts,
         NEW x \in Int, x % PX = 0, x >= -3 * PX, NEW y \in Nat, Free(x, y),
         NEW y0 \in Int, y0 >= y - 96, y0 <= y + 64,
         NEW hits, hits = Hits(x, y0), ~Touches(hits, END),
         NEW falling \in BOOLEAN, NEW rising \in BOOLEAN,
         hits # {} => IF falling THEN y0 > y ELSE rising /\ y0 <= y,
         NEW y1, y1 = Vertical(y0, hits, falling, rising)
  PROVE  /\ y1 \in Int /\ y1 - y \in (-5 * PX)..(4 * PX) /\ Free(x, y1)
         /\ hits = {} => y1 = y0
  <1> DEFINE f == First(hits)
  <1>1. hits = {c \in Cells : Tile(c) # EMPTY /\ Overlaps(x, y0, c)}
    BY Exact, Sizes
  <1>2. SUFFICES y1 \in Int /\ y1 >= y - 100 /\ y1 <= y + 80 /\ Free(x, y1) /\ (hits = {} => y1 = y0)
    BY Sizes
  <1>3. CASE hits = {}
    <2>1. y1 = y0
      BY <1>3 DEF Vertical, Blocks
    <2>2. Free(x, y0)
      BY <1>1, <1>3 DEF Free
    <2> QED BY <2>1, <2>2
  <1>4. CASE hits # {}
    <2>1. Blocks(hits) /\ f \in hits /\ f \in Cells
      BY <1>4, HitFacts
    <2>2. f[1] \in Nat /\ f[2] \in Nat
      BY <2>1, CellFacts
    <2>3. Overlaps(x, y0, f) /\ ~Overlaps(x, y, f)
      BY <1>1, <2>1 DEF Free
    <2>4. y1 = f[1] * TILE + (IF falling THEN -TALL ELSE TILE)
      BY <1>4, <2>1 DEF Vertical
    <2> DEFINE i == f[1]
    <2>5. i \in Int
      BY <2>2
    <2>6. /\ y0 + 1260 >= i * 640 /\ y0 < i * 640 + 640
          /\ ~(y + 1260 >= i * 640 /\ y < i * 640 + 640)
      BY <2>2, <2>3, OverlapsIs
    <2>7. y1 = IF falling THEN i * 640 - 1280 ELSE i * 640 + 640
      BY <2>4, <2>5, Sizes
    <2> HIDE DEF i
    <2>8. y1 \in Int
      BY <2>5, <2>7
    <2>9. /\ y1 >= y - 100 /\ y1 <= y + 80
          /\ \A m \in Int : y1 + 1260 >= m * 640 /\ y1 < m * 640 + 640 =>
                            y + 1260 >= m * 640 /\ y < m * 640 + 640
      <3>1. CASE falling
        <4>1. y1 = i * 640 - 1280 /\ y0 > y
          BY <1>4, <2>7, <3>1
        <4>2. /\ y1 > y - 20 /\ y1 < y0
              /\ \A m \in Int : i * 640 - 1280 + 1260 >= m * 640 /\ i * 640 - 1280 < m * 640 + 640 =>
                                y + 1260 >= m * 640 /\ y < m * 640 + 640
          BY <2>5, <2>6, <4>1, LowerEdge
        <4> QED BY <2>8, <4>1, <4>2
      <3>2. CASE ~falling
        <4>1. y1 = i * 640 + 640 /\ y0 <= y
          BY <1>4, <2>7, <3>2
        <4>2. /\ y1 <= y /\ y1 > y0
              /\ \A m \in Int : i * 640 + 640 + 1260 >= m * 640 /\ i * 640 + 640 < m * 640 + 640 =>
                                y + 1260 >= m * 640 /\ y < m * 640 + 640
          BY <2>5, <2>6, <4>1, UpperEdge
        <4> QED BY <2>8, <4>1, <4>2
      <3> QED BY <3>1, <3>2
    <2>10. Free(x, y1)
      <3>1. ASSUME NEW c \in Cells, Overlaps(x, y1, c) PROVE Overlaps(x, y, c)
        <4>1. c[1] \in Nat /\ c[2] \in Nat
          BY CellFacts
        <4> QED BY <2>8, <2>9, <3>1, <4>1, OverlapsIs
      <3> QED BY <3>1 DEF Free
    <2> QED BY <1>4, <2>8, <2>9, <2>10
  <1> QED BY <1>3, <1>4

\* Near the top of a jump the player already moves down while its velocity says
\* up: it meets nothing there, since its feet stay within a row.
LEMMA TopOfJump ==
  ASSUME level \in DOMAIN Layouts,
         NEW x \in Int, x % PX = 0, x >= -3 * PX, NEW y \in Nat, Free(x, y),
         NEW y0 \in Int, y0 > y,
         NEW i \in Int, y + 1260 >= i * 640, y0 + 1260 < i * 640 + 640
  PROVE  Hits(x, y0) = {}
  <1>1. Hits(x, y0) = {c \in Cells : Tile(c) # EMPTY /\ Overlaps(x, y0, c)}
    BY Exact, Sizes
  <1>2. ASSUME NEW c \in Cells, Overlaps(x, y0, c) PROVE Overlaps(x, y, c)
    <2>1. c[1] \in Nat /\ c[2] \in Nat
      BY CellFacts
    <2>2. /\ x + 640 > c[2] * 640 /\ x < c[2] * 640 + 640
          /\ y0 + 1260 >= c[1] * 640 /\ y0 < c[1] * 640 + 640
      BY <1>2, <2>1, OverlapsIs
    <2> DEFINE m == c[1]
    <2>3. m \in Int /\ y0 + 1260 >= m * 640 /\ y0 < m * 640 + 640
      BY <2>1, <2>2
    <2> HIDE DEF m
    <2>4. y + 1260 >= m * 640 /\ y < m * 640 + 640
      BY <2>3
    <2> QED BY <2>1, <2>2, <2>4, OverlapsIs DEF m
  <1> QED BY <1>1, <1>2 DEF Free

-----------------------------------------------------------------------------
(* One update of the player                                                *)

\* The velocity after gravity: without a jump it points down, and a jump's is
\* summed up by steps of 4.
LEMMA Speed ==
  ASSUME TypeOK, MotionInv, NEW jumps \in {FALSE, on_ground},
         NEW v, v = Gravity(IF jumps THEN velocity_y - JumpSpeed ELSE velocity_y, jumping \/ jumps)
  PROVE  /\ v \in -116..44
         /\ ~(jumping \/ jumps) => v > 0
         /\ jumps => v = -116
         /\ ~jumps /\ v <= 0 => velocity_y = v - 4
  <1>1. /\ velocity_y \in -120..44 /\ jumping \in BOOLEAN /\ jumps \in BOOLEAN
        /\ jumps => velocity_y = 0 /\ ~jumping
        /\ ~jumping => velocity_y >= 0
    <2>1. (-6 * PX) = -120 /\ 2 * PX + PX \div 5 = 44
      BY DEF PX
    <2>2. velocity_y \in -120..44 /\ jumping \in BOOLEAN /\ on_ground \in BOOLEAN
      BY <2>1 DEF TypeOK
    <2>3. jumps = FALSE \/ jumps = on_ground
      OBVIOUS
    <2>4. jumps \in BOOLEAN /\ (jumps => on_ground)
      <3>1. CASE jumps = FALSE
        BY <3>1
      <3>2. CASE jumps = on_ground
        <4>1. on_ground \in BOOLEAN BY <2>2
        <4> QED BY ONLY <3>2, <4>1, Zenon
      <3> QED BY <2>3, <3>1, <3>2, Zenon
    <2> QED BY <2>2, <2>4 DEF MotionInv
  <1>2. CASE jumps
    BY <1>1, <1>2 DEF Gravity, JumpSpeed, PX
  <1>3. CASE ~jumps
    <2>1. v = IF velocity_y < 40 \/ (velocity_y = 40 /\ jumping) THEN velocity_y + 4 ELSE velocity_y
      BY <1>3 DEF Gravity, PX
    <2> QED BY <1>1, <1>3, <2>1
  <1> QED BY <1>1, <1>2, <1>3

\* Wherever the player is, a tile it hits puts it on the grid.
LEMMA SidewaysTyped ==
  ASSUME level \in DOMAIN Layouts, NEW x \in Int, x % PX = 0, NEW y \in Int, NEW step \in Steps
  PROVE  /\ Sideways(x, Hits(x, y), step) \in Int
         /\ Sideways(x, Hits(x, y), step) % PX = 0
  <1>1. CASE step = 0 \/ ~Blocks(Hits(x, y))
    BY <1>1 DEF Sideways
  <1>2. CASE step # 0 /\ Blocks(Hits(x, y))
    <2>1. First(Hits(x, y)) \in Cells
      BY <1>2, FirstHit DEF Blocks, Hits
    <2> DEFINE j == First(Hits(x, y))[2]
    <2>2. j \in Nat
      BY <2>1, CellFacts
    <2>3. Sideways(x, Hits(x, y), step) = j * 640 + (IF step > 0 THEN -640 ELSE 640)
      BY <1>2, Sizes DEF Sideways
    <2> HIDE DEF j
    <2> QED BY <2>2, <2>3, Sizes
  <1> QED BY <1>1, <1>2

\* The same of a movement up or down.
LEMMA VerticalTyped ==
  ASSUME level \in DOMAIN Layouts, NEW x \in Int, NEW y \in Int,
         NEW falling \in BOOLEAN, NEW rising \in BOOLEAN
  PROVE  /\ Vertical(y, Hits(x, y), falling, rising) \in Int
         /\ falling /\ Blocks(Hits(x, y)) =>
              /\ Vertical(y, Hits(x, y), falling, rising) = First(Hits(x, y))[1] * 640 - 1280
              /\ Vertical(y, Hits(x, y), falling, rising) % TILE = 0
  <1>1. CASE ~(falling \/ rising) \/ ~Blocks(Hits(x, y))
    BY <1>1 DEF Vertical
  <1>2. CASE (falling \/ rising) /\ Blocks(Hits(x, y))
    <2>1. First(Hits(x, y)) \in Cells
      BY <1>2, FirstHit DEF Blocks, Hits
    <2> DEFINE i == First(Hits(x, y))[1]
    <2>2. i \in Nat
      BY <2>1, CellFacts
    <2>3. Vertical(y, Hits(x, y), falling, rising) = i * 640 + (IF falling THEN -1280 ELSE 640)
      BY <1>2, Sizes DEF Vertical
    <2> HIDE DEF i
    <2>4. /\ Vertical(y, Hits(x, y), falling, rising) \in Int
          /\ falling => /\ Vertical(y, Hits(x, y), falling, rising) = i * 640 - 1280
                        /\ Vertical(y, Hits(x, y), falling, rising) % 640 = 0
      BY <2>2, <2>3
    <2> QED BY <2>4, Sizes DEF i
  <1> QED BY <1>1, <1>2

\* The frames of a jump: from the 26th to the 30th the player moves down, and its
\* feet stay within the row they are in.
LEMMA Frames ==
  ASSUME NEW n \in 1..30, NEW floor \in Int, NEW v \in Int, NEW y \in Int, v > -20, v <= 0,
         4 * n - 120 = v - 4, y = floor * 640 + 2 * n * n - 98 * n
  PROVE  y + 1260 >= floor * 640 /\ y + v + 20 + 1260 < floor * 640 + 640
  <1>1. n \in 25..29
    OBVIOUS
  <1>2. CASE n = 25
    BY <1>2
  <1>3. CASE n = 26
    BY <1>3
  <1>4. CASE n = 27
    BY <1>4
  <1>5. CASE n = 28
    BY <1>5
  <1>6. CASE n = 29
    BY <1>6
  <1> QED BY <1>1, <1>2, <1>3, <1>4, <1>5, <1>6

\* The next frame of a jump.
LEMMA NextFrame ==
  ASSUME NEW n \in 1..30, NEW floor \in Int, NEW v \in Int, NEW y \in Int, v <= 0,
         4 * n - 120 = v - 4, y = floor * 640 + 2 * n * n - 98 * n
  PROVE  /\ n + 1 \in 1..30 /\ 4 * (n + 1) - 120 = v
         /\ y + v + 20 = floor * 640 + 2 * (n + 1) * (n + 1) - 98 * (n + 1)
  <1>1. 2 * (n + 1) * (n + 1) = 2 * n * n + 4 * n + 2
    OBVIOUS
  <1> QED BY <1>1

\* Nothing is hit where the velocity's sign and the movement's disagree.
LEMMA Agree ==
  ASSUME Inv, ~astray, NEW x \in Int, x % PX = 0, x >= -3 * PX, Free(x, pos_y),
         NEW jumps \in {FALSE, on_ground},
         NEW v, v = Gravity(IF jumps THEN velocity_y - JumpSpeed ELSE velocity_y, jumping \/ jumps),
         Hits(x, pos_y + v + PX) # {}
  PROVE  v > 0 \/ (v <= -20 /\ (jumping \/ jumps))
  <1>1. /\ v \in -116..44
        /\ ~(jumping \/ jumps) => v > 0
        /\ jumps => v = -116
        /\ ~jumps /\ v <= 0 => velocity_y = v - 4
    BY Speed DEF Inv
  <1>2. pos_y \in Nat
    BY DEF Inv, TypeOK, GridInv, OffMap
  <1>3. ASSUME v > -20, v <= 0 PROVE FALSE
    <2>1. ~jumps /\ jumping /\ velocity_y = v - 4
      BY <1>1, <1>3
    <2>2. PICK n \in 1..30, floor \in Int : InJump(n, floor)
      BY <1>1, <1>3, <2>1 DEF Inv, JumpInv
    <2>3. pos_y + 1260 >= floor * 640 /\ pos_y + v + 20 + 1260 < floor * 640 + 640
      <3>1. v \in Int /\ v > -20 /\ v <= 0 /\ velocity_y = v - 4
        BY <1>1, <1>3, <2>1
      <3>2. 4 * n - 120 = v - 4 /\ pos_y = floor * 640 + 2 * n * n - 98 * n
        BY <2>2, <3>1, Sizes DEF InJump, JumpSpeed, PX
      <3> QED BY <1>2, <3>1, <3>2, Frames
    <2>4. pos_y + v + PX \in Int /\ pos_y + v + PX > pos_y /\ pos_y + v + PX + 1260 < floor * 640 + 640
      BY <1>1, <1>2, <1>3, <2>3, Sizes
    <2> HIDE DEF Inv
    <2>5. level \in DOMAIN Layouts
      BY DEF Inv, PlaceInv
    <2> QED BY <1>2, <2>3, <2>4, <2>5, TopOfJump
  <1> QED BY <1>1, <1>3

\* A player that is not astray is moved at most as far as it wants to go, and only
\* to where it is free.
LEMMA MoveFree ==
  ASSUME Inv, ~astray, NEW step \in Steps, NEW jumps \in {FALSE, on_ground},
         UpdatePlayer(step, jumps), ~stopped'
  PROVE  /\ Free(pos_x', pos_y')
         /\ pos_x' - pos_x \in (-3 * PX)..(3 * PX)
         /\ pos_y' - pos_y \in (-5 * PX)..(4 * PX)
  <1> DEFINE jumped  == jumping \/ jumps
             v       == Gravity(IF jumps THEN velocity_y - JumpSpeed ELSE velocity_y, jumped)
             falling == v > 0
             rising  == v < 0 \/ (v = 0 /\ jumped)
             x0      == pos_x + step * PX
             beside  == Hits(x0, pos_y)
             x1      == Sideways(x0, beside, step)
             y0      == pos_y + v + PX
             above_below == Hits(x1, y0)
             y1      == Vertical(y0, above_below, falling, rising)
  <1>1. /\ pos_x' = x1 /\ pos_y' = y1
        /\ ~stopped /\ ~Touches(beside, END) /\ ~Touches(above_below, END)
    BY DEF UpdatePlayer
  <1>2. /\ level \in DOMAIN Layouts /\ pos_x \in Nat /\ pos_y \in Nat /\ pos_x % PX = 0
        /\ Free(pos_x, pos_y)
    BY <1>1 DEF Inv, PlaceInv, TypeOK, GridInv, FreeInv, OffMap
  <1>3. /\ x1 \in Int /\ x1 - pos_x \in (-3 * PX)..(3 * PX) /\ x1 % PX = 0 /\ x1 >= -3 * PX
        /\ Free(x1, pos_y)
    BY <1>1, <1>2, SidewaysFree
  <1>4. /\ v \in -116..44
        /\ ~jumped => v > 0
    BY Speed DEF Inv
  <1>5. y0 \in Int /\ y0 >= pos_y - 96 /\ y0 <= pos_y + 64 /\ (v > 0 => y0 > pos_y)
          /\ (v <= -20 => y0 <= pos_y)
    BY <1>2, <1>4, Sizes
  <1>6. above_below # {} => v > 0 \/ (v <= -20 /\ jumped)
    BY <1>3, Agree
  <1>7. above_below # {} => IF falling THEN y0 > pos_y ELSE rising /\ y0 <= pos_y
    BY <1>4, <1>5, <1>6
  <1>8. falling \in BOOLEAN /\ rising \in BOOLEAN
    OBVIOUS
  <1> HIDE DEF x1, y0, falling, rising
  <1>9. /\ y1 \in Int /\ y1 - pos_y \in (-5 * PX)..(4 * PX) /\ Free(x1, y1)
    BY <1>1, <1>2, <1>3, <1>5, <1>7, <1>8, VerticalFree
  <1> QED BY <1>1, <1>3, <1>9

\* What an update of the player does wherever the player is.
LEMMA MoveTyped ==
  ASSUME Inv, NEW step \in Steps, NEW jumps \in {FALSE, on_ground}, UpdatePlayer(step, jumps)
  PROVE  /\ pos_x' \in Int /\ pos_x' % PX = 0 /\ pos_y' \in Int
         /\ velocity_y' \in -116..44 /\ jumping' \in BOOLEAN /\ on_ground' \in BOOLEAN
         /\ on_ground' => /\ velocity_y' = 0 /\ ~jumping' /\ pos_y' % TILE = 0
                          /\ pos_x' >= 0 => Inside(pos_x', pos_y' + PX)
         /\ ~jumping' => velocity_y' >= 0
         /\ jumping' /\ velocity_y' <= 0 =>
              /\ pos_y' = pos_y + velocity_y' + PX
              /\ IF jumps THEN velocity_y' = -116 /\ on_ground
                 ELSE jumping /\ velocity_y = velocity_y' - 4
  <1> DEFINE jumped  == jumping \/ jumps
             v       == Gravity(IF jumps THEN velocity_y - JumpSpeed ELSE velocity_y, jumped)
             falling == v > 0
             rising  == v < 0 \/ (v = 0 /\ jumped)
             x0      == pos_x + step * PX
             x1      == Sideways(x0, Hits(x0, pos_y), step)
             y0      == pos_y + v + PX
             hits    == Hits(x1, y0)
             y1      == Vertical(y0, hits, falling, rising)
             hit     == (falling \/ rising) /\ Blocks(hits)
             f       == First(hits)
  <1>1. /\ pos_x' = x1 /\ pos_y' = y1 /\ velocity_y' = IF hit THEN 0 ELSE v
        /\ jumping' = (jumped /\ ~hit)
        /\ on_ground' = IF hit THEN falling ELSE KeepsGround(jumps, falling)
    BY DEF UpdatePlayer
  <1>2. /\ level \in DOMAIN Layouts /\ pos_x \in Int /\ pos_y \in Int /\ pos_x % PX = 0
        /\ jumping \in BOOLEAN /\ on_ground \in BOOLEAN
        /\ on_ground => velocity_y = 0 /\ ~jumping
    BY DEF Inv, PlaceInv, TypeOK, GridInv, MotionInv
  <1>3. /\ v \in -116..44
        /\ ~jumped => v > 0
        /\ jumps => v = -116
        /\ ~jumps /\ v <= 0 => velocity_y = v - 4
    BY Speed DEF Inv
  <1>4. jumps => on_ground
    BY <1>2, Zenon
  <1>5. x0 \in Int /\ x0 % PX = 0
    BY <1>2 DEF Steps, PX
  <1>6. x1 \in Int /\ x1 % PX = 0
    BY <1>2, <1>5, SidewaysTyped
  <1>7. falling \in BOOLEAN /\ rising \in BOOLEAN /\ y0 \in Int
    BY <1>2, <1>3, Sizes
  <1>8. ~KeepsGround(jumps, falling)
    BY <1>2, <1>3 DEF KeepsGround
  <1> HIDE DEF v, x1, y0, falling, rising
  <1>9. /\ y1 \in Int
        /\ falling /\ Blocks(hits) => y1 = f[1] * 640 - 1280 /\ y1 % TILE = 0
    BY <1>2, <1>6, <1>7, VerticalTyped
  <1>10. ASSUME falling, Blocks(hits), x1 >= 0 PROVE Inside(x1, y1 + PX)
    <2>1. f \in hits
      BY <1>6, <1>7, <1>10, FirstHit DEF Blocks
    <2>2. f \in Cells /\ f \in Covered(x1, y0) /\ Tile(f) > 0 /\ Tile(f) # END
      BY <1>10, <2>1 DEF Hits, Blocks
    <2>3. f[1] \in Nat /\ f[2] \in Nat
      BY <1>2, <2>2, CellFacts
    <2>4. f[2] \in Cut(Cut(x1, PX), 32)..Cut(Cut(x1, PX) + 31, 32)
      BY <2>2 DEF Covered
    <2>5. x1 >= -3 * PX
      BY <1>6, <1>10, Sizes
    <2>6. x1 + TILE > f[2] * TILE /\ x1 < (f[2] + 1) * TILE
      BY <1>6, <2>3, <2>4, <2>5, Columns
    <2>7. y1 = f[1] * 640 - 1280
      BY <1>9, <1>10
    <2>8. y1 + PX + TALL >= f[1] * TILE + PX /\ y1 + PX < (f[1] + 1) * TILE
      <3> DEFINE i == f[1]
      <3>1. i \in Nat /\ y1 = i * 640 - 1280
        BY <2>3, <2>7
      <3> HIDE DEF i, y1
      <3>2. y1 + PX + TALL >= i * TILE + PX /\ y1 + PX < (i + 1) * TILE
        BY <3>1, Sizes
      <3> QED BY <3>2 DEF i
    <2>9. Overlaps(x1, y1 + PX, f)
      BY <2>6, <2>8 DEF Overlaps
    <2>10. Tile(f) \notin {EMPTY, END}
      BY <2>2 DEF EMPTY
    <2> QED BY <2>2, <2>9, <2>10 DEF Inside
  <1>11. on_ground' => hit /\ falling
    BY <1>1, <1>8
  <1>12. ~hit => y1 = y0
    BY DEF Vertical
  <1> HIDE DEF y1, hits, f, hit, jumped
  <1>13. pos_x' \in Int /\ pos_x' % PX = 0 /\ pos_y' \in Int
    BY <1>1, <1>6, <1>9
  <1>14. velocity_y' \in -116..44 /\ jumping' \in BOOLEAN
    BY <1>1, <1>3
  <1>15. on_ground' \in BOOLEAN
    BY <1>1, <1>7, <1>8 DEF KeepsGround
  <1>16. on_ground' => /\ velocity_y' = 0 /\ ~jumping' /\ pos_y' % TILE = 0
                       /\ pos_x' >= 0 => Inside(pos_x', pos_y' + PX)
    <2> SUFFICES ASSUME on_ground' PROVE /\ velocity_y' = 0 /\ ~jumping' /\ pos_y' % TILE = 0
                                         /\ pos_x' >= 0 => Inside(pos_x', pos_y' + PX)
      OBVIOUS
    <2>1. hit /\ falling /\ Blocks(hits)
      BY <1>11 DEF hit
    <2> QED BY <1>1, <1>9, <1>10, <2>1
  <1>17. ~jumping' => velocity_y' >= 0
    <2>1. CASE hit
      BY <1>1, <2>1
    <2>2. CASE ~hit
      <3>1. velocity_y' = v /\ (jumping' <=> jumped)
        BY <1>1, <2>2
      <3> QED BY <1>3, <3>1
    <2> QED BY <2>1, <2>2
  <1>18. jumping' /\ velocity_y' <= 0 =>
              /\ pos_y' = pos_y + velocity_y' + PX
              /\ IF jumps THEN velocity_y' = -116 /\ on_ground
                 ELSE jumping /\ velocity_y = velocity_y' - 4
    BY <1>1, <1>3, <1>4, <1>12 DEF jumped, y0
  <1> QED BY <1>13, <1>14, <1>15, <1>16, <1>17, <1>18

-----------------------------------------------------------------------------
(* The invariant                                                           *)

\* The tiles and the entities are the level's.
LEMMA SameLevel ==
  ASSUME level' = level
  PROVE  /\ Cells' = Cells /\ Entities' = Entities /\ \A c : Id(c)' = Id(c)
         /\ Free(pos_x, pos_y)' <=> Free(pos_x', pos_y')
         /\ Inside(pos_x, pos_y + PX)' <=> Inside(pos_x', pos_y' + PX)
  <1>1. Cells' = Cells /\ Entities' = Entities /\ \A c : Tile(c)' = Tile(c)
    BY DEF Cells, Entities, Tile, Id
  <1> QED BY <1>1 DEF Free, Inside, Overlaps, PX, Id

\* The turns go round among the entities.
LEMMA NextTurn ==
  ASSUME level \in DOMAIN Layouts, NEW n \in 1..Len(Entities)
  PROVE  (n % Len(Entities)) + 1 \in 1..Len(Entities)
  <1> DEFINE L == Len(Entities)
  <1>1. L \in Nat /\ L >= 1
    BY SomeEntity
  <1> HIDE DEF L
  <1>2. n % L \in 0..(L - 1)
    BY <1>1
  <1>3. (n % L) + 1 \in 1..L
    BY <1>1, <1>2
  <1> QED BY <1>3 DEF L

\* The invariant holds at first: a player that starts in a tile is astray.
LEMMA Initially == Init => Inv
  <1> SUFFICES ASSUME Init PROVE Inv
    OBVIOUS
  <1>1. level \in DOMAIN Layouts
    BY DEF Init
  <1>2. Start \in Cells
    <2>1. \E start \in Cells : \A c \in Cells : Id(c) = PLAYER <=> c = start
      BY <1>1, LayoutAssumption DEF Cells, Id
    <2> QED BY <2>1 DEF Start
  <1>3. Start[1] \in Nat /\ Start[2] \in Nat
    BY <1>1, <1>2, CellFacts
  <1> DEFINE i == Start[1]
             j == Start[2]
  <1>4. i \in Nat /\ j \in Nat /\ pos_x = j * 640 /\ pos_y = i * 640
    BY <1>3, Sizes DEF Init
  <1> HIDE DEF i, j
  <1>5. pos_x \in Nat /\ pos_y \in Nat /\ pos_x % PX = 0
    BY <1>4, Sizes
  <1>6. PlaceInv
    BY DEF Init, PlaceInv
  <1>7. \A d \in DOMAIN door_y : /\ door_y[d] % 5 = 0
                                /\ door_y[d] \in ((d[1] - 1) * TILE)..(d[1] * TILE)
    <2> SUFFICES ASSUME NEW d \in DOMAIN door_y
                 PROVE  /\ door_y[d] % 5 = 0
                        /\ door_y[d] \in ((d[1] - 1) * TILE)..(d[1] * TILE)
      OBVIOUS
    <2>1. d[1] \in Nat
      BY <1>6, CellFacts DEF PlaceInv
    <2>2. door_y[d] = d[1] * 640
      BY Sizes DEF Init
    <2> DEFINE r == d[1]
    <2>3. r \in Nat /\ door_y[d] = r * 640
      BY <2>1, <2>2
    <2> HIDE DEF r
    <2>4. door_y[d] % 5 = 0 /\ door_y[d] \in ((r - 1) * TILE)..(r * TILE)
      BY <2>3, Sizes
    <2> QED BY <2>4 DEF r
  <1>8. turn \in 1..Len(Entities)
    BY <1>1, SomeEntity DEF Init
  <1>9. TypeOK
    <2>1. velocity_y \in (-6 * PX)..(2 * PX + PX \div 5)
      BY DEF Init, PX
    <2>2. jumping \in BOOLEAN /\ on_ground \in BOOLEAN /\ stopped \in BOOLEAN
      BY DEF Init
    <2>3. astray \in BOOLEAN
      BY DEF Init
    <2>4. is_open \in [DOMAIN door_y -> BOOLEAN]
      BY DEF Init
    <2> QED BY <1>5, <1>7, <1>8, <2>1, <2>2, <2>3, <2>4 DEF TypeOK
  <1>10. MotionInv /\ JumpInv /\ JumpNeedsGround
    BY DEF Init, MotionInv, JumpInv, JumpNeedsGround
  <1>11. GridInv /\ FreeInv
    <2>1. ~on_ground /\ (~astray => Free(pos_x, pos_y))
      BY DEF Init
    <2> QED BY <1>5, <2>1 DEF GridInv, FreeInv, OffMap
  <1> QED BY <1>6, <1>7, <1>9, <1>10, <1>11 DEF Inv, DoorsInv

\* An update of the player keeps the invariant.
LEMMA PlayerStep ==
  ASSUME Inv, turn' = (turn % Len(Entities)) + 1,
         NEW step \in Steps, NEW jumps \in {FALSE, on_ground}, UpdatePlayer(step, jumps)
  PROVE  Inv'
  <1>1. UNCHANGED <<level, door_y, is_open>> /\ level \in DOMAIN Layouts
    BY DEF UpdatePlayer, Inv, PlaceInv
  <1>2. /\ Cells' = Cells /\ Entities' = Entities /\ \A c : Id(c)' = Id(c)
        /\ Free(pos_x, pos_y)' <=> Free(pos_x', pos_y')
        /\ Inside(pos_x, pos_y + PX)' <=> Inside(pos_x', pos_y' + PX)
    BY <1>1, SameLevel
  <1>3. /\ pos_x' \in Int /\ pos_x' % PX = 0 /\ pos_y' \in Int
        /\ velocity_y' \in -116..44 /\ jumping' \in BOOLEAN /\ on_ground' \in BOOLEAN
        /\ on_ground' => /\ velocity_y' = 0 /\ ~jumping' /\ pos_y' % TILE = 0
                         /\ pos_x' >= 0 => Inside(pos_x', pos_y' + PX)
        /\ ~jumping' => velocity_y' >= 0
        /\ jumping' /\ velocity_y' <= 0 =>
             /\ pos_y' = pos_y + velocity_y' + PX
             /\ IF jumps THEN velocity_y' = -116 /\ on_ground
                ELSE jumping /\ velocity_y = velocity_y' - 4
    BY MoveTyped
  <1>4. /\ astray' = IF OffMap(pos_x', pos_y') THEN TRUE
                     ELSE astray /\ ~(on_ground' /\ Free(pos_x', pos_y'))
        /\ stopped' \in BOOLEAN /\ (stopped => stopped')
    BY DEF UpdatePlayer, Inv, TypeOK
  <1>5. PlaceInv' /\ DoorsInv'
    BY <1>1, <1>2 DEF Inv, PlaceInv, DoorsInv
  <1>6. MotionInv'
    BY <1>3 DEF MotionInv
  <1>7. ~astray' => ~OffMap(pos_x', pos_y') /\ (~astray \/ (on_ground' /\ Free(pos_x', pos_y')))
    BY <1>4
  <1>8. GridInv'
    BY <1>3, <1>7 DEF GridInv, OffMap
  <1>9. FreeInv'
    BY <1>2, <1>7, MoveFree DEF FreeInv
  <1>10. JumpNeedsGround'
    BY <1>2, <1>3, <1>7 DEF JumpNeedsGround, OffMap
  <1>11. JumpInv'
    <2> SUFFICES ASSUME ~astray', jumping', velocity_y' <= 0
                 PROVE  \E n \in 1..30 : \E floor \in Int : InJump(n, floor)'
      BY DEF JumpInv
    <2>1. ~astray
      BY <1>3, <1>7
    <2>2. pos_y \in Int /\ velocity_y \in Int /\ (on_ground => pos_y % 640 = 0)
      BY <2>1, Sizes DEF Inv, TypeOK, GridInv
    <2>3. CASE jumps
      <3>1. pos_y' = pos_y - 96 /\ velocity_y' = -116 /\ pos_y % 640 = 0
        BY <1>3, <2>2, <2>3, Sizes
      <3>2. PICK floor \in Int : pos_y = floor * 640
        BY <2>2, <3>1
      <3>3. InJump(1, floor)'
        BY <3>1, <3>2, Sizes DEF InJump, JumpSpeed, PX
      <3> QED BY <3>3
    <2>4. CASE ~jumps
      <3>1. jumping /\ velocity_y = velocity_y' - 4 /\ pos_y' = pos_y + velocity_y' + 20
        BY <1>3, <2>4, Sizes
      <3>2. PICK n \in 1..30, floor \in Int : InJump(n, floor)
        <4>1. velocity_y <= 0
          <5> DEFINE w == velocity_y'
          <5>1. w \in -116..44 /\ w <= 0 /\ velocity_y = w - 4
            BY <1>3, <3>1
          <5> HIDE DEF w
          <5> QED BY ONLY <5>1
        <4> QED BY <2>1, <3>1, <4>1 DEF Inv, JumpInv
      <3>3. 4 * n - 120 = velocity_y' - 4 /\ pos_y = floor * 640 + 2 * n * n - 98 * n
        BY <3>1, <3>2, Sizes DEF InJump, JumpSpeed, PX
      <3>4. velocity_y' \in Int
        BY <1>3
      <3>5. /\ n + 1 \in 1..30 /\ 4 * (n + 1) - 120 = velocity_y'
            /\ pos_y' = floor * 640 + 2 * (n + 1) * (n + 1) - 98 * (n + 1)
        <4> DEFINE w == velocity_y'
        <4>1. w \in Int /\ w <= 0 /\ 4 * n - 120 = w - 4 /\ pos_y' = pos_y + w + 20
          BY <3>1, <3>3, <3>4
        <4> HIDE DEF w
        <4>2. /\ n + 1 \in 1..30 /\ 4 * (n + 1) - 120 = w
              /\ pos_y + w + 20 = floor * 640 + 2 * (n + 1) * (n + 1) - 98 * (n + 1)
          BY <2>2, <3>3, <4>1, NextFrame
        <4> QED BY <4>1, <4>2 DEF w
      <3>6. InJump(n + 1, floor)'
        BY <3>5, Sizes DEF InJump, JumpSpeed, PX
      <3> QED BY <3>5, <3>6
    <2> QED BY <2>3, <2>4
  <1>12. TypeOK'
    <2>1. turn' \in 1..Len(Entities)
      BY <1>1, NextTurn DEF Inv, TypeOK
    <2>2. astray' \in BOOLEAN
      BY <1>4
    <2>3. velocity_y' \in (-6 * PX)..(2 * PX + PX \div 5)
      BY <1>3 DEF PX
    <2> QED BY <1>1, <1>2, <1>3, <1>4, <2>1, <2>2, <2>3 DEF Inv, TypeOK
  <1> QED BY <1>5, <1>6, <1>8, <1>9, <1>10, <1>11, <1>12 DEF Inv

\* So does an update of a door, which leads the player astray if it touches it.
LEMMA DoorStep ==
  ASSUME Inv, turn' = (turn % Len(Entities)) + 1, NEW d \in DOMAIN door_y, UpdateDoor(d)
  PROVE  /\ Inv'
         /\ ~astray' => ~astray /\ UNCHANGED <<pos_x, pos_y>>
  <1> DEFINE top == IF is_open[d] /\ door_y[d] > d[1] * TILE - TILE
                    THEN door_y[d] - PX \div 4 ELSE door_y[d]
             side == d[2] * TILE
  <1>1. UNCHANGED <<level, is_open, stopped>> /\ level \in DOMAIN Layouts
    BY DEF UpdateDoor, Inv, PlaceInv
  <1>2. /\ Cells' = Cells /\ Entities' = Entities /\ \A c : Id(c)' = Id(c)
        /\ Free(pos_x, pos_y)' <=> Free(pos_x', pos_y')
        /\ Inside(pos_x, pos_y + PX)' <=> Inside(pos_x', pos_y' + PX)
    BY <1>1, SameLevel
  <1>3. d[1] \in Nat /\ d[2] \in Nat
    BY CellFacts DEF Inv, PlaceInv
  <1>4. door_y' = [door_y EXCEPT ![d] = top]
    BY DEF UpdateDoor
  <1>5. door_y[d] % 5 = 0 /\ door_y[d] \in ((d[1] - 1) * TILE)..(d[1] * TILE)
    BY DEF Inv, TypeOK, DoorsInv
  <1>6. top \in Int /\ top % 5 = 0 /\ top \in ((d[1] - 1) * TILE)..(d[1] * TILE)
    <2> DEFINE r == d[1]
               h == door_y[d]
    <2>1. r \in Nat /\ h % 5 = 0 /\ h \in ((r - 1) * 640)..(r * 640)
      BY <1>3, <1>5, Sizes
    <2>2. top = h \/ (h > r * 640 - 640 /\ top = h - 5)
      BY Sizes
    <2> HIDE DEF top, r, h
    <2>3. top \in Int /\ top % 5 = 0 /\ top >= (r - 1) * 640 /\ top <= r * 640
      BY <2>1, <2>2
    <2> QED BY <2>1, <2>3, Sizes DEF r
  <1>7. side \in Int /\ side % 20 = 0 /\ (side - TILE) % 20 = 0 /\ (side + TILE) % 20 = 0
          /\ side - TILE \in Int /\ side + TILE \in Int
    <2> DEFINE j == d[2]
    <2>1. j \in Nat /\ side = j * 640
      BY <1>3, Sizes
    <2> HIDE DEF j, side
    <2> QED BY <2>1, Sizes
  <1>8. /\ pos_x' \in {pos_x, side - TILE, side + TILE}
        /\ pos_y' \in {pos_y, top - TALL, top + TILE}
        /\ velocity_y' \in {velocity_y, 0}
        /\ jumping' \in BOOLEAN /\ on_ground' \in BOOLEAN /\ astray' \in BOOLEAN
        /\ \/ UNCHANGED <<velocity_y, jumping, on_ground>>
           \/ velocity_y' = 0 /\ ~jumping'
        /\ astray' \/ (~astray /\ UNCHANGED <<pos_x, pos_y, velocity_y, jumping, on_ground>>)
    <2> HIDE DEF top, side
    <2> USE DEF UpdateDoor, Inv, TypeOK
    <2> QED BY DEF top, side
  <1> HIDE DEF top, side
  <1>9. PlaceInv'
    BY <1>1, <1>2, <1>4 DEF Inv, PlaceInv
  <1>10. \A e \in DOMAIN door_y' : /\ door_y'[e] % 5 = 0
                                  /\ door_y'[e] \in ((e[1] - 1) * TILE)..(e[1] * TILE)
    BY <1>4, <1>6 DEF Inv, TypeOK, DoorsInv
  <1>11. DOMAIN door_y' = DOMAIN door_y
    BY <1>4
  <1>12. turn' \in 1..Len(Entities)
    BY <1>1, NextTurn DEF Inv, TypeOK
  <1>13. pos_x' \in Int /\ pos_y' \in Int /\ pos_x' % PX = 0
    <2>1. pos_x \in Int /\ pos_y \in Int /\ pos_x % 20 = 0
      BY Sizes DEF Inv, TypeOK, GridInv
    <2>2. pos_x' \in Int /\ pos_x' % 20 = 0
      BY <1>7, <1>8, <2>1
    <2>3. pos_y' \in Int
      BY <1>6, <1>8, <2>1, Sizes
    <2> QED BY <2>2, <2>3, Sizes
  <1>14. velocity_y' \in (-6 * PX)..(2 * PX + PX \div 5)
    BY <1>8 DEF Inv, TypeOK, PX
  <1>15. TypeOK'
    BY <1>1, <1>2, <1>8, <1>10, <1>11, <1>12, <1>13, <1>14 DEF Inv, TypeOK
  <1>16. MotionInv'
    BY <1>8 DEF Inv, MotionInv
  <1>17. GridInv' /\ FreeInv' /\ JumpInv' /\ JumpNeedsGround'
    <2>1. CASE astray'
      BY <1>13, <2>1 DEF GridInv, FreeInv, JumpInv, JumpNeedsGround
    <2>2. CASE ~astray'
      <3>1. ~astray /\ UNCHANGED <<pos_x, pos_y, velocity_y, jumping, on_ground>>
        BY <1>8, <2>2
      <3>2. GridInv' /\ FreeInv' /\ JumpNeedsGround'
        BY <1>1, <1>2, <3>1 DEF Inv, GridInv, FreeInv, JumpNeedsGround, OffMap
      <3>3. JumpInv'
        BY <3>1 DEF Inv, JumpInv, InJump
      <3> QED BY <3>2, <3>3
    <2> QED BY <2>1, <2>2
  <1>18. DoorsInv'
    BY <1>10 DEF DoorsInv
  <1> QED BY <1>8, <1>9, <1>15, <1>16, <1>17, <1>18 DEF Inv

\* A message, or nothing at all, moves nothing.
LEMMA StillStep ==
  ASSUME Inv, UNCHANGED <<level, playerVars, door_y, stopped, turn, astray>>,
         is_open' \in [DOMAIN door_y -> BOOLEAN]
  PROVE  Inv'
  <1>1. /\ UNCHANGED <<level, pos_x, pos_y, velocity_y, jumping, on_ground, door_y, stopped, turn, astray>>
        /\ Cells' = Cells /\ Entities' = Entities /\ \A c : Id(c)' = Id(c)
        /\ Free(pos_x, pos_y)' <=> Free(pos_x, pos_y)
        /\ Inside(pos_x, pos_y + PX)' <=> Inside(pos_x, pos_y + PX)
    BY SameLevel DEF playerVars
  <1>2. PlaceInv' /\ TypeOK'
    BY <1>1 DEF Inv, PlaceInv, TypeOK
  <1>3. MotionInv' /\ GridInv' /\ FreeInv' /\ JumpNeedsGround' /\ DoorsInv'
    BY <1>1 DEF Inv, MotionInv, GridInv, FreeInv, JumpNeedsGround, DoorsInv, OffMap
  <1>4. JumpInv'
    BY <1>1 DEF Inv, JumpInv, InJump
  <1> QED BY <1>2, <1>3, <1>4 DEF Inv

\* The invariant holds throughout.
LEMMA Inductive == Spec => []Inv
  <1>1. Inv /\ [Next]_vars => Inv'
    <2> SUFFICES ASSUME Inv, [Next]_vars PROVE Inv'
      OBVIOUS
    <2>1. CASE Update
      BY <2>1, PlayerStep, DoorStep DEF Update
    <2>2. ASSUME NEW d \in DOMAIN door_y, MessageArrived(d) PROVE Inv'
      <3>1. is_open' \in [DOMAIN door_y -> BOOLEAN]
        BY <2>2 DEF MessageArrived, Inv, TypeOK
      <3> QED BY <2>2, <3>1, StillStep DEF MessageArrived
    <2>3. CASE UNCHANGED vars
      BY <2>3, StillStep DEF vars, Inv, TypeOK
    <2> QED BY <2>1, <2>2, <2>3 DEF Next
  <1> QED BY Initially, <1>1, PTL DEF Spec

-----------------------------------------------------------------------------
(* Theorems                                                                *)

\* Type correctness, for the maps of any levels.
THEOREM TypeCorrect == Spec => []TypeOK
  <1>1. Inv => TypeOK BY DEF Inv
  <1> QED BY <1>1, Inductive, PTL

\* In every level a player that no door has led astray is inside no solid tile.
THEOREM WallsAreHeld == Spec => []WallsHold
  <1>1. Inv => WallsHold
    BY DEF Inv, FreeInv, WallsHold, Free, Inside
  <1> QED BY <1>1, Inductive, PTL

\* In every level whoever may jump stands on a solid tile.
THEOREM JumpsFromGround == Spec => []JumpNeedsGround
  <1>1. Inv => JumpNeedsGround BY DEF Inv
  <1> QED BY <1>1, Inductive, PTL

\* In every level the end tile, wherever it is touched, has ended the level.
THEOREM EndIsNoticed == Spec => []EndNoticed
  <1>1. Inv => EndNoticed
    BY DEF Inv, FreeInv, EndNoticed, Free, TypeOK, Tile, END, EMPTY, PLAYER, DOOR
  <1> QED BY <1>1, Inductive, PTL

\* In every level tiles only shorten movements: update_player's two tests of a
\* sign agree with where the player goes whenever it hits something.
THEOREM WallsStopOnly == Spec => WallsOnlyStop
  <1>1. Inv /\ [Next]_vars =>
          [~astray /\ ~astray' /\ ~stopped' =>
             /\ pos_x' - pos_x \in (-3 * PX)..(3 * PX)
             /\ pos_y' - pos_y \in (-5 * PX)..(4 * PX)]_vars
    <2> SUFFICES ASSUME Inv, [Next]_vars, ~astray, ~astray', ~stopped'
                 PROVE  /\ pos_x' - pos_x \in (-3 * PX)..(3 * PX)
                        /\ pos_y' - pos_y \in (-5 * PX)..(4 * PX)
      OBVIOUS
    <2>1. ASSUME UNCHANGED <<pos_x, pos_y>>
          PROVE  /\ pos_x' - pos_x \in (-3 * PX)..(3 * PX)
                 /\ pos_y' - pos_y \in (-5 * PX)..(4 * PX)
      BY <2>1, Sizes DEF Inv, TypeOK
    <2>2. CASE Update
      BY <2>1, <2>2, MoveFree, DoorStep DEF Update
    <2>3. CASE (\E d \in DOMAIN door_y : MessageArrived(d)) \/ UNCHANGED vars
      BY <2>1, <2>3 DEF MessageArrived, vars, playerVars
    <2> QED BY <2>2, <2>3 DEF Next
  <1> QED BY <1>1, Inductive, PTL DEF Spec, WallsOnlyStop

-----------------------------------------------------------------------------
(* Framed levels                                                           *)

Within(x, y) ==
  /\ x >= TILE /\ x + TILE <= LastCol * TILE
  /\ y >= TILE /\ y + TALL < LastRow * TILE + PX

\* The player is within the frame.
WithinInv == Framed /\ ~astray /\ ~stopped => Within(pos_x, pos_y)

\* Whoever is free at a place of the map is within its frame.
LEMMA FreeWithin ==
  ASSUME level \in DOMAIN Layouts, Framed, NEW x \in Nat, NEW y \in Nat,
         x < LastCol * 640 + 640, y < LastRow * 640 + 640, Free(x, y)
  PROVE  Within(x, y)
  <1>1. LastRow \in Int /\ LastCol \in Int
    <2>1. Layouts[level] \in Seq(Seq(Nat)) /\ Layouts[level] # <<>>
      BY LayoutAssumption
    <2>2. Len(Layouts[level]) \in Nat /\ Len(Layouts[level][1]) \in Nat
      BY <2>1
    <2> QED BY <2>2 DEF LastRow, LastCol
  <1> DEFINE i == y \div 640
             j == x \div 640
  <1>2. /\ i \in 0..LastRow /\ y >= i * 640 /\ y < i * 640 + 640
        /\ j \in 0..LastCol /\ x >= j * 640 /\ x < j * 640 + 640
    BY <1>1
  <1> HIDE DEF i, j
  <1>3. 0 \in 0..LastRow /\ LastRow \in 0..LastRow /\ 0 \in 0..LastCol /\ LastCol \in 0..LastCol
    BY <1>1, <1>2
  <1>4. ASSUME NEW r \in 0..LastRow, NEW q \in 0..LastCol, r \in {0, LastRow} \/ q \in {0, LastCol}
        PROVE  ~(/\ x + 640 > q * 640 /\ x < q * 640 + 640
                 /\ y + 1260 >= r * 640 /\ y < r * 640 + 640)
    <2>1. <<r, q>> \in Cells
      BY DEF Cells, CellsOf, LastRow, LastCol
    <2>2. ~Overlaps(x, y, <<r, q>>)
      BY <1>4, <2>1 DEF Framed, Free
    <2>3. <<r, q>>[1] \in Nat /\ <<r, q>>[2] \in Nat /\ <<r, q>>[1] = r /\ <<r, q>>[2] = q
      BY <1>1
    <2> QED BY <2>2, <2>3, OverlapsIs
  <1> DEFINE right  == LastCol * 640
             above  == i * 640
  <1>a. right \in Int /\ above \in Int /\ y >= above /\ y < above + 640
    BY <1>1, <1>2
  <1>b. ~(x + 640 > 0 * 640 /\ x < 0 * 640 + 640 /\ y + 1260 >= above /\ y < above + 640)
    BY <1>2, <1>3, <1>4
  <1>c. ~(x + 640 > right /\ x < right + 640 /\ y + 1260 >= above /\ y < above + 640)
    BY <1>2, <1>3, <1>4
  <1>d. x < right + 640
    OBVIOUS
  <1> HIDE DEF right, above
  <1>5. x >= 640
    BY <1>a, <1>b
  <1>e. x + 640 <= right
    BY <1>a, <1>c, <1>d
  <1>6. x + 640 <= LastCol * 640
    BY <1>e DEF right
  <1>7. y >= 640
    BY <1>1, <1>2, <1>3, <1>4
  <1>8. y + 1280 < LastRow * 640 + 20
    BY <1>1, <1>2, <1>3, <1>4
  <1> QED BY <1>5, <1>6, <1>7, <1>8, Sizes DEF Within

\* In a framed level an update of the player leaves it within the frame.
LEMMA MoveWithin ==
  ASSUME Inv, WithinInv, Framed, NEW step \in Steps, NEW jumps \in {FALSE, on_ground},
         UpdatePlayer(step, jumps), ~stopped', ~astray \/ ~astray'
  PROVE  ~astray' /\ Within(pos_x', pos_y')
  <1>1. level \in DOMAIN Layouts
    BY DEF Inv, PlaceInv
  <1>2. astray' = IF OffMap(pos_x', pos_y') THEN TRUE
                  ELSE astray /\ ~(on_ground' /\ Free(pos_x', pos_y'))
    BY DEF UpdatePlayer
  <1>3. LastRow \in Int /\ LastCol \in Int
    <2>1. Layouts[level] \in Seq(Seq(Nat)) /\ Layouts[level] # <<>>
      BY <1>1, LayoutAssumption
    <2>2. Len(Layouts[level]) \in Nat /\ Len(Layouts[level][1]) \in Nat
      BY <2>1
    <2> QED BY <2>2 DEF LastRow, LastCol
  <1>4. pos_x' \in Int /\ pos_y' \in Int
    BY MoveTyped
  <1>5. CASE ~astray
    <2>1. Within(pos_x, pos_y) /\ pos_x \in Int /\ pos_y \in Int
      BY <1>5 DEF WithinInv, UpdatePlayer, Inv, TypeOK
    <2>2. /\ Free(pos_x', pos_y') /\ pos_x' - pos_x \in -60..60 /\ pos_y' - pos_y \in -100..80
      BY <1>5, MoveFree, Sizes
    <2>3. /\ pos_x >= 640 /\ pos_x + 640 <= LastCol * 640
          /\ pos_y >= 640 /\ pos_y + 1280 < LastRow * 640 + 20
      BY <2>1, Sizes DEF Within
    <2>4. /\ pos_x' \in Nat /\ pos_x' < LastCol * 640 + 640
          /\ pos_y' \in Nat /\ pos_y' < LastRow * 640 + 640
      <3> DEFINE x == pos_x'
                 y == pos_y'
                 right  == LastCol * 640
                 bottom == LastRow * 640
      <3>1. x \in Int /\ y \in Int /\ right \in Int /\ bottom \in Int
        BY <1>3, <1>4
      <3>2. x - pos_x \in -60..60 /\ y - pos_y \in -100..80
        BY <2>2
      <3>3. /\ pos_x >= 640 /\ pos_x + 640 <= right
            /\ pos_y >= 640 /\ pos_y + 1280 < bottom + 20
        BY <2>3
      <3> HIDE DEF x, y, right, bottom
      <3>4. x \in Nat /\ x < right + 640
        BY <2>1, <3>1, <3>2, <3>3
      <3>5. y \in Nat /\ y < bottom + 640
        BY <2>1, <3>1, <3>2, <3>3
      <3> QED BY <3>4, <3>5 DEF x, y, right, bottom
    <2>5. Within(pos_x', pos_y')
      BY <1>1, <2>2, <2>4, FreeWithin
    <2>6. ~astray'
      <3>1. ~OffMap(pos_x', pos_y')
        BY <2>4 DEF OffMap
      <3> QED BY <1>2, <1>5, <3>1, Zenon
    <2> QED BY <2>5, <2>6
  <1>6. CASE astray /\ ~astray'
    <2>1. ~OffMap(pos_x', pos_y') /\ on_ground' /\ Free(pos_x', pos_y')
      BY <1>2, <1>6
    <2>2. pos_x' \in Nat /\ pos_y' \in Nat
      BY <1>4, <2>1 DEF OffMap
    <2>3. Inside(pos_x', pos_y' + PX)
      <3>1. on_ground' /\ pos_x' >= 0
        BY <2>1, <2>2
      <3> QED BY <3>1, MoveTyped
    <2>4. PICK c \in Cells : Overlaps(pos_x', pos_y' + PX, c)
      BY <2>3 DEF Inside
    <2>5. c[1] \in 0..LastRow /\ c[2] \in 0..LastCol
      BY DEF Cells, CellsOf, LastRow, LastCol
    <2>6. /\ pos_x' < c[2] * 640 + 640
          /\ pos_y' + 20 < c[1] * 640 + 640
      <3>1. c[1] \in Nat /\ c[2] \in Nat /\ pos_y' + 20 \in Int
        BY <1>3, <1>4, <2>5
      <3>2. Overlaps(pos_x', pos_y' + 20, c)
        BY <2>4, Sizes
      <3> QED BY <1>4, <3>1, <3>2, OverlapsIs
    <2>7. pos_x' < LastCol * 640 + 640 /\ pos_y' < LastRow * 640 + 640
      <3> DEFINE r == c[1]
                 q == c[2]
      <3>1. r \in 0..LastRow /\ q \in 0..LastCol /\ pos_x' < q * 640 + 640 /\ pos_y' + 20 < r * 640 + 640
        BY <2>5, <2>6
      <3> DEFINE x == pos_x'
                 y == pos_y'
      <3>2. x \in Nat /\ y \in Nat /\ x < q * 640 + 640 /\ y + 20 < r * 640 + 640
        BY <2>2, <3>1
      <3>3. r \in 0..LastRow /\ q \in 0..LastCol
        BY <3>1
      <3> HIDE DEF r, q, x, y
      <3>4. r * 640 <= LastRow * 640 /\ q * 640 <= LastCol * 640
        BY <1>3, <3>3
      <3>5. x < LastCol * 640 + 640 /\ y < LastRow * 640 + 640
        BY <1>3, <3>2, <3>3, <3>4
      <3> QED BY <3>5 DEF x, y
    <2> QED BY <1>1, <1>6, <2>1, <2>2, <2>7, FreeWithin
  <1> QED BY <1>5, <1>6

\* The player starts within the frame, or in a tile.
LEMMA StartWithin == Init => WithinInv
  <1> SUFFICES ASSUME Init, Framed, ~astray PROVE Within(pos_x, pos_y)
    BY DEF WithinInv
  <1>1. level \in DOMAIN Layouts /\ Free(pos_x, pos_y)
    BY DEF Init
  <1>2. Start \in Cells
    <2>1. \E start \in Cells : \A c \in Cells : Id(c) = PLAYER <=> c = start
      BY <1>1, LayoutAssumption DEF Cells, Id
    <2> QED BY <2>1 DEF Start
  <1> DEFINE i == Start[1]
             j == Start[2]
  <1>3. i \in 0..LastRow /\ j \in 0..LastCol
    BY <1>2 DEF Cells, CellsOf, LastRow, LastCol
  <1>4. i \in Nat /\ j \in Nat /\ pos_x = j * 640 /\ pos_y = i * 640
    BY <1>1, <1>2, CellFacts, Sizes DEF Init
  <1>5. LastRow \in Int /\ LastCol \in Int
    <2>1. Layouts[level] \in Seq(Seq(Nat)) /\ Layouts[level] # <<>>
      BY <1>1, LayoutAssumption
    <2>2. Len(Layouts[level]) \in Nat /\ Len(Layouts[level][1]) \in Nat
      BY <2>1
    <2> QED BY <2>2 DEF LastRow, LastCol
  <1> HIDE DEF i, j
  <1>6. /\ pos_x \in Nat /\ pos_x < LastCol * 640 + 640
        /\ pos_y \in Nat /\ pos_y < LastRow * 640 + 640
    BY <1>3, <1>4, <1>5
  <1> QED BY <1>1, <1>6, FreeWithin

\* Every step leaves a player no door has led astray within a framed level.
LEMMA WithinStep == Inv /\ WithinInv /\ [Next]_vars => WithinInv'
  <1> SUFFICES ASSUME Inv, WithinInv, [Next]_vars, Framed', ~astray', ~stopped'
               PROVE  Within(pos_x, pos_y)'
    BY DEF WithinInv
  <1>1. level' = level
    BY DEF Next, Update, UpdatePlayer, UpdateDoor, MessageArrived, vars
  <1>2. Framed /\ (Within(pos_x, pos_y)' <=> Within(pos_x', pos_y'))
    <2>1. Cells' = Cells /\ LastRow' = LastRow /\ LastCol' = LastCol /\ \A c : Tile(c)' = Tile(c)
      BY <1>1 DEF Cells, LastRow, LastCol, Tile, Id
    <2> QED BY <2>1 DEF Framed, Within, TILE, TALL, PX
  <1>3. ASSUME ~astray, UNCHANGED <<pos_x, pos_y>>, ~stopped PROVE Within(pos_x', pos_y')
    BY <1>2, <1>3 DEF WithinInv
  <1>4. ASSUME NEW step \in Steps, NEW jumps \in {FALSE, on_ground}, UpdatePlayer(step, jumps)
        PROVE  Within(pos_x', pos_y')
    BY <1>2, <1>4, MoveWithin
  <1>5. ASSUME NEW d \in DOMAIN door_y, UpdateDoor(d), turn' = (turn % Len(Entities)) + 1
        PROVE  Within(pos_x', pos_y')
    <2>1. ~astray /\ UNCHANGED <<pos_x, pos_y>>
      BY <1>5, DoorStep
    <2>2. ~stopped
      BY <1>5 DEF UpdateDoor
    <2> QED BY <1>3, <2>1, <2>2
  <1>6. ASSUME UNCHANGED <<playerVars, stopped, astray>> PROVE Within(pos_x', pos_y')
    <2>1. pos_x' = pos_x /\ pos_y' = pos_y /\ ~stopped /\ ~astray
      BY <1>6 DEF playerVars
    <2> QED BY <1>3, <2>1
  <1>7. Within(pos_x', pos_y')
    <2>1. CASE Update
      BY <1>4, <1>5, <2>1 DEF Update
    <2>2. ASSUME NEW d \in DOMAIN door_y, MessageArrived(d)
          PROVE  UNCHANGED <<playerVars, stopped, astray>>
      BY <2>2 DEF MessageArrived
    <2>3. CASE UNCHANGED vars
      <3>1. UNCHANGED <<playerVars, stopped, astray>>
        BY <2>3 DEF vars
      <3> QED BY <1>6, <3>1
    <2> QED BY <1>6, <2>1, <2>2, <2>3 DEF Next
  <1> QED BY <1>2, <1>7

\* In a framed level, as those in the repository are, the properties of a player
\* that is not astray hold until a door touches the player, if it starts free.
THEOREM OnlyDoors == Spec => OnlyDoorsLeadAstray
  <1>1. Inv /\ WithinInv /\ [Next]_vars =>
          [Framed /\ ~astray /\ astray' /\ ~stopped' => Id(Entities[turn]) = DOOR]_vars
    <2> SUFFICES ASSUME Inv, WithinInv, Next, Framed, ~astray, astray', ~stopped'
                 PROVE  Id(Entities[turn]) = DOOR
      OBVIOUS
    <2>1. ASSUME NEW step \in Steps, NEW jumps \in {FALSE, on_ground}, UpdatePlayer(step, jumps)
          PROVE  FALSE
      BY <2>1, MoveWithin
    <2>2. ASSUME NEW d \in DOMAIN door_y, UpdateDoor(d) PROVE Id(Entities[turn]) = DOOR
      BY <2>2 DEF UpdateDoor, Inv, PlaceInv
    <2>3. ASSUME NEW d \in DOMAIN door_y, MessageArrived(d) PROVE FALSE
      BY <2>3 DEF MessageArrived
    <2> QED BY <2>1, <2>2, <2>3 DEF Next, Update
  <1>2. Spec => []WithinInv
    BY StartWithin, WithinStep, Inductive, PTL DEF Spec
  <1> QED BY <1>1, <1>2, Inductive, PTL DEF Spec, OnlyDoorsLeadAstray
=============================================================================
