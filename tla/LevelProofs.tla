---------------------------- MODULE LevelProofs ----------------------------
(***************************************************************************)
(* Proofs about a level's way from the editor to the game, for all levels, *)
(* folders of pictures and sizes.  Of Level: at every step of a load the   *)
(* heap holds exactly what that step's errors, or the level in play,       *)
(* account for, and a level shows its own pictures.  Of MapEditor: what is *)
(* saved keeps what was drawn and meant, and is the file Level asks for.   *)
(***************************************************************************)
EXTENDS Level, MapEditor, FiniteSetTheorems, SequenceTheorems, WellFoundedInduction, TLAPS

Loading == {"open", "data", "parse", "config", "objects", "layout", "rows", "row", "fill"}
AfterLoad == {"entities", "textures", "texture", "play", "wild"}

\* The last load is complete, and nothing of it has been given back.
Complete ==
  \/ pc \in {"entities", "textures", "texture", "play", "unload", "free"}
  \/ pc = "menu" /\ current_map # 0

\* What a load without its rows holds between load_level_config's steps.
Whole == {Block("config"), Block("objects"), Block("layout")}

\* The rows that a complete load holds, with their array.
RowBlocks ==
  IF Map[level[load]] = "none" THEN {}
  ELSE {Block("rows")} \cup RowsUpTo(Rows[level[load]])

\* What the load under way holds before each step.
Held ==
  CASE pc \in {"open", "data"} -> {}
    [] pc = "parse"   -> {Block("data")}
    [] pc = "config"  -> {Block("json")}
    [] pc = "objects" -> {Block("json"), Block("config")}
    [] pc = "layout"  -> {Block("json"), Block("config"), Block("objects")}
    [] pc = "rows"    -> {Block("json")} \cup Whole
    [] pc = "row"     -> {Block("json"), Block("rows")} \cup Whole \cup RowsUpTo(row)
    [] pc = "fill"    -> {Block("json")} \cup Whole \cup RowBlocks
    [] OTHER          -> Whole \cup RowBlocks

OwnerInv == \A b \in heap : b[1] \in 1..load

HeldInv == pc \in Loading \/ Complete => Of(load) = Held

PlaceInv ==
  /\ pc \in Loading \cup AfterLoad \cup {"unload", "free"} => load > 0
  /\ pc = "row" => row < Rows[level[load]]
  /\ pc = "rows" \/ pc = "row" => Map[level[load]] # "none"
  /\ pc \in {"play", "unload", "free"} => current_map = load
  /\ pc \in {"menu", "done"} /\ current_map # 0 => current_map = load

\* free_level_config has given back everything of the last level.
GoneInv ==
  pc = "done" /\ current_map # 0 /\ Map[level[current_map]] = "whole" => Of(current_map) = {}

Inv == TypeOK /\ OwnerInv /\ HeldInv /\ PlaceInv /\ FailedLoadLeaves /\ GoneInv

\* The texture that the picture of object s + 1 becomes, where the ids are dense.
Entry(s) ==
  LET picture == Objects[level[load]][s + 1].picture
  IN  IF picture = NoPicture THEN None
      ELSE [load |-> load, id |-> s, object |-> s + 1,
            picture |-> IF picture \in Broken THEN Placeholder ELSE picture]

\* The card holds pictures of the levels loaded so far, of the last one only once
\* its textures are being loaded.
CardInv ==
  \A t \in card :
    t.load \in 1..load /\ (pc \in Loading \cup {"entities", "textures"} => t.load < load)

\* The textures of the last level are being loaded or are all there.
Showing == pc \in {"texture", "play", "unload"} \/ (pc = "menu" /\ current_map # 0)

\* The first k - 1 objects have put their own pictures into their own slots, and
\* the card holds no other picture of this load.
SlotsInv ==
  Showing /\ Dense(level[load]) =>
    /\ k \in 1..(Len(Objects[level[load]]) + 1)
    /\ pc # "texture" => k = Len(Objects[level[load]]) + 1
    /\ max_id = IF k = 1 THEN 0 ELSE k - 2
    /\ \A s \in 0..(k - 2) :
         /\ s \in Slots /\ texture[s] = Entry(s)
         /\ Entry(s) # None => Entry(s) \in card
         /\ Objects[level[load]][s + 1].picture \in Broken \cup {NoPicture} \/ s \in loaded
    /\ \A s \in Slots : s > k - 2 => texture[s] = None
    /\ \A t \in card : t.load = load => \E s \in 0..(k - 2) : t = Entry(s)

\* free_texture_manager has left of them what LastLevelReleased says.
LeftInv ==
  pc \in {"free", "done"} /\ current_map # 0 /\ Dense(level[current_map]) =>
    \A t \in card : t.load = current_map => t.picture = Placeholder \/ t.id = max_id

PictureInv == CardInv /\ SlotsInv /\ LeftInv /\ DOMAIN texture = Slots

-----------------------------------------------------------------------------
(* Sets of blocks                                                          *)

\* The blocks of one load among those of two sets.
LEMMA Parts ==
  ASSUME NEW S, NEW T, NEW n, \A b \in T : b[1] = n
  PROVE  /\ {b \in S \cup T : b[1] = n} = {b \in S : b[1] = n} \cup T
         /\ {b \in S \ T : b[1] = n} = {b \in S : b[1] = n} \ T
  OBVIOUS

\* A block or a row is its load's.
LEMMA Owned ==
  /\ \A part : Block(part)[1] = load
  /\ \A n : \A b \in RowsUpTo(n) : b[1] = load
  BY DEF Block, RowsUpTo

\* No rows, and one row more.
LEMMA RowByRow ==
  /\ RowsUpTo(0) = {}
  /\ \A n \in Nat : RowsUpTo(n + 1) = RowsUpTo(n) \cup {<<load, "row", n>>}
  <1>1. \A n \in Nat : 0..(n + 1 - 1) = (0..(n - 1)) \cup {n}
    OBVIOUS
  <1> QED
    BY <1>1 DEF RowsUpTo

-----------------------------------------------------------------------------
(* Types, owners and places                                                *)

\* Initially the invariant holds.
LEMMA Initially == Init => Inv
  BY LevelAssumption
     DEF Init, Inv, TypeOK, OwnerInv, HeldInv, PlaceInv, FailedLoadLeaves, GoneInv, Steps, Slots,
         Loading, AfterLoad, Complete

\* Every step keeps the types.
LEMMA TypeStep == TypeOK /\ [Next]_vars => TypeOK'
  <1> SUFFICES ASSUME TypeOK, [Next]_vars PROVE TypeOK'
    OBVIOUS
  <1> USE LevelAssumption DEF TypeOK
  <1>1. ASSUME NEW l \in Levels, Choose(l) PROVE TypeOK'
    BY <1>1 DEF Choose, managerVars, Steps
  <1>2. CASE OpenFile
    BY <1>2 DEF OpenFile, managerVars, Steps, Slots
  <1>3. CASE Parse
    BY <1>3 DEF Parse, managerVars, Steps, Slots
  <1>4. CASE Fails
    BY <1>4 DEF Fails, managerVars, Steps, Slots
  <1>5. CASE Fill
    BY <1>5 DEF Fill, managerVars, Steps, Slots
  <1>6. CASE Malloc
    BY <1>6 DEF Malloc, managerVars, Steps, Slots
  <1>7. CASE MallocRow
    BY <1>7 DEF MallocRow, managerVars, Steps, Slots
  <1>8. CASE SearchMap
    BY <1>8 DEF SearchMap, managerVars, Steps, Slots
  <1>9. CASE ClearTextures
    BY <1>9 DEF ClearTextures, managerVars, Steps, Slots
  <1>10. CASE LoadPicture
    <2>1. /\ load' = load /\ level' = level /\ row' = row
          /\ k' \in Nat /\ current_map' = current_map
      BY <1>10 DEF LoadPicture
    <2>2. pc' \in Steps
      BY <1>10 DEF LoadPicture, Steps
    <2>3. max_id' \in Slots
      BY <1>10 DEF LoadPicture, managerVars
    <2>4. loaded' \subseteq Slots
      BY <1>10 DEF LoadPicture, managerVars
    <2> QED BY <2>1, <2>2, <2>3, <2>4
  <1>11. CASE EnterLevel
    BY <1>11 DEF EnterLevel, managerVars, Steps, Slots
  <1>12. CASE Leave
    BY <1>12 DEF Leave, managerVars, Steps, Slots
  <1>13. CASE Quit
    BY <1>13 DEF Quit, managerVars, Steps, Slots
  <1>14. CASE FreeTextures
    BY <1>14 DEF FreeTextures, managerVars, Steps, Slots
  <1>15. CASE FreeLevel
    BY <1>15 DEF FreeLevel, managerVars, Steps, Slots
  <1>16. CASE UNCHANGED vars
    BY <1>16 DEF vars, managerVars
  <1> QED
    BY <1>1, <1>2, <1>3, <1>4, <1>5, <1>6, <1>7, <1>8, <1>9, <1>10, <1>11, <1>12, <1>13, <1>14, <1>15, <1>16 DEF Next

\* Every block on the heap was taken by a load there was.
LEMMA OwnerStep == TypeOK /\ OwnerInv /\ PlaceInv /\ [Next]_vars => OwnerInv'
  <1> SUFFICES ASSUME TypeOK, OwnerInv, PlaceInv, [Next]_vars PROVE OwnerInv'
    OBVIOUS
  <1> USE DEF TypeOK, OwnerInv
  <1>1. ASSUME NEW l \in Levels, Choose(l) PROVE OwnerInv'
    BY <1>1 DEF Choose
  <1>2. CASE Parse \/ Malloc \/ MallocRow
    <2>1. load \in 1..load /\ load' = load
      BY <1>2 DEF Parse, Malloc, MallocRow, PlaceInv, Loading
    <2> QED
      BY <1>2, <2>1 DEF Parse, Malloc, MallocRow, Block
  <1>3. CASE Fails \/ Fill \/ FreeLevel
    BY <1>3 DEF Fails, Fill, FreeLevel
  <1>4. CASE OpenFile \/ SearchMap \/ ClearTextures \/ LoadPicture \/ EnterLevel
             \/ Leave \/ Quit \/ FreeTextures
    BY <1>4 DEF OpenFile, SearchMap, ClearTextures, LoadPicture, EnterLevel, Leave, Quit,
                FreeTextures
  <1>5. CASE UNCHANGED vars
    BY <1>5 DEF vars
  <1> QED
    BY <1>1, <1>2, <1>3, <1>4, <1>5 DEF Next

\* A load is under way where one must be, its map has rows where they are
\* allocated, and the level in play is the one loaded last.
LEMMA PlaceStep == TypeOK /\ PlaceInv /\ [Next]_vars => PlaceInv'
  <1> SUFFICES ASSUME TypeOK, PlaceInv, [Next]_vars PROVE PlaceInv'
    OBVIOUS
  <1> USE LevelAssumption DEF TypeOK, PlaceInv, Loading, AfterLoad
  <1>1. ASSUME NEW l \in Levels, Choose(l) PROVE PlaceInv'
    BY <1>1 DEF Choose
  <1>2. CASE Malloc
    <2>1. load > 0 /\ level[load] \in Levels
      BY <1>2 DEF Malloc
    <2>2. load' = load /\ level' = level /\ row' = 0 /\ current_map' = current_map
      BY <1>2 DEF Malloc
    <2>3. CASE pc \in {"data", "config", "objects"}
      BY <1>2, <2>1, <2>2, <2>3 DEF Malloc
    <2>4. CASE pc = "layout"
      BY <1>2, <2>1, <2>2, <2>4 DEF Malloc
    <2>5. CASE pc = "rows"
      BY <1>2, <2>1, <2>2, <2>5 DEF Malloc
    <2> QED BY <1>2, <2>3, <2>4, <2>5 DEF Malloc
  <1>3. CASE OpenFile \/ Parse \/ MallocRow \/ Fails \/ Fill
    BY <1>3 DEF OpenFile, Parse, MallocRow, Fails, Fill
  <1>4. CASE SearchMap \/ ClearTextures \/ LoadPicture \/ EnterLevel
    BY <1>4 DEF SearchMap, ClearTextures, LoadPicture, EnterLevel
  <1>5. CASE Leave \/ Quit \/ FreeTextures \/ FreeLevel
    BY <1>5 DEF Leave, Quit, FreeTextures, FreeLevel
  <1>6. CASE UNCHANGED vars
    BY <1>6 DEF vars
  <1> QED
    BY <1>1, <1>2, <1>3, <1>4, <1>5, <1>6 DEF Next

-----------------------------------------------------------------------------
(* What a load holds                                                       *)

\* What the load under way holds, place by place.
LEMMA HeldAt ==
  /\ pc \in {"open", "data"} => Held = {}
  /\ pc = "parse"   => Held = {Block("data")}
  /\ pc = "config"  => Held = {Block("json")}
  /\ pc = "objects" => Held = {Block("json"), Block("config")}
  /\ pc = "layout"  => Held = {Block("json"), Block("config"), Block("objects")}
  /\ pc = "rows"    => Held = {Block("json")} \cup Whole
  /\ pc = "row"     => Held = {Block("json"), Block("rows")} \cup Whole \cup RowsUpTo(row)
  /\ pc = "fill"    => Held = {Block("json")} \cup Whole \cup RowBlocks
  /\ Complete => Held = Whole \cup RowBlocks
  BY DEF Held, Complete

\* The same of the step's other end.
LEMMA HeldNext ==
  /\ pc' \in {"open", "data"} => Held' = {}
  /\ pc' = "parse"   => Held' = {Block("data")'}
  /\ pc' = "config"  => Held' = {Block("json")'}
  /\ pc' = "objects" => Held' = {Block("json")', Block("config")'}
  /\ pc' = "layout"  => Held' = {Block("json")', Block("config")', Block("objects")'}
  /\ pc' = "rows"    => Held' = {Block("json")'} \cup Whole'
  /\ pc' = "row"     => Held' = {Block("json")', Block("rows")'} \cup Whole' \cup RowsUpTo(row)'
  /\ pc' = "fill"    => Held' = {Block("json")'} \cup Whole' \cup RowBlocks'
  /\ Complete' => Held' = Whole' \cup RowBlocks'
  BY DEF Held, Complete

\* The parsed file is none of the blocks that stay.
LEMMA JsonApart ==
  /\ Block("json") \notin Whole
  /\ Block("json") \notin RowBlocks
  /\ Block("json") # Block("data")
  BY DEF Block, Whole, RowBlocks, RowsUpTo

\* Every step of a load takes the next block, or gives one back, so that what
\* the load holds stays what the place it has come to says.
LEMMA HeldStep == TypeOK /\ OwnerInv /\ PlaceInv /\ HeldInv /\ [Next]_vars => HeldInv'
  <1> SUFFICES ASSUME TypeOK, OwnerInv, PlaceInv, HeldInv, [Next]_vars PROVE HeldInv'
    OBVIOUS
  <1> DEFINE Mine == Of(load)
  <1>1. ASSUME NEW l \in Levels, Choose(l) PROVE HeldInv'
    <2>1. pc' = "open" /\ heap' = heap /\ load' = load + 1
      BY <1>1 DEF Choose
    <2>2. Mine' = {}
      BY <2>1 DEF Of, OwnerInv, TypeOK
    <2>3. Held' = {}
      BY <2>1 DEF Held
    <2> QED BY <2>2, <2>3 DEF HeldInv
  <1>2. CASE OpenFile
    BY <1>2, HeldAt DEF OpenFile, HeldInv, Held, Of, Loading
  <1>3. CASE Parse
    <2>1. Mine = {Block("data")}
      BY <1>3, HeldAt DEF Parse, HeldInv, Loading
    <2>2. Mine' = (Mine \ {Block("data")}) \cup {Block("json")}
      BY <1>3, Owned DEF Parse, Of
    <2>3. Held' = {Block("json")}
      BY <1>3 DEF Parse, Held, Block
    <2> QED BY <2>1, <2>2, <2>3 DEF HeldInv
  <1>4. CASE Malloc
    <2>1. load' = load /\ row' = 0 /\ level' = level
      BY <1>4 DEF Malloc
    <2>2. Mine' = Mine \cup {Block(pc)}
      BY <1>4, <2>1, Owned DEF Malloc, Of
    <2>3. Mine = Held
      BY <1>4 DEF Malloc, HeldInv, Loading
    <2>4. /\ Whole' = Whole /\ RowBlocks' = RowBlocks
          /\ \A part : Block(part)' = Block(part)
          /\ RowsUpTo(row)' = {}
      BY <2>1, RowByRow DEF Whole, RowBlocks, Block, RowsUpTo
    <2>5. Held' = Held \cup {Block(pc)}
      <3>1. CASE pc = "data"
        BY <1>4, <2>4, <3>1, HeldAt, HeldNext DEF Malloc
      <3>2. CASE pc = "config"
        BY <1>4, <2>4, <3>2, HeldAt, HeldNext DEF Malloc
      <3>3. CASE pc = "objects"
        BY <1>4, <2>4, <3>3, HeldAt, HeldNext DEF Malloc
      <3>4. CASE pc = "layout"
        <4>1. Held \cup {Block(pc)} = {Block("json")} \cup Whole
          BY <3>4, HeldAt DEF Whole
        <4>2. CASE Map[level[load]] = "none"
          BY <1>4, <2>4, <3>4, <4>1, <4>2, HeldNext DEF Malloc, RowBlocks
        <4>3. CASE Map[level[load]] # "none"
          BY <1>4, <2>4, <3>4, <4>1, <4>3, HeldNext DEF Malloc
        <4> QED BY <4>2, <4>3
      <3>5. CASE pc = "rows"
        <4>1. Map[level[load]] # "none"
          BY <3>5 DEF PlaceInv
        <4>2. Held \cup {Block(pc)} = {Block("json"), Block("rows")} \cup Whole
          BY <3>5, HeldAt
        <4>3. CASE Rows[level[load]] = 0
          BY <1>4, <2>4, <3>5, <4>1, <4>2, <4>3, HeldNext, RowByRow DEF Malloc, RowBlocks
        <4>4. CASE Rows[level[load]] # 0
          BY <1>4, <2>4, <3>5, <4>2, <4>4, HeldNext DEF Malloc
        <4> QED BY <4>3, <4>4
      <3> QED BY <1>4, <3>1, <3>2, <3>3, <3>4, <3>5 DEF Malloc
    <2> QED BY <2>2, <2>3, <2>5 DEF HeldInv
  <1>5. CASE MallocRow
    <2>1. load' = load /\ level' = level /\ row' = row + 1 /\ row \in Nat
      BY <1>5 DEF MallocRow, TypeOK
    <2>2. Mine' = Mine \cup {<<load, "row", row>>}
      BY <1>5, <2>1 DEF MallocRow, Of
    <2>3. Mine = {Block("json"), Block("rows")} \cup Whole \cup RowsUpTo(row)
      BY <1>5, HeldAt DEF MallocRow, HeldInv, Loading
    <2>4. /\ Whole' = Whole /\ RowBlocks' = RowBlocks
          /\ \A part : Block(part)' = Block(part)
      BY <2>1 DEF Whole, RowBlocks, Block, RowsUpTo
    <2>5. RowsUpTo(row)' = RowsUpTo(row) \cup {<<load, "row", row>>}
      <3>1. RowsUpTo(row)' = RowsUpTo(row + 1)
        BY <2>1 DEF RowsUpTo
      <3> QED BY <2>1, <3>1, RowByRow
    <2>6. Held' = {Block("json"), Block("rows")} \cup Whole \cup RowsUpTo(row)'
      <3>1. CASE pc' = "row"
        BY <2>4, <3>1, HeldNext
      <3>2. CASE pc' = "fill"
        <4>1. row + 1 = Rows[level[load]] /\ Map[level[load]] # "none"
          BY <1>5, <2>1, <3>2, LevelAssumption DEF MallocRow, PlaceInv, TypeOK, Loading
        <4>2. RowBlocks = {Block("rows")} \cup RowsUpTo(row)'
          BY <2>1, <4>1 DEF RowBlocks, RowsUpTo
        <4> QED BY <2>4, <3>2, <4>2, HeldNext
      <3> QED BY <1>5, <3>1, <3>2 DEF MallocRow
    <2> QED BY <2>2, <2>3, <2>5, <2>6 DEF HeldInv
  <1>6. CASE Fails
    BY <1>6 DEF Fails, HeldInv, Loading, Complete
  <1>7. CASE Fill
    <2>1. load' = load /\ level' = level
      BY <1>7 DEF Fill
    <2>2. Mine' = Mine \ {Block("json")}
      BY <1>7, <2>1 DEF Fill, Of
    <2>3. Mine = {Block("json")} \cup Whole \cup RowBlocks
      BY <1>7, HeldAt DEF Fill, HeldInv, Loading
    <2>4. Whole' = Whole /\ RowBlocks' = RowBlocks
      BY <2>1 DEF Whole, RowBlocks, Block, RowsUpTo
    <2>5. Mine' = Whole \cup RowBlocks
      BY <2>2, <2>3, JsonApart
    <2> QED BY <1>7, <2>4, <2>5, HeldNext DEF Fill, HeldInv, Loading, Complete
  <1>8. ASSUME UNCHANGED <<load, level, row, heap>>, Complete, pc' \notin Loading
        PROVE  HeldInv'
    <2>1. Mine' = Mine /\ Mine = Whole \cup RowBlocks
      BY <1>8, HeldAt DEF HeldInv, Of
    <2>2. Whole' = Whole /\ RowBlocks' = RowBlocks
      BY <1>8 DEF Whole, RowBlocks, Block, RowsUpTo
    <2> QED BY <1>8, <2>1, <2>2, HeldNext DEF HeldInv
  <1>9. CASE SearchMap
    <2>1. pc' \notin Loading
      BY <1>9 DEF SearchMap, Loading
    <2> QED BY <1>8, <1>9, <2>1 DEF SearchMap, Complete
  <1>10. CASE LoadPicture
    <2>1. /\ UNCHANGED <<load, level, row, heap>>
          /\ pc = "texture" /\ pc' \in {"texture", "wild"}
      BY <1>10 DEF LoadPicture
    <2> QED BY <1>8, <2>1 DEF Complete, Loading
  <1>11. CASE ClearTextures \/ EnterLevel \/ Leave \/ FreeTextures
    BY <1>8, <1>11 DEF ClearTextures, EnterLevel, Leave, FreeTextures, Complete, Loading
  <1>12. CASE Quit
    <2>1. UNCHANGED <<load, level, row, heap, current_map>> /\ pc' \notin Loading
      BY <1>12 DEF Quit, Loading
    <2>2. CASE pc' = "done"
      BY <2>2 DEF HeldInv, Loading, Complete
    <2>3. CASE pc' = "unload"
      BY <1>8, <1>12, <2>1, <2>3 DEF Quit, Complete, PlaceInv, AfterLoad, TypeOK
    <2> QED BY <1>12, <2>2, <2>3 DEF Quit
  <1>13. CASE FreeLevel
    BY <1>13 DEF FreeLevel, HeldInv, Loading, Complete
  <1>14. CASE UNCHANGED vars
    BY <1>14 DEF vars, HeldInv, Held, Of, Whole, RowBlocks, Block, RowsUpTo, Complete
  <1> QED
    BY <1>1, <1>2, <1>3, <1>4, <1>5, <1>6, <1>7, <1>9, <1>10, <1>11, <1>12, <1>13, <1>14 DEF Next

\* free_level_config gives back what a complete load with a map holds.
LEMMA FreedWhole ==
  FreedWithLevel(load) = Whole \cup {Block("rows")} \cup RowsUpTo(Rows[level[load]])
  BY DEF FreedWithLevel, Whole, Block, RowsUpTo

\* At the end free_level_config has found, and freed, all of the last load.
LEMMA GoneStep == Inv /\ [Next]_vars => GoneInv'
  <1> SUFFICES ASSUME Inv, [Next]_vars PROVE GoneInv'
    OBVIOUS
  <1>1. CASE FreeLevel
    <2>1. /\ UNCHANGED <<load, level, current_map>> /\ current_map = load
          /\ heap' = heap \ FreedWithLevel(load)
      BY <1>1 DEF FreeLevel, Inv, PlaceInv
    <2>2. SUFFICES ASSUME Map[level[load]] = "whole" PROVE Of(load)' = {}
      BY <2>1 DEF GoneInv, Of
    <2>3. Of(load) = Whole \cup RowBlocks
      BY <1>1, HeldAt DEF FreeLevel, Inv, HeldInv, Complete
    <2>4. Of(load) = FreedWithLevel(load)
      BY <2>2, <2>3, FreedWhole DEF RowBlocks
    <2> QED BY <2>1, <2>4 DEF Of
  <1>2. CASE Quit
    BY <1>2 DEF Quit, GoneInv
  <1>3. CASE UNCHANGED vars
    BY <1>3 DEF vars, Inv, GoneInv, Of
  <1>4. CASE ~FreeLevel /\ ~Quit /\ ~UNCHANGED vars
    <2>1. pc' # "done"
      BY <1>4 DEF Next, Choose, OpenFile, Parse, Malloc, MallocRow, Fails, Fill, SearchMap,
                  ClearTextures, LoadPicture, EnterLevel, Leave, FreeTextures
    <2> QED BY <2>1 DEF GoneInv
  <1> QED BY <1>1, <1>2, <1>3, <1>4

\* An error leaves nothing of its load but what FailedLoadLeaves names.
LEMMA FailStep == Inv /\ [Next]_vars => FailedLoadLeaves'
  <1> SUFFICES ASSUME Inv, [Next]_vars PROVE FailedLoadLeaves'
    OBVIOUS
  <1>1. CASE Fails
    <2>1. load' = load /\ Of(load)' = Of(load) \ FreedOnError(pc)
      BY <1>1 DEF Fails, Of
    <2>2. Of(load) = Held
      BY <1>1 DEF Fails, Inv, HeldInv, Loading
    <2>3. \A part : Block(part)' = Block(part)
      BY <2>1 DEF Block
    <2>4. CASE pc \in {"open", "data", "parse", "config", "objects"}
      <3>1. Of(load)' = {}
        BY <2>1, <2>2, <2>4, HeldAt DEF FreedOnError
      <3> QED BY <3>1 DEF FailedLoadLeaves
    <2>5. CASE pc = "layout"
      <3>1. Of(load)' = {Block("objects")}
        BY <2>1, <2>2, <2>5, HeldAt DEF FreedOnError, Block
      <3> QED BY <2>3, <3>1 DEF FailedLoadLeaves
    <2>6. CASE pc = "rows"
      <3>1. Of(load)' = {}
        BY <2>1, <2>2, <2>6, HeldAt DEF FreedOnError, Whole
      <3> QED BY <3>1 DEF FailedLoadLeaves
    <2>7. CASE pc = "row"
      <3>1. /\ Of(load) = {Block("json"), Block("rows")} \cup Whole \cup RowsUpTo(row)
            /\ FreedOnError(pc) = RowsUpTo(row) \cup Whole
        BY <2>2, <2>7, HeldAt DEF FreedOnError, Whole
      <3>2. Block("json") \notin RowsUpTo(row) \cup Whole /\ Block("rows") \notin RowsUpTo(row) \cup Whole
        BY DEF Block, Whole, RowsUpTo
      <3>3. Of(load)' = {Block("json"), Block("rows")}
        BY <2>1, <3>1, <3>2
      <3> QED BY <2>3, <3>3 DEF FailedLoadLeaves
    <2> QED BY <1>1, <2>4, <2>5, <2>6, <2>7 DEF Fails
  <1>2. CASE ~Fails
    <2>1. pc' = "menu" => (pc = "menu" \/ pc = "play") /\ UNCHANGED <<load, heap, current_map>>
      BY <1>2 DEF Next, Choose, OpenFile, Parse, Malloc, MallocRow, Fill, SearchMap, ClearTextures,
                  LoadPicture, EnterLevel, Leave, Quit, FreeTextures, FreeLevel, vars
    <2>2. pc = "play" => current_map # 0
      BY DEF Inv, PlaceInv, AfterLoad
    <2> QED BY <2>1, <2>2 DEF Inv, FailedLoadLeaves, Of, Block
  <1> QED BY <1>1, <1>2

-----------------------------------------------------------------------------
(* The pictures                                                            *)

\* Initially there is no picture at all.
LEMMA NoPictures == Init => PictureInv
  BY LevelAssumption DEF Init, PictureInv, CardInv, SlotsInv, LeftInv, Showing, Loading

\* The slots stay the texture manager's.
LEMMA SlotStep == DOMAIN texture = Slots /\ [Next]_vars => (DOMAIN texture = Slots)'
  <1> SUFFICES ASSUME DOMAIN texture = Slots, [Next]_vars PROVE DOMAIN texture' = Slots
    BY DEF Slots
  <1>1. CASE LoadPicture
    BY <1>1 DEF LoadPicture, managerVars
  <1>2. CASE ClearTextures
    BY <1>2 DEF ClearTextures
  <1>3. CASE ~LoadPicture /\ ~ClearTextures
    <2>1. texture' = texture
      BY <1>3 DEF Next, Choose, OpenFile, Parse, Malloc, MallocRow, Fails, Fill, SearchMap,
                  EnterLevel, Leave, Quit, FreeTextures, FreeLevel, vars, managerVars
    <2> QED BY <2>1
  <1> QED BY <1>1, <1>2, <1>3

\* Only LoadTexture puts a picture on the card, and it is of the load under way.
LEMMA CardStep == Inv /\ CardInv /\ [Next]_vars => CardInv'
  <1> SUFFICES ASSUME Inv, CardInv, [Next]_vars PROVE CardInv'
    OBVIOUS
  <1> DEFINE Earlier == Loading \cup {"entities", "textures"}
  <1>0. load \in Nat
    BY LevelAssumption DEF Inv, TypeOK
  <1>1. ASSUME NEW l \in Levels, Choose(l) PROVE CardInv'
    BY <1>0, <1>1 DEF Choose, CardInv
  <1>2. CASE LoadPicture
    <2>1. load' = load /\ load > 0 /\ pc' \notin Earlier
      BY <1>2 DEF LoadPicture, Inv, PlaceInv, AfterLoad, Loading
    <2>2. \A t \in card' : t \in card \/ t.load = load
      BY <1>2 DEF LoadPicture
    <2> QED BY <1>0, <2>1, <2>2 DEF CardInv
  <1>3. CASE ~LoadPicture /\ ~(\E l \in Levels : Choose(l))
    <2>1. load' = load /\ card' \subseteq card
      BY <1>3 DEF Next, OpenFile, Parse, Malloc, MallocRow, Fails, Fill, SearchMap, ClearTextures,
                  EnterLevel, Leave, Quit, FreeTextures, FreeLevel, vars
    <2>2. pc' \in Earlier => pc \in Earlier
      <3>1. CASE OpenFile \/ Parse \/ Malloc \/ MallocRow \/ Fill \/ SearchMap
        BY <3>1 DEF OpenFile, Parse, Malloc, MallocRow, Fill, SearchMap, Loading
      <3>2. CASE Fails \/ ClearTextures \/ EnterLevel \/ Leave \/ Quit \/ FreeTextures \/ FreeLevel
        BY <3>2 DEF Fails, ClearTextures, EnterLevel, Leave, Quit, FreeTextures, FreeLevel, Loading
      <3>3. CASE UNCHANGED vars
        BY <3>3 DEF vars
      <3> QED BY <1>3, <3>1, <3>2, <3>3 DEF Next
    <2> QED BY <2>1, <2>2 DEF CardInv
  <1> QED BY <1>1, <1>2, <1>3

\* init_texture_manager takes the objects one by one, and puts the picture of an
\* object whose id is its place into that object's slot.
LEMMA SlotsStep ==
  Inv /\ CardInv /\ SlotsInv /\ DOMAIN texture = Slots /\ [Next]_vars => SlotsInv'
  <1> SUFFICES ASSUME Inv, CardInv, SlotsInv, DOMAIN texture = Slots, [Next]_vars,
                      Showing', Dense(level[load])'
               PROVE  SlotsInv'
    BY DEF SlotsInv
  <1> DEFINE O == Objects[level[load]]
  <1>1. CASE ClearTextures
    <2>1. /\ load' = load /\ level' = level /\ k' = 1 /\ max_id' = 0 /\ card' = card
          /\ pc = "textures" /\ pc' = "texture" /\ load > 0
          /\ texture' = [s \in Slots |-> None]
      BY <1>1 DEF ClearTextures, Inv, PlaceInv, AfterLoad
    <2>2. Len(O) \in Nat
      BY <2>1, LevelAssumption DEF Inv, TypeOK
    <2>3. \A t \in card : t.load # load
      BY <2>1 DEF CardInv
    <2>4. 0..(k' - 2) = {}
      BY <2>1
    <2>5. \A s \in Slots : texture'[s] = None
      BY <2>1
    <2> QED BY ONLY <2>1, <2>2, <2>3, <2>4, <2>5 DEF SlotsInv, Slots
  <1>2. CASE LoadPicture
    <2>1. /\ UNCHANGED <<load, level>> /\ pc = "texture" /\ load > 0
          /\ k' = k + 1 /\ k <= Len(O)
      BY <1>2 DEF LoadPicture, Inv, PlaceInv, AfterLoad
    <2>2. Len(O) \in Nat /\ DOMAIN O = 1..Len(O)
      BY <2>1, LevelAssumption DEF Inv, TypeOK
    <2>3. Dense(level[load]) /\ Showing
      BY <2>1 DEF Dense, Showing
    <2>4. k \in 1..Len(O) /\ O[k].id = k - 1 /\ (k - 1) + 1 = k
      BY <2>1, <2>2, <2>3 DEF SlotsInv, Dense
    <2>5. pc' = "texture" /\ k - 1 \in Slots
      BY <1>2, <2>2, <2>4 DEF LoadPicture, Showing
    <2>6. max_id' = IF k - 1 > max_id THEN k - 1 ELSE max_id
      BY <1>2, <2>2, <2>4, <2>5 DEF LoadPicture
    <2>7. max_id' = k - 1
      <3>1. k \in Nat \ {0} /\ max_id = IF k = 1 THEN 0 ELSE k - 2
        BY <2>3, <2>4 DEF SlotsInv
      <3> QED BY ONLY <2>6, <3>1
    <2>8. \A s : Entry(s)' = Entry(s)
      BY <2>1 DEF Entry
    <2>9. /\ texture'[k - 1] = Entry(k - 1)
          /\ \A s \in Slots : s # k - 1 => texture'[s] = texture[s]
          /\ Entry(k - 1) # None => Entry(k - 1) \in card'
          /\ O[k].picture \in Broken \cup {NoPicture} \/ k - 1 \in loaded'
          /\ loaded \ {k - 1} \subseteq loaded'
          /\ card \subseteq card' /\ card' \subseteq card \cup {Entry(k - 1)}
      <3>1. CASE O[k].picture = NoPicture
        <4>1. texture' = texture /\ card' = card /\ loaded' = loaded \ {k - 1}
          BY <1>2, <2>2, <2>4, <2>5, <3>1 DEF LoadPicture
        <4>2. Entry(k - 1) = None
          BY <2>4, <3>1 DEF Entry
        <4>3. texture[k - 1] = None
          BY <2>3, <2>4, <2>5 DEF SlotsInv
        <4> QED BY <3>1, <4>1, <4>2, <4>3
      <3>2. CASE O[k].picture # NoPicture
        <4>1. Entry(k - 1) = [load |-> load, id |-> k - 1, object |-> k,
                              picture |-> IF O[k].picture \in Broken THEN Placeholder
                                          ELSE O[k].picture]
          BY <2>4, <3>2 DEF Entry
        <4>2. /\ texture' = [texture EXCEPT ![k - 1] = Entry(k - 1)]
              /\ card' = card \cup {Entry(k - 1)}
              /\ loaded' = IF O[k].picture \in Broken THEN loaded \ {k - 1}
                           ELSE loaded \cup {k - 1}
          BY <1>2, <2>2, <2>4, <2>5, <3>2, <4>1 DEF LoadPicture
        <4> QED BY <2>5, <4>2
      <3> QED BY <3>1, <3>2
    <2>10. 0..(k' - 2) = 0..(k - 2) \cup {k - 1} /\ k - 1 \notin 0..(k - 2)
      BY <2>1, <2>4
    <2>11. ASSUME NEW s \in 0..(k' - 2)
           PROVE  /\ s \in Slots /\ texture'[s] = Entry(s)
                  /\ Entry(s) # None => Entry(s) \in card'
                  /\ O[s + 1].picture \in Broken \cup {NoPicture} \/ s \in loaded'
      <3>1. CASE s = k - 1
        BY <2>4, <2>5, <2>9, <3>1
      <3>2. CASE s \in 0..(k - 2)
        <4>1. s # k - 1
          BY <2>10, <3>2
        <4> QED BY <2>3, <2>9, <3>2, <4>1 DEF SlotsInv
      <3> QED BY <2>10, <3>1, <3>2
    <2>12. \A s \in Slots : s > k' - 2 => texture'[s] = None
      <3>1. \A s \in Slots : s > k' - 2 => s # k - 1 /\ s > k - 2
        BY <2>1, <2>4 DEF Slots
      <3> QED BY <2>3, <2>9, <3>1 DEF SlotsInv
    <2>13. \A t \in card' : t.load = load => \E s \in 0..(k' - 2) : t = Entry(s)
      BY <2>3, <2>9, <2>10 DEF SlotsInv
    <2>14. k' \in 1..(Len(O) + 1) /\ max_id' = k' - 2 /\ k' # 1
      BY <2>1, <2>2, <2>4, <2>7
    <2>15. Slots' = Slots
      BY DEF Slots
    <2> QED BY ONLY <2>1, <2>5, <2>8, <2>11, <2>12, <2>13, <2>14, <2>15 DEF SlotsInv
  <1>3. CASE EnterLevel \/ Leave \/ Quit \/ UNCHANGED vars
    <2>1. UNCHANGED <<load, level, k, card, managerVars>>
      BY <1>3 DEF EnterLevel, Leave, Quit, vars
    <2>2. Showing
      BY <1>3 DEF EnterLevel, Leave, Quit, vars, Showing, Inv, PlaceInv, AfterLoad
    <2>3. Dense(level[load])
      BY <2>1 DEF Dense
    <2>4. \A s : Entry(s)' = Entry(s)
      BY <2>1 DEF Entry
    <2>5. pc' # "texture" => k = Len(O) + 1
      <3>1. CASE EnterLevel
        <4>1. k \in 1..(Len(O) + 1) /\ k > Len(O)
          BY <2>2, <2>3, <3>1 DEF SlotsInv, EnterLevel
        <4>2. Len(O) \in Nat
          BY <3>1, LevelAssumption DEF EnterLevel, Inv, TypeOK, PlaceInv, AfterLoad
        <4> QED BY <4>1, <4>2
      <3>2. CASE Leave \/ Quit \/ UNCHANGED vars
        BY <2>2, <2>3, <3>2 DEF Leave, Quit, vars, SlotsInv
      <3> QED BY <1>3, <3>1, <3>2
    <2> QED BY <2>1, <2>2, <2>3, <2>4, <2>5 DEF SlotsInv, managerVars, Slots
  <1>4. CASE ~ClearTextures /\ ~LoadPicture /\ ~EnterLevel /\ ~Leave /\ ~Quit /\ ~UNCHANGED vars
    <2>1. ~Showing'
      <3>1. CASE FreeTextures \/ FreeLevel \/ Fails
        BY <3>1 DEF FreeTextures, FreeLevel, Fails, Showing
      <3>2. CASE ~FreeTextures /\ ~FreeLevel /\ ~Fails
        BY <1>4, <3>2 DEF Next, Choose, OpenFile, Parse, Malloc, MallocRow, Fill, SearchMap, Showing
      <3> QED BY <3>1, <3>2
    <2> QED BY <2>1
  <1> QED BY <1>1, <1>2, <1>3, <1>4

\* free_texture_manager takes every picture of the last level off the card but
\* the placeholders and the one with the greatest id.
LEMMA LeftStep == Inv /\ PictureInv /\ [Next]_vars => LeftInv'
  <1> SUFFICES ASSUME Inv, PictureInv, [Next]_vars PROVE LeftInv'
    OBVIOUS
  <1> DEFINE O == Objects[level[load]]
  <1>1. CASE FreeTextures
    <2>1. /\ UNCHANGED <<load, level, max_id, current_map>> /\ current_map = load /\ load > 0
          /\ card' = card \ {texture[s] : s \in Unloaded} /\ Showing /\ pc = "unload"
      BY <1>1 DEF FreeTextures, Inv, PlaceInv, AfterLoad, Showing
    <2>2. SUFFICES ASSUME Dense(level[load]), NEW t \in card', t.load = load
                   PROVE  t.picture = Placeholder \/ t.id = max_id
      BY <2>1 DEF LeftInv, Dense
    <2>3. PICK s \in 0..(k - 2) : t = Entry(s)
      BY <2>1, <2>2 DEF PictureInv, SlotsInv
    <2>4. /\ k \in Nat /\ max_id = IF k = 1 THEN 0 ELSE k - 2
          /\ texture[s] = Entry(s) /\ s \in Slots
          /\ O[s + 1].picture \in Broken \cup {NoPicture} \/ s \in loaded
      BY <2>1, <2>2 DEF PictureInv, SlotsInv, Inv, TypeOK
    <2>5. s \notin loaded \/ s = max_id
      <3>1. s \notin Unloaded
        BY <2>1, <2>2, <2>3, <2>4
      <3> QED BY <2>3, <2>4, <3>1 DEF Unloaded
    <2>6. O[s + 1].picture # NoPicture
      BY <2>1, <2>2, <2>3 DEF Entry, None
    <2>7. t.id = s /\ (O[s + 1].picture \in Broken => t.picture = Placeholder)
      BY <2>3, <2>6 DEF Entry
    <2> QED BY <2>4, <2>5, <2>6, <2>7
  <1>2. CASE FreeLevel \/ UNCHANGED vars
    BY <1>2 DEF FreeLevel, vars, managerVars, PictureInv, LeftInv, Dense
  <1>3. CASE Quit
    BY <1>3 DEF Quit, LeftInv
  <1>4. CASE ~FreeTextures /\ ~FreeLevel /\ ~Quit /\ ~UNCHANGED vars
    <2>1. pc' \notin {"free", "done"}
      BY <1>4 DEF Next, Choose, OpenFile, Parse, Malloc, MallocRow, Fails, Fill, SearchMap,
                  ClearTextures, LoadPicture, EnterLevel, Leave
    <2> QED BY <2>1 DEF LeftInv
  <1> QED BY <1>1, <1>2, <1>3, <1>4

-----------------------------------------------------------------------------
(* Theorems                                                                *)

\* The invariant holds throughout.
LEMMA Inductive == Spec => []Inv
  <1>1. Inv /\ [Next]_vars => Inv'
    BY TypeStep, OwnerStep, PlaceStep, HeldStep, FailStep, GoneStep DEF Inv
  <1> QED BY Initially, <1>1, PTL DEF Spec

\* Type correctness, for any levels and any number of loads.
THEOREM TypeCorrect == Spec => []TypeOK
  <1>1. Inv => TypeOK BY DEF Inv
  <1> QED BY <1>1, Inductive, PTL

\* Whichever allocation load_level_config is refused, its error path frees only
\* what this load allocated and has not yet given back.
THEOREM ErrorsOwn == Spec => []ErrorsFreeOwned
  <1>1. Inv => ErrorsFreeOwned
    <2> SUFFICES ASSUME Inv,
                        pc \in {"open", "data", "parse", "config", "objects", "layout", "rows", "row"}
                 PROVE  FreedOnError(pc) \subseteq heap
      BY DEF ErrorsFreeOwned
    <2>1. Held \subseteq heap
      BY DEF Inv, HeldInv, Loading, Of
    <2>2. FreedOnError(pc) \subseteq Held
      BY HeldAt DEF FreedOnError, Whole
    <2> QED BY <2>1, <2>2
  <1> QED BY <1>1, Inductive, PTL

\* Whatever level fails to load, at whatever step, only the refusal of the layout
\* or of a row leaves memory behind.
THEOREM FailuresLeave == Spec => []FailedLoadLeaves
  <1>1. Inv => FailedLoadLeaves BY DEF Inv
  <1> QED BY <1>1, Inductive, PTL

\* A level that is played holds exactly what free_level_config will give back.
THEOREM PlayOwned == Spec => []PlayHoldsLevel
  <1>1. Inv => PlayHoldsLevel
    <2> SUFFICES ASSUME Inv, pc = "play", Map[level[current_map]] = "whole"
                 PROVE  Of(current_map) = FreedWithLevel(current_map)
      BY DEF PlayHoldsLevel
    <2>1. current_map = load /\ Of(load) = Whole \cup RowBlocks
      BY HeldAt DEF Inv, PlaceInv, HeldInv, Complete
    <2> QED BY <2>1, FreedWhole DEF RowBlocks
  <1> QED BY <1>1, Inductive, PTL

\* The invariant on the pictures holds throughout.
LEMMA PicturesKept == Spec => []PictureInv
  <1>1. Inv /\ PictureInv /\ [Next]_vars => PictureInv'
    BY CardStep, SlotStep, SlotsStep, LeftStep DEF PictureInv
  <1> QED BY NoPictures, Inductive, <1>1, PTL DEF Spec

\* A level whose ids count its objects is drawn with its own pictures, loaded for
\* this load of it, whatever levels were loaded before and were never unloaded.
THEOREM PicturesOwn == Spec => []OwnPictures
  <1>1. Inv /\ PictureInv => OwnPictures
    <2> SUFFICES ASSUME Inv, PictureInv, pc = "play", Dense(level[current_map]),
                        NEW id \in Tiles[level[current_map]], id < Len(Objects[level[current_map]])
                 PROVE  LET picture == Objects[level[current_map]][id + 1].picture
                        IN  IF picture = NoPicture THEN texture[id] = None
                            ELSE /\ texture[id] \in card
                                 /\ texture[id].load = current_map
                                 /\ texture[id].picture =
                                      IF picture \in Broken THEN Placeholder ELSE picture
      BY DEF OwnPictures
    <2>1. current_map = load /\ load > 0 /\ Showing /\ level[load] \in Levels
      BY DEF Inv, PlaceInv, AfterLoad, Showing, TypeOK
    <2>2. id \in Nat /\ Len(Objects[level[load]]) \in Nat
      BY <2>1, LevelAssumption
    <2>3. id \in 0..(k - 2)
      BY <2>1, <2>2 DEF PictureInv, SlotsInv
    <2>4. texture[id] = Entry(id) /\ (Entry(id) # None => Entry(id) \in card)
      BY <2>1, <2>3 DEF PictureInv, SlotsInv
    <2>5. CASE Objects[level[load]][id + 1].picture = NoPicture
      BY <2>1, <2>4, <2>5 DEF Entry
    <2>6. CASE Objects[level[load]][id + 1].picture # NoPicture
      <3>1. Entry(id).load = load /\ None.load = 0
        BY <2>6 DEF Entry, None
      <3>2. Entry(id) \in card
        BY <2>1, <2>4, <3>1
      <3> QED BY <2>1, <2>4, <2>6, <3>1, <3>2 DEF Entry
    <2> QED BY <2>5, <2>6
  <1> QED BY <1>1, Inductive, PicturesKept, PTL

\* However many levels were loaded, and failed, before it: the end gives back all
\* memory of the last level, and all its pictures but those the unloading skips.
THEOREM LastReleased == Spec => []LastLevelReleased
  <1>1. Inv /\ PictureInv => LastLevelReleased
    BY DEF Inv, GoneInv, PictureInv, LeftInv, LastLevelReleased
  <1> QED BY <1>1, Inductive, PicturesKept, PTL

-----------------------------------------------------------------------------
(* MapEditor                                                               *)

-----------------------------------------------------------------------------
(* Sets of numbers                                                         *)

\* A set of natural numbers has a least one.
LEMMA LeastOf ==
  ASSUME NEW S \in SUBSET Nat, S # {}
  PROVE  Min(S) \in S /\ \A x \in S : Min(S) <= x
  <1>1. PICK least \in S : \A x \in S : ~(<<x, least>> \in OpToRel(<, Nat))
    BY ONLY S \in SUBSET Nat, S # {}, NatLessThanWellFounded, WFMin
  <1>2. \A x \in S : least <= x
    <2>1. SUFFICES ASSUME NEW x \in S, ~(least <= x) PROVE FALSE
      OBVIOUS
    <2>2. x < least /\ <<x, least>> \in Nat \X Nat
      BY <2>1
    <2>3. <<x, least>> \in OpToRel(<, Nat)
      BY <2>2 DEF OpToRel
    <2> QED BY <1>1, <2>3
  <1> QED BY <1>2 DEF Min

\* A bounded one has a greatest.
LEMMA GreatestOf ==
  ASSUME NEW n \in Nat, NEW S \in SUBSET (0..n), S # {}
  PROVE  Max(S) \in S /\ \A x \in S : x <= Max(S)
  <1> DEFINE T == {n - x : x \in S}
  <1>1. T \in SUBSET Nat /\ T # {}
    <2>1. \A x \in S : n - x \in Nat
      OBVIOUS
    <2> QED BY ONLY <2>1, S # {}
  <1>2. Min(T) \in T /\ \A t \in T : Min(T) <= t
    BY <1>1, LeastOf
  <1>3. PICK greatest \in S : Min(T) = n - greatest
    BY <1>2
  <1>4. \A x \in S : n - greatest <= n - x
    BY <1>2, <1>3
  <1>5. \A x \in S : x <= greatest
    BY <1>4
  <1> QED BY <1>5 DEF Max

\* Of two members the greater has more members below it.
LEMMA NewIdGrows ==
  ASSUME NEW S \in SUBSET Nat, IsFiniteSet(S)
  PROVE  /\ Cardinality(S) \in Nat
         /\ \A x \in S : NewId(S, x) \in 0..(Cardinality(S) - 1) /\ NewId(S, x) <= x
         /\ \A x, y \in S : x < y => NewId(S, x) < NewId(S, y)
  <1> DEFINE Below(x) == {u \in S : u < x}
  <1>1. Cardinality(S) \in Nat
    BY FS_CardinalityType
  <1>2. \A x : IsFiniteSet(Below(x)) /\ Cardinality(Below(x)) \in Nat
    BY FS_Subset, FS_CardinalityType
  <1>3. ASSUME NEW x \in S, NEW T \in SUBSET S, Below(x) \in SUBSET T, x \in T
        PROVE  Cardinality(Below(x)) < Cardinality(T)
    <2>1. IsFiniteSet(T) /\ Cardinality(T) \in Nat
      BY FS_Subset, FS_CardinalityType
    <2>2. x \notin Below(x) /\ Below(x) \cup {x} \in SUBSET T
      BY <1>3
    <2>3. Cardinality(Below(x) \cup {x}) = Cardinality(Below(x)) + 1
      BY <1>2, <2>2, FS_AddElement
    <2>4. Cardinality(Below(x) \cup {x}) <= Cardinality(T)
      BY <2>1, <2>2, FS_Subset
    <2> QED BY <1>2, <2>1, <2>3, <2>4
  <1>4. \A x \in S : NewId(S, x) \in 0..(Cardinality(S) - 1)
    BY <1>1, <1>2, <1>3 DEF NewId
  <1>5. ASSUME NEW x \in S PROVE NewId(S, x) <= x
    <2>1. Below(x) \in SUBSET (0..(x - 1)) /\ x \in Nat
      <3>1. \A u \in S : u < x => u \in 0..(x - 1)
        OBVIOUS
      <3> QED BY ONLY <1>5, <3>1, S \in SUBSET Nat
    <2>2. IsFiniteSet(0..(x - 1)) /\ Cardinality(0..(x - 1)) = x
      <3>1. 0 \in Int /\ x - 1 \in Int
        BY <2>1
      <3>2. /\ IsFiniteSet(0..(x - 1))
            /\ Cardinality(0..(x - 1)) = IF 0 > x - 1 THEN 0 ELSE x - 1 - 0 + 1
        BY <3>1, FS_Interval
      <3> QED BY <2>1, <3>2
    <2>3. Cardinality(Below(x)) <= x
      <3> HIDE DEF Below
      <3> QED BY <2>1, <2>2, FS_Subset
    <2> QED BY <2>3 DEF NewId
  <1>6. ASSUME NEW x \in S, NEW y \in S, x < y PROVE NewId(S, x) < NewId(S, y)
    <2>1. Below(x) \in SUBSET Below(y) /\ x \in Below(y) /\ Below(y) \in SUBSET S
      <3>1. \A u \in S : u < x => u < y
        BY <1>6
      <3> QED BY ONLY <1>6, <3>1
    <2> QED BY <1>3, <2>1 DEF NewId
  <1> QED BY <1>1, <1>4, <1>5, <1>6

\* The sorted ids are the members, each at the place of its new id.
LEMMA Sorted ==
  ASSUME NEW S \in SUBSET Nat, IsFiniteSet(S)
  PROVE  /\ \A n \in 1..Cardinality(S) : Nth(S, n) \in S /\ NewId(S, Nth(S, n)) = n - 1
         /\ \A x \in S : Nth(S, NewId(S, x) + 1) = x
  <1> DEFINE size == Cardinality(S)
             ids == 0..(size - 1)
             f == [x \in S |-> NewId(S, x)]
  <1>1. /\ size \in Nat
        /\ \A x \in S : NewId(S, x) \in ids
        /\ \A x, y \in S : x < y => NewId(S, x) < NewId(S, y)
    BY NewIdGrows
  <1>2. \A x, y \in S : NewId(S, x) = NewId(S, y) => x = y
    <2>1. SUFFICES ASSUME NEW x \in S, NEW y \in S, NewId(S, x) = NewId(S, y)
                   PROVE  x = y
      OBVIOUS
    <2>2. ~(x < y) /\ ~(y < x) /\ x \in Nat /\ y \in Nat
      BY <1>1, <2>1
    <2> QED BY <2>2
  <1>3. IsFiniteSet(ids) /\ Cardinality(ids) = size
    <2>1. 0 \in Int /\ size - 1 \in Int
      BY <1>1
    <2>2. /\ IsFiniteSet(ids)
          /\ Cardinality(ids) = IF 0 > size - 1 THEN 0 ELSE size - 1 - 0 + 1
      BY <2>1, FS_Interval
    <2> QED BY <1>1, <2>2
  <1> HIDE DEF ids
  <1>4. f \in Injection(S, ids)
    BY <1>1, <1>2 DEF Injection, IsInjective
  <1>5. f \in Surjection(S, ids)
    BY <1>3, <1>4, FS_Injection
  <1>6. \A m \in ids : \E x \in S : NewId(S, x) = m
    BY <1>5 DEF Surjection
  <1>7. ASSUME NEW n \in 1..size
        PROVE  Nth(S, n) \in S /\ NewId(S, Nth(S, n)) = n - 1
    <2>1. n - 1 \in ids
      BY <1>1 DEF ids
    <2>2. PICK x \in S : NewId(S, x) = n - 1
      BY <1>6, <2>1
    <2> QED BY <2>2 DEF Nth, NewId
  <1>8. ASSUME NEW x \in S PROVE Nth(S, NewId(S, x) + 1) = x
    <2>1. NewId(S, x) + 1 \in 1..size /\ (NewId(S, x) + 1) - 1 = NewId(S, x)
      BY <1>1 DEF ids
    <2>2. Nth(S, NewId(S, x) + 1) \in S /\ NewId(S, Nth(S, NewId(S, x) + 1)) = NewId(S, x)
      BY <1>7, <2>1
    <2> QED BY <1>2, <2>2
  <1> QED BY <1>7, <1>8

-----------------------------------------------------------------------------
(* Objects and their ids                                                   *)

ObjectLists == Seq([id : Nat, kind : Kinds \ {UNKNOWN}])

Ids(objs) == {objs[i].id : i \in DOMAIN objs}

\* What objects are.
LEMMA ObjectTypes ==
  ASSUME NEW objs \in ObjectLists
  PROVE  /\ Len(objs) \in Nat /\ DOMAIN objs = 1..Len(objs)
         /\ \A i \in DOMAIN objs : objs[i].id \in Nat /\ objs[i].kind \in Kinds \ {UNKNOWN}
         /\ Ids(objs) \in SUBSET Nat
  <1> DEFINE Kept == Kinds \ {UNKNOWN}
  <1>1. objs \in Seq([id : Nat, kind : Kept])
    BY DEF ObjectLists
  <1> HIDE DEF Kept
  <1>2. Len(objs) \in Nat /\ DOMAIN objs = 1..Len(objs)
    BY <1>1, LenProperties
  <1>3. \A i \in DOMAIN objs : objs[i].id \in Nat /\ objs[i].kind \in Kept
    <2>1. \A i \in 1..Len(objs) : objs[i] \in [id : Nat, kind : Kept]
      BY <1>1, ElementOfSeq
    <2> QED BY <1>2, <2>1
  <1>4. Ids(objs) \in SUBSET Nat
    BY <1>3 DEF Ids
  <1> QED BY <1>2, <1>3, <1>4 DEF Kept

\* The object of an id is the first that has it.
LEMMA FirstOfId ==
  ASSUME NEW objs \in ObjectLists, NEW id \in Ids(objs)
  PROVE  \E i \in DOMAIN objs : /\ objs[i].id = id /\ KindOf(objs, id) = objs[i].kind
                                /\ \A j \in DOMAIN objs : objs[j].id = id => i <= j
  <1> DEFINE found == {i \in DOMAIN objs : objs[i].id = id}
  <1>1. DOMAIN objs \in SUBSET Nat
    BY DEF ObjectLists
  <1>2. found \in SUBSET Nat /\ found # {}
    BY <1>1 DEF Ids
  <1>3. Min(found) \in found /\ \A i \in found : Min(found) <= i
    BY <1>2, LeastOf
  <1>4. KindOf(objs, id) = objs[Min(found)].kind
    BY <1>2 DEF KindOf
  <1> QED BY <1>3, <1>4

\* The first object with an id gives it its kind.
LEMMA KindOfIs ==
  ASSUME NEW objs \in ObjectLists, NEW i \in DOMAIN objs,
         \A j \in DOMAIN objs : j < i => objs[j].id # objs[i].id
  PROVE  KindOf(objs, objs[i].id) = objs[i].kind
  <1>1. DOMAIN objs \in SUBSET Nat
    BY DEF ObjectLists
  <1>2. objs[i].id \in Ids(objs)
    BY DEF Ids
  <1>3. PICK m \in DOMAIN objs : /\ objs[m].id = objs[i].id
                                 /\ KindOf(objs, objs[i].id) = objs[m].kind
                                 /\ \A j \in DOMAIN objs : objs[j].id = objs[i].id => m <= j
    BY <1>2, FirstOfId
  <1>4. m <= i /\ ~(m < i) /\ m \in Nat /\ i \in Nat
    BY <1>1, <1>3
  <1> QED BY <1>3, <1>4

Counted(objs) == \A i \in DOMAIN objs : objs[i].id = i - 1

\* In a file the object of an id stands at its place.
LEMMA DenseKinds ==
  ASSUME NEW objs \in ObjectLists, Counted(objs)
  PROVE  /\ Len(objs) \in Nat /\ Ids(objs) = 0..(Len(objs) - 1)
         /\ \A id \in 0..(Len(objs) - 1) :
              id + 1 \in DOMAIN objs /\ KindOf(objs, id) = objs[id + 1].kind
         /\ \A id : id \notin 0..(Len(objs) - 1) => KindOf(objs, id) = UNKNOWN
  <1>1. Len(objs) \in Nat /\ DOMAIN objs = 1..Len(objs)
    BY DEF ObjectLists
  <1>2. \A i \in 1..Len(objs) : objs[i].id = i - 1
    BY <1>1 DEF Counted
  <1>3. \A id \in 0..(Len(objs) - 1) : id + 1 \in 1..Len(objs) /\ objs[id + 1].id = id
    BY <1>1, <1>2
  <1>4. Ids(objs) = 0..(Len(objs) - 1)
    <2>1. \A i \in 1..Len(objs) : objs[i].id \in 0..(Len(objs) - 1)
      BY <1>1, <1>2
    <2> QED BY <1>1, <1>3, <2>1 DEF Ids
  <1>5. ASSUME NEW id \in 0..(Len(objs) - 1)
        PROVE  KindOf(objs, id) = objs[id + 1].kind
    <2>1. \A j \in DOMAIN objs : j < id + 1 => objs[j].id # objs[id + 1].id
      BY <1>1, <1>2, <1>3
    <2>2. id + 1 \in DOMAIN objs /\ objs[id + 1].id = id
      BY <1>1, <1>3
    <2>3. KindOf(objs, objs[id + 1].id) = objs[id + 1].kind
      BY <2>1, <2>2, KindOfIs
    <2> QED BY <2>2, <2>3
  <1>6. ASSUME NEW id, id \notin Ids(objs) PROVE KindOf(objs, id) = UNKNOWN
    BY <1>6 DEF KindOf, Ids
  <1> QED BY <1>1, <1>3, <1>4, <1>5, <1>6

-----------------------------------------------------------------------------
(* SaveLevelConfig                                                         *)

\* What is kept of the layout lies in the grid and contains all that is drawn.
LEMMA CropIs ==
  ASSUME NEW d
  PROVE  \E a, b \in Nat, r \in 1..GridRows, c \in 1..GridCols :
           /\ Corner(d) = <<a, b>> /\ Size(d) = <<r, c>>
           /\ a + r <= GridRows /\ b + c <= GridCols
           /\ \A cell \in Drawn(d) : cell[1] - a \in 0..(r - 1) /\ cell[2] - b \in 0..(c - 1)
  <1>1. GridRows \in Nat \ {0} /\ GridCols \in Nat \ {0}
    BY EditorAssumption
  <1>2. CASE Drawn(d) = {}
    <2>1. Corner(d) = <<0, 0>> /\ Size(d) = <<1, 1>>
      BY <1>2 DEF Corner, Size
    <2> QED BY <1>1, <1>2, <2>1
  <1>3. CASE Drawn(d) # {}
    <2> DEFINE R == {cell[1] : cell \in Drawn(d)}
               C == {cell[2] : cell \in Drawn(d)}
    <2>1. \A cell \in Drawn(d) : cell[1] \in 0..(GridRows - 1) /\ cell[2] \in 0..(GridCols - 1)
      BY DEF Drawn, Cells
    <2>2. R \in SUBSET (0..(GridRows - 1)) /\ C \in SUBSET (0..(GridCols - 1)) /\ R # {} /\ C # {}
      BY <1>3, <2>1
    <2>3. R \in SUBSET Nat /\ C \in SUBSET Nat
      BY <1>1, <2>2
    <2> HIDE DEF R, C
    <2>4. /\ Min(R) \in R /\ \A x \in R : Min(R) <= x
          /\ Min(C) \in C /\ \A x \in C : Min(C) <= x
      BY <2>2, <2>3, LeastOf
    <2>5. /\ Max(R) \in R /\ \A x \in R : x <= Max(R)
          /\ Max(C) \in C /\ \A x \in C : x <= Max(C)
      <3>1. GridRows - 1 \in Nat /\ GridCols - 1 \in Nat
        BY <1>1
      <3> QED BY <2>2, <3>1, GreatestOf
    <2> DEFINE a == Min(R)
               b == Min(C)
               r == Max(R) - Min(R) + 1
               c == Max(C) - Min(C) + 1
    <2>6. Corner(d) = <<a, b>> /\ Size(d) = <<r, c>>
      BY <1>3 DEF Corner, Size, R, C
    <2>7. /\ a \in Nat /\ b \in Nat /\ r \in 1..GridRows /\ c \in 1..GridCols
          /\ a + r <= GridRows /\ b + c <= GridCols
      <3>1. Min(R) \in 0..(GridRows - 1) /\ Max(R) \in 0..(GridRows - 1) /\ Min(R) <= Max(R)
        BY <2>2, <2>4, <2>5
      <3>2. Min(C) \in 0..(GridCols - 1) /\ Max(C) \in 0..(GridCols - 1) /\ Min(C) <= Max(C)
        BY <2>2, <2>4, <2>5
      <3> QED BY <1>1, <3>1, <3>2
    <2>8. ASSUME NEW cell \in Drawn(d)
          PROVE  cell[1] - a \in 0..(r - 1) /\ cell[2] - b \in 0..(c - 1)
      <3>1. cell[1] \in R /\ cell[2] \in C
        BY DEF R, C
      <3>2. /\ Min(R) <= cell[1] /\ cell[1] <= Max(R) /\ Min(R) \in Nat /\ Max(R) \in Nat /\ cell[1] \in Nat
            /\ Min(C) <= cell[2] /\ cell[2] <= Max(C) /\ Min(C) \in Nat /\ Max(C) \in Nat /\ cell[2] \in Nat
        BY <2>3, <2>4, <2>5, <3>1
      <3> QED BY <3>2
    <2> HIDE DEF a, b, r, c
    <2> QED BY <2>6, <2>7, <2>8
  <1> QED BY <1>2, <1>3

\* Cropping to r rows and c columns moves <<a, b>> to the origin.
Crops(d, a, b, r, c) ==
  /\ Corner(d) = <<a, b>>
  /\ \A cell \in Drawn(d) : cell[1] - a \in 0..(r - 1) /\ cell[2] - b \in 0..(c - 1)
  /\ \A i \in 0..(r - 1), j \in 0..(c - 1) : <<a + i, b + j>> \in Cells
  /\ \A g : /\ DOMAIN Cropped(d, g) = (0..(r - 1)) \X (0..(c - 1))
            /\ \A i \in 0..(r - 1), j \in 0..(c - 1) :
                 Cropped(d, g)[<<i, j>>] = g[<<a + i, b + j>>]

\* That is what cropping does.
LEMMA CroppedIs ==
  ASSUME NEW d
  PROVE  \E a, b \in Nat, r \in 1..GridRows, c \in 1..GridCols : Crops(d, a, b, r, c)
  <1>1. PICK a \in Nat, b \in Nat, r \in 1..GridRows, c \in 1..GridCols :
          /\ Corner(d) = <<a, b>> /\ Size(d) = <<r, c>>
          /\ a + r <= GridRows /\ b + c <= GridCols
          /\ \A cell \in Drawn(d) : cell[1] - a \in 0..(r - 1) /\ cell[2] - b \in 0..(c - 1)
    BY CropIs
  <1>2. GridRows \in Nat /\ GridCols \in Nat
    BY EditorAssumption
  <1>3. \A i \in 0..(r - 1), j \in 0..(c - 1) : <<a + i, b + j>> \in Cells
    <2>1. \A i \in 0..(r - 1), j \in 0..(c - 1) : a + i \in 0..(GridRows - 1) /\ b + j \in 0..(GridCols - 1)
      BY <1>1, <1>2
    <2> QED BY <2>1 DEF Cells
  <1>4. ASSUME NEW g
        PROVE  /\ DOMAIN Cropped(d, g) = (0..(r - 1)) \X (0..(c - 1))
               /\ \A i \in 0..(r - 1), j \in 0..(c - 1) :
                    Cropped(d, g)[<<i, j>>] = g[<<a + i, b + j>>]
    <2>1. Cropped(d, g) = [cell \in (0..(r - 1)) \X (0..(c - 1)) |-> g[<<a + cell[1], b + cell[2]>>]]
      BY <1>1 DEF Cropped
    <2> QED BY <2>1
  <1>5. Crops(d, a, b, r, c)
    BY <1>1, <1>3, <1>4 DEF Crops
  <1> QED BY <1>5

HasDoorAndEnd(objs) == KindOf(objs, 2) = DOOR /\ KindOf(objs, 3) = END

\* A kept cell's object is saved at the place of its new id.
LEMMA SavedIs ==
  ASSUME NEW objs \in ObjectLists, NEW d \in [Cells -> Ids(objs)]
  PROVE  LET f    == SaveLevelConfig(objs, d)
             kept == Cropped(d, d)
             used == Range(kept)
         IN  /\ used \in SUBSET Ids(objs) /\ used \in SUBSET Nat /\ IsFiniteSet(used)
             /\ f.objects \in ObjectLists /\ Counted(f.objects)
             /\ Len(f.objects) = Cardinality(used)
             /\ \A n \in 1..Cardinality(used) : f.objects[n].kind = KindOf(objs, Nth(used, n))
             /\ DOMAIN f.data = DOMAIN kept /\ f.data = [c \in DOMAIN kept |-> f.data[c]]
             /\ \A c \in DOMAIN kept : /\ f.data[c] \in 0..(Len(f.objects) - 1)
                                       /\ KindOf(f.objects, f.data[c]) = KindOf(objs, kept[c])
  <1> DEFINE f    == SaveLevelConfig(objs, d)
             kept == Cropped(d, d)
             used == Range(kept)
             size == Cardinality(used)
  <1>1. PICK a \in Nat, b \in Nat, r \in 1..GridRows, q \in 1..GridCols : Crops(d, a, b, r, q)
    BY CroppedIs
  <1>2. /\ DOMAIN kept = (0..(r - 1)) \X (0..(q - 1))
        /\ \A i \in 0..(r - 1), j \in 0..(q - 1) :
             <<a + i, b + j>> \in Cells /\ kept[<<i, j>>] = d[<<a + i, b + j>>]
    BY <1>1 DEF Crops
  <1>3. f = [objects |-> SavedObjects(objs, used),
             data    |-> [c \in DOMAIN kept |-> NewId(used, kept[c])]]
    BY DEF SaveLevelConfig
  <1>4. used = {kept[c] : c \in DOMAIN kept}
    BY DEF Range
  <1>5. kept \in [DOMAIN kept -> used]
    BY <1>4 DEF Cropped
  <1> HIDE DEF kept, used, f
  <1>6. \A c \in DOMAIN kept : kept[c] \in used /\ kept[c] \in Ids(objs)
    <2>1. ASSUME NEW c \in DOMAIN kept PROVE kept[c] \in used /\ kept[c] \in Ids(objs)
      <3>1. PICK i \in 0..(r - 1), j \in 0..(q - 1) : c = <<i, j>>
        BY <1>2
      <3>2. <<a + i, b + j>> \in Cells /\ kept[c] = d[<<a + i, b + j>>]
        BY <1>2, <3>1
      <3> QED BY <1>4, <3>2
    <2> QED BY <2>1
  <1>7. \A i \in DOMAIN objs : objs[i].id \in Nat /\ objs[i].kind \in Kinds \ {UNKNOWN}
    BY ObjectTypes
  <1>8. used \in SUBSET Ids(objs) /\ used \in SUBSET Nat
    <2>1. Ids(objs) \in SUBSET Nat
      BY <1>7 DEF Ids
    <2> QED BY <1>4, <1>6, <2>1
  <1>9. IsFiniteSet(used) /\ size \in Nat
    <2>1. r \in Int /\ q \in Int /\ 0 \in Int /\ r - 1 \in Int /\ q - 1 \in Int
      OBVIOUS
    <2>2. IsFiniteSet(0..(r - 1)) /\ IsFiniteSet(0..(q - 1))
      BY <2>1, FS_Interval
    <2>3. IsFiniteSet(DOMAIN kept)
      <3>1. IsFiniteSet((0..(r - 1)) \X (0..(q - 1)))
        BY <2>2, FS_Product
      <3> QED BY <1>2, <3>1
    <2>4. kept \in Surjection(DOMAIN kept, used)
      BY <1>4, <1>5 DEF Surjection
    <2>5. IsFiniteSet(used)
      BY <2>3, <2>4, FS_Surjection
    <2> QED BY <2>5, FS_CardinalityType
  <1>10. /\ \A n \in 1..size : Nth(used, n) \in used /\ NewId(used, Nth(used, n)) = n - 1
         /\ \A x \in used : Nth(used, NewId(used, x) + 1) = x
    BY <1>8, <1>9, Sorted
  <1>11. \A x \in used : NewId(used, x) \in 0..(size - 1)
    BY <1>8, <1>9, NewIdGrows
  <1>12. \A x \in Ids(objs) : KindOf(objs, x) \in Kinds \ {UNKNOWN}
    <2>1. SUFFICES ASSUME NEW x \in Ids(objs) PROVE KindOf(objs, x) \in Kinds \ {UNKNOWN}
      OBVIOUS
    <2>2. PICK i \in DOMAIN objs : KindOf(objs, x) = objs[i].kind
      BY FirstOfId
    <2> QED BY <1>7, <2>2
  <1>13. f.objects = [n \in 1..size |-> [id |-> n - 1, kind |-> KindOf(objs, Nth(used, n))]]
    BY <1>3 DEF SavedObjects, Object
  <1>14. f.objects \in ObjectLists /\ Len(f.objects) = size /\ DOMAIN f.objects = 1..size
    <2>1. \A n \in 1..size : n - 1 \in Nat /\ KindOf(objs, Nth(used, n)) \in Kinds \ {UNKNOWN}
      <3>1. \A n \in 1..size : n - 1 \in Nat
        BY <1>9
      <3>2. \A n \in 1..size : KindOf(objs, Nth(used, n)) \in Kinds \ {UNKNOWN}
        BY ONLY <1>8, <1>10, <1>12
      <3> QED BY ONLY <3>1, <3>2
    <2>2. f.objects \in [1..size -> [id : Nat, kind : Kinds \ {UNKNOWN}]]
      BY ONLY <1>13, <2>1
    <2>3. f.objects \in ObjectLists
      <3> DEFINE O == [id : Nat, kind : Kinds \ {UNKNOWN}]
                 new == f.objects
      <3>1. new \in [1..size -> O] /\ size \in Nat
        BY <1>9, <2>2
      <3> HIDE DEF O, new, size
      <3>2. new \in Seq(O)
        BY ONLY <3>1
      <3> QED BY <3>2 DEF O, new, ObjectLists
    <2>4. DOMAIN f.objects = 1..size
      BY ONLY <2>2
    <2>5. Len(f.objects) \in Nat /\ DOMAIN f.objects = 1..Len(f.objects)
      BY ONLY <2>3, LenProperties DEF ObjectLists
    <2>6. Len(f.objects) = size
      BY ONLY <1>9, <2>4, <2>5
    <2> QED BY ONLY <2>3, <2>4, <2>6
  <1>15. Counted(f.objects) /\ \A n \in 1..size : f.objects[n].kind = KindOf(objs, Nth(used, n))
    BY <1>13 DEF Counted
  <1>16. f.data = [c \in DOMAIN kept |-> NewId(used, kept[c])]
    BY <1>3
  <1>17. ASSUME NEW c \in DOMAIN kept
         PROVE  /\ f.data[c] \in 0..(Len(f.objects) - 1)
                /\ KindOf(f.objects, f.data[c]) = KindOf(objs, kept[c])
    <2>1. kept[c] \in used /\ f.data[c] = NewId(used, kept[c])
      BY <1>6, <1>16
    <2>2. f.data[c] \in 0..(size - 1) /\ f.data[c] + 1 \in 1..size
      BY <1>9, <1>11, <2>1
    <2>3. KindOf(f.objects, f.data[c]) = f.objects[f.data[c] + 1].kind
      BY <1>14, <1>15, <2>2, DenseKinds
    <2>4. f.objects[f.data[c] + 1].kind = KindOf(objs, Nth(used, NewId(used, kept[c]) + 1))
      BY <1>15, <2>1, <2>2
    <2> QED BY <1>10, <1>14, <2>1, <2>2, <2>3, <2>4
  <1>18. DOMAIN f.data = DOMAIN kept /\ f.data = [c \in DOMAIN kept |-> f.data[c]]
    BY <1>16
  <1> QED BY <1>8, <1>9, <1>14, <1>15, <1>17, <1>18 DEF f, kept, used

\* Renumbering never raises an id, so that an object with the id 2 or 3 of a door
\* or an end in a file has it from the palette, with all ids below it.
LEMMA SavedMarks ==
  ASSUME NEW objs \in ObjectLists, NoneAbove(objs), NEW used \in SUBSET Ids(objs),
         used \in SUBSET Nat, IsFiniteSet(used)
  PROVE  /\ \A n \in 1..Cardinality(used), bound \in Nat :
              (\A i \in DOMAIN objs : objs[i].kind = KindOf(objs, Nth(used, n)) => objs[i].id <= bound)
                => n - 1 <= bound
         /\ 4 <= Cardinality(used) /\ KindOf(objs, Nth(used, 4)) = END
              => \A id \in {0, 1, 2, 3} : Nth(used, id + 1) = id
  <1> DEFINE size == Cardinality(used)
  <1>1. size \in Nat
    BY FS_CardinalityType
  <1>2. /\ \A n \in 1..size : Nth(used, n) \in used /\ NewId(used, Nth(used, n)) = n - 1
        /\ \A x \in used : Nth(used, NewId(used, x) + 1) = x
    BY Sorted
  <1>3. /\ \A x \in used : NewId(used, x) <= x
        /\ \A x, y \in used : x < y => NewId(used, x) < NewId(used, y)
    BY NewIdGrows
  <1>4. \A n \in 1..size : \E i \in DOMAIN objs :
          objs[i].id = Nth(used, n) /\ objs[i].kind = KindOf(objs, Nth(used, n))
    BY <1>2, FirstOfId
  <1>5. \A n \in 1..size : n - 1 <= Nth(used, n) /\ Nth(used, n) \in Nat
    BY <1>2, <1>3
  <1>6. ASSUME NEW n \in 1..size, NEW bound \in Nat,
               \A i \in DOMAIN objs : objs[i].kind = KindOf(objs, Nth(used, n)) => objs[i].id <= bound
        PROVE  n - 1 <= bound /\ Nth(used, n) <= bound
    <2>1. Nth(used, n) <= bound
      BY <1>4, <1>6
    <2> QED BY <1>5, <2>1
  <1>7. ASSUME 4 <= size, KindOf(objs, Nth(used, 4)) = END
        PROVE  \A id \in {0, 1, 2, 3} : Nth(used, id + 1) = id
    <2>1. 4 \in 1..size /\ 3 \in 1..size /\ 2 \in 1..size /\ 1 \in 1..size
      BY <1>1, <1>7
    <2>2. Nth(used, 4) <= 3
      <3>1. \A i \in DOMAIN objs : objs[i].kind = END => objs[i].id <= 3
        BY DEF NoneAbove
      <3> QED BY <1>6, <1>7, <2>1, <3>1
    <2>3. ASSUME NEW m \in 1..size, NEW n \in 1..size, m < n PROVE Nth(used, m) < Nth(used, n)
      <3>1. ~(Nth(used, n) <= Nth(used, m))
        <4>1. SUFFICES ASSUME Nth(used, n) <= Nth(used, m) PROVE FALSE
          OBVIOUS
        <4>2. Nth(used, n) = Nth(used, m) \/ Nth(used, n) < Nth(used, m)
          BY <1>5, <4>1
        <4>3. NewId(used, Nth(used, n)) = n - 1 /\ NewId(used, Nth(used, m)) = m - 1
          BY <1>2
        <4>4. CASE Nth(used, n) = Nth(used, m)
          BY <1>1, <2>3, <4>3, <4>4
        <4>5. CASE Nth(used, n) < Nth(used, m)
          <5>1. NewId(used, Nth(used, n)) < NewId(used, Nth(used, m))
            BY <1>2, <1>3, <4>5
          <5> QED BY <1>1, <2>3, <4>3, <5>1
        <4> QED BY <4>2, <4>4, <4>5
      <3> QED BY <1>5, <3>1
    <2>4. Nth(used, 1) < Nth(used, 2) /\ Nth(used, 2) < Nth(used, 3) /\ Nth(used, 3) < Nth(used, 4)
      BY <2>1, <2>3
    <2>5. /\ Nth(used, 1) \in Nat /\ Nth(used, 2) \in Nat
          /\ Nth(used, 3) \in Nat /\ Nth(used, 4) \in Nat
      BY <1>5, <2>1
    <2>6. Nth(used, 1) = 0 /\ Nth(used, 2) = 1 /\ Nth(used, 3) = 2 /\ Nth(used, 4) = 3
      BY <2>2, <2>4, <2>5
    <2> QED BY <2>6
  <1> QED BY <1>6, <1>7

\* What is saved from such a palette is as AsSaved says.
LEMMA SavedAs ==
  ASSUME NEW objs \in ObjectLists, NEW d \in [Cells -> Ids(objs)], NoneAbove(objs),
         KindsOnce(objs), HasDoorAndEnd(objs) => Standard(objs)
  PROVE  /\ AsSaved(SaveLevelConfig(objs, d))
         /\ HasDoorAndEnd(SaveLevelConfig(objs, d).objects) => HasDoorAndEnd(objs)
  <1> DEFINE f    == SaveLevelConfig(objs, d)
             kept == Cropped(d, d)
             used == Range(kept)
             size == Cardinality(used)
  <1>1. /\ used \in SUBSET Ids(objs) /\ used \in SUBSET Nat /\ IsFiniteSet(used)
        /\ f.objects \in ObjectLists /\ Counted(f.objects)
        /\ Len(f.objects) = size
        /\ \A n \in 1..size : f.objects[n].kind = KindOf(objs, Nth(used, n))
        /\ DOMAIN f.data = DOMAIN kept /\ f.data = [c \in DOMAIN kept |-> f.data[c]]
        /\ \A c \in DOMAIN kept : f.data[c] \in 0..(Len(f.objects) - 1)
    BY SavedIs
  <1>2. PICK a \in Nat, b \in Nat, r \in 1..GridRows, q \in 1..GridCols : Crops(d, a, b, r, q)
    BY CroppedIs
  <1>3. DOMAIN kept = (0..(r - 1)) \X (0..(q - 1))
    BY <1>2 DEF Crops
  <1> HIDE DEF f, kept, used
  <1>4. size \in Nat /\ DOMAIN f.objects = 1..size
    BY <1>1, ObjectTypes
  <1>5. /\ \A n \in 1..size, bound \in Nat :
             (\A i \in DOMAIN objs : objs[i].kind = KindOf(objs, Nth(used, n)) => objs[i].id <= bound)
               => n - 1 <= bound
        /\ 4 <= size /\ KindOf(objs, Nth(used, 4)) = END
             => \A id \in {0, 1, 2, 3} : Nth(used, id + 1) = id
    BY <1>1, SavedMarks
  <1>6. NoneAbove(f.objects)
    <2>1. \A i \in DOMAIN objs : /\ objs[i].id \in Nat
                                 /\ objs[i].kind = EMPTY  => objs[i].id <= 0
                                 /\ objs[i].kind = PLAYER => objs[i].id <= 1
                                 /\ objs[i].kind = DOOR   => objs[i].id <= 2
                                 /\ objs[i].kind = END    => objs[i].id <= 3
      BY ObjectTypes DEF NoneAbove
    <2>2. ASSUME NEW n \in 1..size
          PROVE  /\ f.objects[n].kind = EMPTY  => n - 1 <= 0
                 /\ f.objects[n].kind = PLAYER => n - 1 <= 1
                 /\ f.objects[n].kind = DOOR   => n - 1 <= 2
                 /\ f.objects[n].kind = END    => n - 1 <= 3
      <3>1. f.objects[n].kind = KindOf(objs, Nth(used, n))
        BY <1>1
      <3> QED BY <1>5, <2>1, <3>1
    <2>3. \A n \in 1..size : f.objects[n].id = n - 1 /\ n - 1 \in Nat
      BY <1>1, <1>4 DEF Counted
    <2>4. ASSUME NEW n \in DOMAIN f.objects
          PROVE  /\ f.objects[n].kind = EMPTY  => f.objects[n].id = 0
                 /\ f.objects[n].kind = PLAYER => f.objects[n].id <= 1
                 /\ f.objects[n].kind = DOOR   => f.objects[n].id <= 2
                 /\ f.objects[n].kind = END    => f.objects[n].id <= 3
      BY <1>4, <2>2, <2>3
    <2> QED BY <2>4 DEF NoneAbove
  <1>7. ASSUME HasDoorAndEnd(f.objects)
        PROVE  HasDoorAndEnd(objs) /\ Standard(f.objects)
    <2>1. END # UNKNOWN
      BY EditorAssumption
    <2>2. 3 \in 0..(Len(f.objects) - 1) /\ f.objects[4].kind = END
      <3>1. 3 \in 0..(Len(f.objects) - 1)
        BY <1>1, <1>7, <2>1, DenseKinds DEF HasDoorAndEnd
      <3>2. KindOf(f.objects, 3) = f.objects[3 + 1].kind
        BY <1>1, <3>1, DenseKinds
      <3> QED BY <1>7, <3>1, <3>2 DEF HasDoorAndEnd
    <2>3. 4 <= size /\ KindOf(objs, Nth(used, 4)) = END
      BY <1>1, <1>4, <2>2
    <2>4. \A id \in {0, 1, 2, 3} : Nth(used, id + 1) = id
      BY <1>5, <2>3
    <2>5. ASSUME NEW id \in {0, 1, 2, 3}
          PROVE  KindOf(f.objects, id) = KindOf(objs, id)
      <3>1. id \in 0..(Len(f.objects) - 1) /\ id + 1 \in 1..size
        BY <1>1, <1>4, <2>3
      <3>2. KindOf(f.objects, id) = f.objects[id + 1].kind
        BY <1>1, <3>1, DenseKinds
      <3> QED BY <1>1, <2>4, <3>1, <3>2
    <2>6. HasDoorAndEnd(objs)
      BY <1>7, <2>5 DEF HasDoorAndEnd
    <2> QED BY <2>5, <2>6 DEF Standard
  <1>8. f.data \in [(0..(r - 1)) \X (0..(q - 1)) -> 0..(Len(f.objects) - 1)]
    BY <1>1, <1>3
  <1>9. KindsOnce(f.objects)
    <2>1. ASSUME NEW i \in DOMAIN f.objects, NEW j \in DOMAIN f.objects,
                 f.objects[i].kind = f.objects[j].kind
          PROVE  i = j
      <3>1. \A n \in 1..size : Nth(used, n) \in used /\ NewId(used, Nth(used, n)) = n - 1
        BY <1>1, Sorted
      <3>2. i \in 1..size /\ j \in 1..size
        BY <1>4
      <3>3. Nth(used, i) \in Ids(objs) /\ Nth(used, j) \in Ids(objs)
        BY <1>1, <3>1, <3>2
      <3>4. PICK first \in DOMAIN objs : /\ objs[first].id = Nth(used, i)
                                         /\ KindOf(objs, Nth(used, i)) = objs[first].kind
        BY <3>3, FirstOfId
      <3>5. PICK second \in DOMAIN objs : /\ objs[second].id = Nth(used, j)
                                          /\ KindOf(objs, Nth(used, j)) = objs[second].kind
        BY <3>3, FirstOfId
      <3>6. objs[first].kind = objs[second].kind
        BY <1>1, <2>1, <3>2, <3>4, <3>5
      <3>7. Nth(used, i) = Nth(used, j)
        BY <3>4, <3>5, <3>6 DEF KindsOnce
      <3>8. i - 1 = j - 1
        BY <3>1, <3>2, <3>7
      <3> QED BY <1>4, <3>2, <3>8
    <2> QED BY <2>1 DEF KindsOnce
  <1>10. AsSaved(f)
    BY <1>1, <1>6, <1>7, <1>8, <1>9 DEF AsSaved, Counted, ObjectLists, HasDoorAndEnd
  <1> QED BY <1>7, <1>10 DEF f

\* m is what the cells of d mean by those objects.
MeansAs(objs, d, m) == DOMAIN m = DOMAIN d /\ \A c \in DOMAIN d : KindOf(objs, d[c]) = m[c]

\* A save keeps what each kept cell means.
LEMMA SavedMeaning ==
  ASSUME NEW objs \in ObjectLists, NEW d \in [Cells -> Ids(objs)], NEW m, MeansAs(objs, d, m)
  PROVE  MeansAs(SaveLevelConfig(objs, d).objects, SaveLevelConfig(objs, d).data, Cropped(d, m))
  <1> DEFINE f    == SaveLevelConfig(objs, d)
             kept == Cropped(d, d)
  <1>1. /\ DOMAIN f.data = DOMAIN kept
        /\ \A c \in DOMAIN kept : KindOf(f.objects, f.data[c]) = KindOf(objs, kept[c])
    BY SavedIs
  <1>2. PICK a \in Nat, b \in Nat, r \in 1..GridRows, q \in 1..GridCols : Crops(d, a, b, r, q)
    BY CroppedIs
  <1>3. /\ DOMAIN kept = (0..(r - 1)) \X (0..(q - 1))
        /\ DOMAIN Cropped(d, m) = (0..(r - 1)) \X (0..(q - 1))
        /\ \A i \in 0..(r - 1), j \in 0..(q - 1) :
             /\ <<a + i, b + j>> \in Cells
             /\ kept[<<i, j>>] = d[<<a + i, b + j>>]
             /\ Cropped(d, m)[<<i, j>>] = m[<<a + i, b + j>>]
    BY <1>2 DEF Crops
  <1> HIDE DEF f, kept
  <1>4. ASSUME NEW c \in DOMAIN kept PROVE KindOf(f.objects, f.data[c]) = Cropped(d, m)[c]
    <2>1. PICK i \in 0..(r - 1), j \in 0..(q - 1) : c = <<i, j>>
      BY <1>3
    <2>2. KindOf(objs, d[<<a + i, b + j>>]) = m[<<a + i, b + j>>]
      BY <1>3 DEF MeansAs
    <2> QED BY <1>1, <1>3, <2>1, <2>2
  <1> QED BY <1>1, <1>3, <1>4 DEF MeansAs, f

\* What is drawn is kept, and names the same kind of object.
LEMMA SavedDrawing ==
  ASSUME NEW objs \in ObjectLists, NEW d \in [Cells -> Ids(objs)], NEW c \in Drawn(d)
  PROVE  LET f  == SaveLevelConfig(objs, d)
             at == <<c[1] - Corner(d)[1], c[2] - Corner(d)[2]>>
         IN  at \in DOMAIN f.data /\ KindOf(f.objects, f.data[at]) = KindOf(objs, d[c])
  <1> DEFINE f    == SaveLevelConfig(objs, d)
             kept == Cropped(d, d)
  <1>1. /\ DOMAIN f.data = DOMAIN kept
        /\ \A e \in DOMAIN kept : KindOf(f.objects, f.data[e]) = KindOf(objs, kept[e])
    BY SavedIs
  <1>2. PICK a \in Nat, b \in Nat, r \in 1..GridRows, q \in 1..GridCols : Crops(d, a, b, r, q)
    BY CroppedIs
  <1>3. /\ DOMAIN kept = (0..(r - 1)) \X (0..(q - 1))
        /\ \A i \in 0..(r - 1), j \in 0..(q - 1) : kept[<<i, j>>] = d[<<a + i, b + j>>]
        /\ Corner(d) = <<a, b>> /\ c[1] - a \in 0..(r - 1) /\ c[2] - b \in 0..(q - 1)
    BY <1>2 DEF Crops
  <1>4. c = <<c[1], c[2]>> /\ c[1] \in Int /\ c[2] \in Int
    BY EditorAssumption DEF Drawn, Cells
  <1> DEFINE i == c[1] - a
             j == c[2] - b
  <1>5. i \in 0..(r - 1) /\ j \in 0..(q - 1) /\ a + i = c[1] /\ b + j = c[2]
    BY <1>3, <1>4
  <1> HIDE DEF f, kept, i, j
  <1>6. <<i, j>> \in DOMAIN kept /\ kept[<<i, j>>] = d[c]
    BY <1>3, <1>4, <1>5
  <1>7. <<i, j>> \in DOMAIN f.data /\ KindOf(f.objects, f.data[<<i, j>>]) = KindOf(objs, d[c])
    BY <1>1, <1>6
  <1>8. <<c[1] - Corner(d)[1], c[2] - Corner(d)[2]>> = <<i, j>>
    BY <1>3 DEF i, j
  <1> QED BY <1>7, <1>8 DEF f

-----------------------------------------------------------------------------
(* Palettes                                                                *)

\* A picture of the folder is a kind of its own.
LEMMA PictureKinds ==
  /\ \A i \in DOMAIN Folder : Folder[i] \in Pictures
  /\ \A p \in Pictures : p \in Kinds \ {UNKNOWN} /\ p \notin {EMPTY, PLAYER, DOOR, END}
  /\ {EMPTY, PLAYER, DOOR, END} \in SUBSET (Kinds \ {UNKNOWN})
  /\ DOMAIN Folder = 1..Len(Folder) /\ Len(Folder) \in Nat
  <1>1. DOMAIN Folder = 1..Len(Folder) /\ Len(Folder) \in Nat
    BY EditorAssumption, LenProperties
  <1>2. \A i \in DOMAIN Folder : Folder[i] \in Pictures
    BY DEF Pictures, ToSet
  <1>3. \A p \in Pictures : p \in Kinds \ {UNKNOWN} /\ p \notin {EMPTY, PLAYER, DOOR, END}
    BY EditorAssumption DEF Kinds
  <1>4. {EMPTY, PLAYER, DOOR, END} \in SUBSET (Kinds \ {UNKNOWN})
    BY EditorAssumption DEF Kinds
  <1> QED BY <1>1, <1>2, <1>3, <1>4

\* No id is past the number of objects.
IdsBelow(objs) == \A i \in DOMAIN objs : objs[i].id < Len(objs)

\* Objects that are counted through satisfy it.
LEMMA CountedBelow ==
  ASSUME NEW objs \in ObjectLists, Counted(objs)
  PROVE  IdsBelow(objs)
  <1>1. Len(objs) \in Nat /\ DOMAIN objs = 1..Len(objs)
    BY ObjectTypes
  <1> QED BY <1>1 DEF Counted, IdsBelow

\* The objects a palette gets for pictures of the folder.
LEMMA NewObjectsAre ==
  ASSUME NEW missing \in SUBSET DOMAIN Folder, NEW first \in Nat
  PROVE  LET new == NewObjects(missing, first)
         IN  /\ new \in ObjectLists
             /\ \A n \in DOMAIN new : new[n].id = first + n - 1 /\ new[n].kind \in Pictures
             /\ \A n \in DOMAIN new : \E i \in missing : new[n].kind = Folder[i]
             /\ KindsOnce(new)
  <1> DEFINE size == Cardinality(missing)
             new == NewObjects(missing, first)
  <1>1. missing \in SUBSET Nat /\ IsFiniteSet(missing)
    <2>1. 1 \in Int /\ Len(Folder) \in Int /\ DOMAIN Folder = 1..Len(Folder)
      BY PictureKinds
    <2>2. IsFiniteSet(DOMAIN Folder)
      BY <2>1, FS_Interval
    <2>3. IsFiniteSet(missing)
      BY <2>2, FS_Subset
    <2> QED BY <2>1, <2>3
  <1>2. size \in Nat
    BY <1>1, FS_CardinalityType
  <1>3. \A n \in 1..size : /\ Nth(missing, n) \in missing /\ Nth(missing, n) \in DOMAIN Folder
                           /\ NewId(missing, Nth(missing, n)) = n - 1
    BY <1>1, Sorted
  <1>4. \A n \in 1..size : Folder[Nth(missing, n)] \in Pictures
                           /\ Folder[Nth(missing, n)] \in Kinds \ {UNKNOWN}
    BY <1>3, PictureKinds
  <1>5. new = [n \in 1..size |-> [id |-> first + n - 1, kind |-> Folder[Nth(missing, n)]]]
    BY DEF NewObjects, Object
  <1>6. \A n \in 1..size : first + n - 1 \in Nat
    BY <1>2
  <1>7. new \in [1..size -> [id : Nat, kind : Kinds \ {UNKNOWN}]]
    BY ONLY <1>4, <1>5, <1>6
  <1>8. new \in ObjectLists
    <2> DEFINE O == [id : Nat, kind : Kinds \ {UNKNOWN}]
    <2>1. new \in [1..size -> O]
      BY <1>7
    <2> HIDE DEF O, new, size
    <2>2. new \in Seq(O)
      BY ONLY <1>2, <2>1
    <2> QED BY <2>2 DEF O, ObjectLists
  <1>9. \A n \in DOMAIN new : new[n].id = first + n - 1 /\ new[n].kind \in Pictures
    BY <1>4, <1>5
  <1>10. \A n \in DOMAIN new : \E i \in missing : new[n].kind = Folder[i]
    BY <1>3, <1>5
  <1>11. ASSUME NEW n \in DOMAIN new, NEW m \in DOMAIN new, new[n].kind = new[m].kind
         PROVE  n = m
    <2>1. n \in 1..size /\ m \in 1..size /\ Folder[Nth(missing, n)] = Folder[Nth(missing, m)]
      BY <1>5, <1>11
    <2>2. Nth(missing, n) = Nth(missing, m)
      BY <1>3, <2>1, EditorAssumption
    <2>3. n - 1 = m - 1
      BY <1>3, <2>1, <2>2
    <2> QED BY <1>2, <2>1, <2>3
  <1> QED BY <1>8, <1>9, <1>10, <1>11 DEF new, KindsOnce

\* The objects of a file are followed by the player's, if there was only one.
LEMMA BasicIs ==
  ASSUME NEW objs \in ObjectLists, Counted(objs), Len(objs) >= 1
  PROVE  /\ Basic(objs) \in ObjectLists /\ Counted(Basic(objs))
         /\ Len(Basic(objs)) = IF Len(objs) = 1 THEN 2 ELSE Len(objs)
         /\ Basic(objs)[1].kind = EMPTY /\ Basic(objs)[2].kind = PLAYER
         /\ \A i \in 3..Len(objs) : Basic(objs)[i] = objs[i]
  <1> DEFINE O == [id : Nat, kind : Kinds \ {UNKNOWN}]
             kept == [i \in DOMAIN objs |-> Corrected(objs[i])]
             player == <<Object(1, PLAYER)>>
             n == Len(objs)
  <1>1. n \in Nat /\ n >= 1 /\ DOMAIN objs = 1..n
    BY ObjectTypes
  <1>2. \A i \in 1..n : objs[i].id = i - 1 /\ objs[i] \in O
    <2>1. \A i \in 1..n : objs[i].id = i - 1
      BY <1>1 DEF Counted
    <2>2. objs \in Seq(O)
      BY DEF ObjectLists
    <2> HIDE DEF O
    <2>3. \A i \in 1..n : objs[i] \in O
      BY <1>1, <2>2, ElementOfSeq
    <2> QED BY <2>1, <2>3
  <1>3. Object(0, EMPTY) \in O /\ Object(1, PLAYER) \in O
    BY PictureKinds DEF Object
  <1>4. /\ kept[1] = Object(0, EMPTY)
        /\ n >= 2 => kept[2] = Object(1, PLAYER)
        /\ \A i \in 3..n : kept[i] = objs[i]
    <2>1. 1 \in 1..n /\ objs[1].id = 0
      BY <1>1, <1>2
    <2>2. kept[1] = Object(0, EMPTY)
      BY <1>1, <2>1 DEF Corrected
    <2>3. n >= 2 => kept[2] = Object(1, PLAYER)
      <3>1. SUFFICES ASSUME n >= 2 PROVE kept[2] = Object(1, PLAYER)
        OBVIOUS
      <3>2. 2 \in 1..n /\ objs[2].id = 1
        BY <1>1, <1>2, <3>1
      <3> QED BY <1>1, <3>2 DEF Corrected
    <2>4. ASSUME NEW i \in 3..n PROVE kept[i] = objs[i]
      <3>1. i \in 1..n /\ objs[i].id = i - 1 /\ i - 1 # 0 /\ i - 1 # 1
        BY <1>1, <1>2
      <3> QED BY <1>1, <3>1 DEF Corrected
    <2> QED BY <2>2, <2>3, <2>4
  <1>5. \A i \in 1..n : kept[i] \in O
    <2>1. SUFFICES ASSUME NEW i \in 1..n PROVE kept[i] \in O
      OBVIOUS
    <2>2. i = 1 \/ (i = 2 /\ n >= 2) \/ i \in 3..n
      BY <1>1
    <2> HIDE DEF O, kept
    <2> QED BY <1>1, <1>2, <1>3, <1>4, <2>2
  <1>6. kept \in Seq(O) /\ Len(kept) = n
    <2> HIDE DEF O
    <2>1. kept \in [1..n -> O]
      BY <1>1, <1>5
    <2> HIDE DEF kept
    <2> QED BY <1>1, <2>1
  <1>7. player \in Seq(O) /\ Len(player) = 1 /\ player[1] = Object(1, PLAYER)
    <2> HIDE DEF O
    <2> QED BY <1>3
  <1>8. HasId(objs, 0) /\ (HasId(objs, 1) <=> n >= 2)
    <2>1. HasId(objs, 0)
      <3>1. 1 \in 1..n /\ objs[1].id = 0
        BY <1>1, <1>2
      <3> QED BY <1>1, <3>1 DEF HasId
    <2>2. ASSUME n >= 2 PROVE HasId(objs, 1)
      <3>1. 2 \in 1..n /\ objs[2].id = 1
        BY <1>1, <1>2, <2>2
      <3> QED BY <1>1, <3>1 DEF HasId
    <2>3. ASSUME HasId(objs, 1) PROVE n >= 2
      BY <1>1, <1>2, <2>3 DEF HasId
    <2> QED BY <2>1, <2>2, <2>3
  <1>9. Basic(objs) = (kept \o <<>>) \o (IF n >= 2 THEN <<>> ELSE player)
    BY <1>8 DEF Basic
  <1> HIDE DEF kept, player
  <1>10. kept \o <<>> = kept /\ kept \o <<>> \o <<>> = kept
    <2> HIDE DEF O
    <2> QED BY <1>6, EmptySeq, ConcatProperties
  <1>11. CASE n >= 2
    <2>1. Basic(objs) = kept
      BY <1>9, <1>10, <1>11
    <2>2. \A i \in 1..n : kept[i].id = i - 1
      <3>1. \A i \in 1..n : i = 1 \/ i = 2 \/ i \in 3..n
        BY <1>1
      <3> QED BY <1>1, <1>2, <1>4, <1>11, <3>1 DEF Object
    <2>3. kept \in ObjectLists
      BY <1>6 DEF ObjectLists
    <2>4. Counted(kept)
      BY <1>6, <2>2, <2>3, ObjectTypes DEF Counted
    <2> QED BY <1>1, <1>4, <1>6, <1>11, <2>1, <2>3, <2>4 DEF Object
  <1>12. CASE n = 1
    <2>1. Basic(objs) = kept \o player
      BY <1>9, <1>10, <1>12
    <2>2. /\ kept \o player \in Seq(O) /\ Len(kept \o player) = 2
          /\ (kept \o player)[1] = kept[1] /\ (kept \o player)[2] = player[1]
      <3> HIDE DEF O
      <3>1. /\ kept \o player \in Seq(O)
            /\ Len(kept \o player) = Len(kept) + Len(player)
            /\ \A i \in 1..(Len(kept) + Len(player)) :
                 (kept \o player)[i] = IF i <= Len(kept) THEN kept[i] ELSE player[i - Len(kept)]
        BY <1>6, <1>7, ConcatProperties
      <3>2. Len(kept) = 1 /\ Len(player) = 1
        BY <1>6, <1>7, <1>12
      <3> QED BY <3>1, <3>2
    <2>3. /\ Basic(objs) \in ObjectLists /\ Len(Basic(objs)) = 2
          /\ Basic(objs)[1] = Object(0, EMPTY) /\ Basic(objs)[2] = Object(1, PLAYER)
      BY <1>4, <1>7, <2>1, <2>2 DEF ObjectLists
    <2>4. Counted(Basic(objs))
      <3>1. DOMAIN Basic(objs) = 1..2
        BY <2>3, ObjectTypes
      <3> QED BY <2>3, <3>1 DEF Counted, Object
    <2> QED BY <1>12, <2>3, <2>4 DEF Object
  <1> QED BY <1>1, <1>11, <1>12

\* max_id is the last id of the file, or 0 when there is none after the player's.
LEMMA MaxIdIs ==
  ASSUME NEW objs \in ObjectLists, Counted(objs), Len(objs) >= 1
  PROVE  MaxId(objs) = IF Len(objs) <= 2 THEN 0 ELSE Len(objs) - 1
  <1> DEFINE n == Len(objs)
             S == {0} \cup {objs[j].id : j \in {m \in DOMAIN objs : objs[m].id > 1}}
  <1>1. n \in Nat /\ n >= 1 /\ n - 1 \in Nat /\ DOMAIN objs = 1..n
    BY ObjectTypes
  <1>2. \A i \in 1..n : objs[i].id = i - 1
    BY <1>1 DEF Counted
  <1>3. S \in SUBSET (0..(n - 1)) /\ S # {}
    <2>1. \A i \in 1..n : objs[i].id \in 0..(n - 1)
      BY <1>1, <1>2
    <2>2. 0 \in 0..(n - 1)
      BY <1>1
    <2> QED BY ONLY <1>1, <2>1, <2>2
  <1>4. Max(S) \in S /\ \A x \in S : x <= Max(S)
    <2> HIDE DEF S
    <2> QED BY <1>1, <1>3, GreatestOf
  <1>5. MaxId(objs) = Max(S)
    BY DEF MaxId
  <1>6. CASE n <= 2
    <2>1. \A i \in 1..n : ~(objs[i].id > 1)
      BY <1>1, <1>2, <1>6
    <2>2. S = {0}
      BY ONLY <1>1, <2>1
    <2> QED BY <1>4, <1>5, <1>6, <2>2
  <1>7. CASE n > 2
    <2>1. n \in 1..n /\ objs[n].id = n - 1 /\ n - 1 > 1
      BY <1>1, <1>2, <1>7
    <2>2. n - 1 \in S
      BY <1>1, <2>1
    <2>3. Max(S) \in 0..(n - 1) /\ n - 1 <= Max(S)
      BY <1>3, <1>4, <2>2
    <2> QED BY <1>1, <1>5, <1>7, <2>3
  <1> QED BY <1>1, <1>6, <1>7

\* A merged palette begins with the file's objects; the pictures added do not
\* pass for what is no plain tile; from three objects on the ids go on.
LEMMA MergedIs ==
  ASSUME NEW objs \in ObjectLists, Counted(objs), Len(objs) >= 1, NoneAbove(objs),
         KindsOnce(objs)
  PROVE  LET merged == MergeObjectPalette(objs)
         IN  /\ merged \in ObjectLists /\ NoneAbove(merged)
             /\ KindsOnce(merged) /\ IdsBelow(merged)
             /\ 0..(Len(objs) - 1) \in SUBSET Ids(merged)
             /\ Len(objs) <= Len(merged)
             /\ HasDoorAndEnd(merged) => HasDoorAndEnd(objs) /\ Counted(merged)
             /\ HasDoorAndEnd(merged) /\ Standard(objs) =>
                  \A id \in 0..(Len(objs) - 1) : KindOf(merged, id) = KindOf(objs, id)
  <1> DEFINE O == [id : Nat, kind : Kinds \ {UNKNOWN}]
             basic == Basic(objs)
             first == MaxId(objs) + 1
             new == NewObjects(Missing(basic), first)
             merged == MergeObjectPalette(objs)
             n == Len(objs)
             base == Len(basic)
  <1>1. n \in Nat /\ n >= 1 /\ DOMAIN objs = 1..n
    BY ObjectTypes
  <1>2. /\ basic \in ObjectLists /\ Counted(basic)
        /\ base = IF n = 1 THEN 2 ELSE n
        /\ basic[1].kind = EMPTY /\ basic[2].kind = PLAYER
        /\ \A i \in 3..n : basic[i] = objs[i]
    BY BasicIs
  <1>3. first = IF n <= 2 THEN 1 ELSE n
    BY <1>1, MaxIdIs
  <1>4. /\ new \in ObjectLists
        /\ \A m \in DOMAIN new : new[m].id = first + m - 1 /\ new[m].kind \in Pictures
        /\ \A m \in DOMAIN new : \E i \in Missing(basic) : new[m].kind = Folder[i]
        /\ KindsOnce(new)
    <2>1. Missing(basic) \in SUBSET DOMAIN Folder /\ first \in Nat
      BY <1>1, <1>3 DEF Missing
    <2> HIDE DEF first, basic
    <2> QED BY <2>1, NewObjectsAre
  <1>5. merged = basic \o new
    BY DEF MergeObjectPalette
  <1> HIDE DEF basic, new, merged, first
  <1>6. /\ base \in Nat /\ DOMAIN basic = 1..base /\ Len(new) \in Nat /\ DOMAIN new = 1..Len(new)
        /\ base >= 2 /\ n <= base
    <2>1. base \in Nat /\ DOMAIN basic = 1..base
      BY <1>2, ObjectTypes
    <2>2. Len(new) \in Nat /\ DOMAIN new = 1..Len(new)
      BY <1>4, ObjectTypes
    <2>3. base >= 2 /\ n <= base
      <3>1. n \in Nat /\ n >= 1 /\ base = IF n = 1 THEN 2 ELSE n
        BY <1>1, <1>2
      <3> HIDE DEF n, base
      <3> QED BY ONLY <3>1
    <2> QED BY <2>1, <2>2, <2>3
  <1>7. /\ merged \in ObjectLists /\ Len(merged) = base + Len(new)
        /\ \A i \in 1..base : merged[i] = basic[i]
        /\ \A m \in 1..Len(new) : merged[base + m] = new[m]
    <2>1. basic \in Seq(O) /\ new \in Seq(O)
      BY <1>2, <1>4 DEF ObjectLists
    <2> HIDE DEF O
    <2>2. /\ basic \o new \in Seq(O)
          /\ Len(basic \o new) = base + Len(new)
          /\ \A i \in 1..(base + Len(new)) :
               (basic \o new)[i] = IF i <= base THEN basic[i] ELSE new[i - base]
      BY <2>1, ConcatProperties
    <2>3. \A i \in 1..base : merged[i] = basic[i]
      BY <1>5, <1>6, <2>2
    <2>4. ASSUME NEW m \in 1..Len(new) PROVE merged[base + m] = new[m]
      <3>1. base + m \in 1..(base + Len(new)) /\ ~(base + m <= base) /\ (base + m) - base = m
        BY <1>6
      <3> QED BY <1>5, <2>2, <3>1
    <2>5. merged \in ObjectLists
      BY <1>5, <2>2 DEF O, ObjectLists
    <2> QED BY <1>5, <2>2, <2>3, <2>4, <2>5
  <1>8. DOMAIN merged = 1..(base + Len(new))
    BY <1>7, ObjectTypes
  <1>9. \A i \in DOMAIN merged : \/ i \in 1..base
                                 \/ \E m \in 1..Len(new) : i = base + m
    <2>1. ASSUME NEW i \in 1..(base + Len(new)), i \notin 1..base
          PROVE  i - base \in 1..Len(new) /\ i = base + (i - base)
      BY <1>6, <2>1
    <2> QED BY <1>8, <2>1
  <1>10. \A i \in 1..base : basic[i].id = i - 1
    BY <1>2, <1>6 DEF Counted
  <1>11. NoneAbove(merged)
    <2>1. ASSUME NEW i \in DOMAIN merged
          PROVE  /\ merged[i].kind = EMPTY  => merged[i].id = 0
                 /\ merged[i].kind = PLAYER => merged[i].id <= 1
                 /\ merged[i].kind = DOOR   => merged[i].id <= 2
                 /\ merged[i].kind = END    => merged[i].id <= 3
      <3>1. CASE \E m \in 1..Len(new) : i = base + m
        <4>1. merged[i].kind \in Pictures
          BY <1>4, <1>6, <1>7, <3>1
        <4> QED BY <4>1, PictureKinds
      <3>2. CASE i \in 1..base
        <4>1. merged[i] = basic[i] /\ basic[i].id = i - 1
          BY <1>7, <1>10, <3>2
        <4>2. CASE i = 1
          BY <1>2, <4>1, <4>2, EditorAssumption
        <4>3. CASE i = 2
          BY <1>2, <4>1, <4>3, EditorAssumption
        <4>4. CASE i \in 3..n
          <5>1. basic[i] = objs[i] /\ i \in DOMAIN objs
            BY <1>1, <1>2, <4>4
          <5> QED BY <4>1, <5>1 DEF NoneAbove
        <4>5. i = 1 \/ i = 2 \/ i \in 3..n
          BY <1>1, <1>2, <3>2
        <4> QED BY <4>2, <4>3, <4>4, <4>5
      <3> QED BY <1>9, <3>1, <3>2
    <2> QED BY <2>1 DEF NoneAbove
  <1>12. 0..(n - 1) \in SUBSET Ids(merged)
    <2>1. ASSUME NEW id \in 0..(n - 1) PROVE id \in Ids(merged)
      <3>1. id + 1 \in 1..base /\ id + 1 \in DOMAIN merged
        BY <1>1, <1>6, <1>8
      <3>2. merged[id + 1].id = id
        BY <1>1, <1>7, <1>10, <3>1
      <3> QED BY <3>1, <3>2 DEF Ids
    <2> QED BY <2>1
  <1>13. ASSUME NEW id \in {2, 3}, id \in Ids(merged), id >= n
         PROVE  KindOf(merged, id) \notin {DOOR, END}
    <2>1. PICK i \in DOMAIN merged : merged[i].id = id /\ KindOf(merged, id) = merged[i].kind
      BY <1>7, <1>13, FirstOfId
    <2>2. CASE i \in 1..base
      <3>1. merged[i] = basic[i] /\ i - 1 = id
        BY <1>7, <1>10, <2>1, <2>2
      <3>2. i <= 2
        BY <1>1, <1>2, <1>13, <2>2, <3>1
      <3> QED BY <1>13, <2>2, <3>1, <3>2
    <2>3. CASE \E m \in 1..Len(new) : i = base + m
      <3>1. merged[i].kind \in Pictures
        BY <1>4, <1>6, <1>7, <2>3
      <3> QED BY <2>1, <3>1, PictureKinds
    <2> QED BY <1>9, <2>2, <2>3
  <1>14. ASSUME HasDoorAndEnd(merged) PROVE n >= 4 /\ Counted(merged)
    <2>1. 2 \in Ids(merged) /\ 3 \in Ids(merged)
      <3>1. UNKNOWN # DOOR /\ UNKNOWN # END
        BY EditorAssumption
      <3>2. \A id : id \notin Ids(merged) => KindOf(merged, id) = UNKNOWN
        BY DEF KindOf, Ids
      <3> QED BY <1>14, <3>1, <3>2 DEF HasDoorAndEnd
    <2>2. ~(2 >= n) /\ ~(3 >= n)
      BY <1>13, <1>14, <2>1 DEF HasDoorAndEnd
    <2>3. n >= 4
      BY <1>1, <2>2
    <2>4. base = n /\ first = n
      <3>1. /\ n \in Nat /\ n >= 4 /\ base = IF n = 1 THEN 2 ELSE n
            /\ first = IF n <= 2 THEN 1 ELSE n
        BY <1>1, <1>2, <1>3, <2>3
      <3> HIDE DEF n, base
      <3> QED BY ONLY <3>1
    <2>5. \A m \in 1..Len(new) : new[m].id = (base + m) - 1
      BY <1>1, <1>4, <1>6, <2>4
    <2>6. ASSUME NEW i \in DOMAIN merged PROVE merged[i].id = i - 1
      <3>1. CASE i \in 1..base
        BY <1>7, <1>10, <3>1
      <3>2. CASE \E m \in 1..Len(new) : i = base + m
        BY <1>7, <2>5, <3>2
      <3> QED BY <1>9, <3>1, <3>2
    <2> QED BY <2>3, <2>6 DEF Counted
  <1>15. ASSUME HasDoorAndEnd(merged), NEW id \in 0..(n - 1), id >= 2
         PROVE  KindOf(merged, id) = KindOf(objs, id)
    <2>1. id \in 0..(Len(merged) - 1) /\ id + 1 \in 3..n /\ id + 1 \in 1..base
      BY <1>1, <1>6, <1>7, <1>15
    <2>2. KindOf(merged, id) = merged[id + 1].kind
      BY <1>7, <1>14, <1>15, <2>1, DenseKinds
    <2>3. KindOf(objs, id) = objs[id + 1].kind
      BY DenseKinds
    <2> QED BY <1>2, <1>7, <2>1, <2>2, <2>3
  <1>16. ASSUME HasDoorAndEnd(merged) PROVE HasDoorAndEnd(objs)
    BY <1>1, <1>14, <1>15, <1>16 DEF HasDoorAndEnd
  <1>17. ASSUME HasDoorAndEnd(merged), Standard(objs), NEW id \in 0..(n - 1)
         PROVE  KindOf(merged, id) = KindOf(objs, id)
    <2>1. CASE id >= 2
      BY <1>15, <1>17, <2>1
    <2>2. KindOf(merged, 0) = EMPTY /\ KindOf(merged, 1) = PLAYER
      <3>1. 0 \in 0..(Len(merged) - 1) /\ 1 \in 0..(Len(merged) - 1)
        BY <1>6, <1>7
      <3>2. KindOf(merged, 0) = merged[0 + 1].kind /\ KindOf(merged, 1) = merged[1 + 1].kind
        BY <1>7, <1>14, <1>17, <3>1, DenseKinds
      <3> QED BY <1>2, <1>6, <1>7, <3>2
    <2>3. CASE id = 0 \/ id = 1
      BY <1>17, <2>2, <2>3 DEF Standard
    <2> QED BY <2>1, <2>3
  <1>18. n <= Len(merged)
    BY <1>1, <1>6, <1>7
  <1>19. IdsBelow(merged)
    <2>1. ASSUME NEW i \in DOMAIN merged PROVE merged[i].id < base + Len(new)
      <3>1. CASE i \in 1..base
        <4>1. merged[i].id = i - 1
          BY <1>7, <1>10, <3>1
        <4> QED BY <1>6, <3>1, <4>1
      <3>2. CASE \E m \in 1..Len(new) : i = base + m
        <4>1. PICK m \in 1..Len(new) : merged[i].id = first + m - 1
          BY <1>4, <1>6, <1>7, <3>2
        <4>2. first \in Nat /\ first <= base
          <5>1. /\ n \in Nat /\ n >= 1 /\ base = IF n = 1 THEN 2 ELSE n
                /\ first = IF n <= 2 THEN 1 ELSE n
            BY <1>1, <1>2, <1>3
          <5> HIDE DEF n, base
          <5> QED BY ONLY <5>1
        <4> HIDE DEF base
        <4> QED BY <1>6, <4>1, <4>2
      <3> QED BY <1>9, <3>1, <3>2
    <2> QED BY <1>7, <2>1 DEF IdsBelow
  <1>20. ASSUME NEW i \in 1..base
         PROVE  /\ i = 1 => basic[i].kind = EMPTY
                /\ i = 2 => basic[i].kind = PLAYER
                /\ i > 2 => /\ i \in 3..n /\ i \in DOMAIN objs /\ basic[i].kind = objs[i].kind
                            /\ basic[i].kind \notin {EMPTY, PLAYER}
    <2>1. CASE i > 2
      <3>1. i \in 3..n /\ i \in DOMAIN objs
        BY <1>1, <1>2, <2>1
      <3>2. basic[i] = objs[i] /\ objs[i].id = i - 1
        BY <1>2, <1>10, <3>1
      <3>3. ~(i - 1 = 0) /\ ~(i - 1 <= 1)
        BY <2>1
      <3>4. objs[i].kind # EMPTY /\ objs[i].kind # PLAYER
        BY <3>1, <3>2, <3>3 DEF NoneAbove
      <3> QED BY <2>1, <3>1, <3>2, <3>4
    <2>2. CASE ~(i > 2)
      BY <1>2, <2>2
    <2> QED BY <2>1, <2>2
  <1>21. ASSUME NEW i \in 1..base, NEW j \in 1..base, basic[i].kind = basic[j].kind
         PROVE  i = j
    <2>1. CASE i > 2 /\ j > 2
      BY <1>20, <1>21, <2>1 DEF KindsOnce
    <2>2. CASE ~(i > 2) \/ ~(j > 2)
      <3>1. i \in {1, 2} \/ i > 2
        OBVIOUS
      <3>2. j \in {1, 2} \/ j > 2
        OBVIOUS
      <3> QED BY <1>20, <1>21, <2>2, <3>1, <3>2, EditorAssumption
    <2> QED BY <2>1, <2>2
  <1>22. ASSUME NEW i \in 1..base, NEW m \in 1..Len(new)
         PROVE  basic[i].kind # new[m].kind
    <2>1. PICK p \in Missing(basic) : new[m].kind = Folder[p]
      BY <1>4, <1>6
    <2>2. Picture(basic[i].kind) # Folder[p]
      BY <1>6, <2>1 DEF Missing
    <2>3. new[m].kind \in Pictures
      BY <1>4, <1>6
    <2>4. Picture(new[m].kind) = new[m].kind
      BY <2>3, PictureKinds, EditorAssumption DEF Picture
    <2> QED BY <2>1, <2>2, <2>4
  <1>23. KindsOnce(merged)
    <2>1. ASSUME NEW i \in DOMAIN merged, NEW j \in DOMAIN merged, merged[i].kind = merged[j].kind
          PROVE  i = j
      <3>1. CASE i \in 1..base /\ j \in 1..base
        BY <1>7, <1>21, <2>1, <3>1
      <3>2. CASE i \in 1..base /\ \E m \in 1..Len(new) : j = base + m
        BY <1>7, <1>22, <2>1, <3>2
      <3>3. CASE j \in 1..base /\ \E m \in 1..Len(new) : i = base + m
        BY <1>7, <1>22, <2>1, <3>3
      <3>4. CASE /\ \E m \in 1..Len(new) : i = base + m
                 /\ \E m \in 1..Len(new) : j = base + m
        <4>1. PICK m \in 1..Len(new) : i = base + m
          BY <3>4
        <4>2. PICK q \in 1..Len(new) : j = base + q
          BY <3>4
        <4>3. new[m].kind = new[q].kind
          BY <1>7, <2>1, <4>1, <4>2
        <4>4. m = q
          BY <1>4, <1>6, <4>3 DEF KindsOnce
        <4> QED BY <4>1, <4>2, <4>4
      <3> QED BY <1>9, <3>1, <3>2, <3>3, <3>4
    <2> QED BY <2>1 DEF KindsOnce
  <1> QED BY <1>7, <1>11, <1>12, <1>14, <1>16, <1>17, <1>18, <1>19, <1>23 DEF merged

\* A new map's palette has the standard objects, and the ids count it.
LEMMA NewPaletteIs ==
  /\ NewPalette \in ObjectLists /\ NoneAbove(NewPalette) /\ Counted(NewPalette)
  /\ Len(NewPalette) >= 4 /\ Standard(NewPalette) /\ KindsOnce(NewPalette)
  <1> DEFINE O == [id : Nat, kind : Kinds \ {UNKNOWN}]
             four == <<Object(0, EMPTY), Object(1, PLAYER), Object(2, DOOR), Object(3, END)>>
             n == Len(Folder)
             rest == [i \in 1..n |-> Object(i + 3, Folder[i])]
  <1>1. n \in Nat /\ DOMAIN Folder = 1..n
    BY PictureKinds
  <1>2. NewPalette = four \o rest
    BY <1>1 DEF NewPalette
  <1>3. \A i \in 1..n : /\ rest[i] \in O /\ rest[i].id = (4 + i) - 1
                        /\ rest[i].kind \notin {EMPTY, PLAYER, DOOR, END}
    <2>1. SUFFICES ASSUME NEW i \in 1..n
                   PROVE  /\ rest[i] \in O /\ rest[i].id = (4 + i) - 1
                          /\ rest[i].kind \notin {EMPTY, PLAYER, DOOR, END}
      OBVIOUS
    <2>2. /\ Folder[i] \in Kinds \ {UNKNOWN} /\ Folder[i] \notin {EMPTY, PLAYER, DOOR, END}
          /\ i + 3 \in Nat /\ i + 3 = (4 + i) - 1
      BY <1>1, PictureKinds
    <2> QED BY <2>2 DEF Object
  <1>4. rest \in Seq(O) /\ Len(rest) = n
    <2> HIDE DEF O
    <2>1. rest \in [1..n -> O]
      BY <1>3
    <2> HIDE DEF rest, n
    <2> QED BY <1>1, <2>1
  <1>5. four \in Seq(O) /\ Len(four) = 4
    <2>1. /\ Object(0, EMPTY) \in O /\ Object(1, PLAYER) \in O
          /\ Object(2, DOOR) \in O /\ Object(3, END) \in O
      BY PictureKinds DEF Object
    <2> HIDE DEF O
    <2> QED BY <2>1
  <1>6. /\ four[1] = Object(0, EMPTY) /\ four[2] = Object(1, PLAYER)
        /\ four[3] = Object(2, DOOR) /\ four[4] = Object(3, END)
    OBVIOUS
  <1> HIDE DEF four, rest
  <1>7. /\ NewPalette \in ObjectLists /\ Len(NewPalette) = 4 + n
        /\ \A i \in 1..4 : NewPalette[i] = four[i]
        /\ \A i \in 1..n : NewPalette[4 + i] = rest[i]
    <2> HIDE DEF O
    <2>1. /\ four \o rest \in Seq(O)
          /\ Len(four \o rest) = 4 + n
          /\ \A i \in 1..(4 + n) : (four \o rest)[i] = IF i <= 4 THEN four[i] ELSE rest[i - 4]
      <3>1. /\ four \o rest \in Seq(O)
            /\ Len(four \o rest) = Len(four) + Len(rest)
            /\ \A i \in 1..(Len(four) + Len(rest)) :
                 (four \o rest)[i] = IF i <= Len(four) THEN four[i] ELSE rest[i - Len(four)]
        <4>1. four \in Seq(O) /\ rest \in Seq(O)
          BY <1>4, <1>5
        <4> QED BY ONLY <4>1, ConcatProperties
      <3> QED BY <1>4, <1>5, <3>1
    <2>2. \A i \in 1..n : 4 + i \in 1..(4 + n) /\ ~(4 + i <= 4) /\ (4 + i) - 4 = i
      BY <1>1
    <2>3. \A i \in 1..4 : i \in 1..(4 + n) /\ i <= 4
      BY <1>1
    <2>4. NewPalette \in ObjectLists
      BY <1>2, <2>1 DEF O, ObjectLists
    <2> HIDE DEF n
    <2> QED BY <1>2, <2>1, <2>2, <2>3, <2>4
  <1>8. DOMAIN NewPalette = 1..(4 + n)
    BY <1>7, ObjectTypes
  <1>9. ASSUME NEW i \in DOMAIN NewPalette
        PROVE  i \in {1, 2, 3, 4} \/ \E j \in 1..n : i = 4 + j
    <2>1. CASE i \in 1..4
      BY <2>1
    <2>2. CASE i \notin 1..4
      <3>1. i - 4 \in 1..n /\ i = 4 + (i - 4)
        BY <1>1, <1>8, <1>9, <2>2
      <3> QED BY <3>1
    <2> QED BY <2>1, <2>2
  <1>10. Counted(NewPalette)
    <2>1. ASSUME NEW i \in DOMAIN NewPalette PROVE NewPalette[i].id = i - 1
      <3>1. CASE i \in {1, 2, 3, 4}
        BY <1>6, <1>7, <3>1 DEF Object
      <3>2. CASE \E j \in 1..n : i = 4 + j
        BY <1>3, <1>7, <3>2
      <3> QED BY <1>9, <3>1, <3>2
    <2> QED BY <2>1 DEF Counted
  <1>11. NoneAbove(NewPalette)
    <2>1. ASSUME NEW i \in DOMAIN NewPalette
          PROVE  /\ NewPalette[i].kind = EMPTY  => NewPalette[i].id = 0
                 /\ NewPalette[i].kind = PLAYER => NewPalette[i].id <= 1
                 /\ NewPalette[i].kind = DOOR   => NewPalette[i].id <= 2
                 /\ NewPalette[i].kind = END    => NewPalette[i].id <= 3
      <3>1. CASE i \in {1, 2, 3, 4}
        BY <1>6, <1>7, <3>1, EditorAssumption DEF Object
      <3>2. CASE \E j \in 1..n : i = 4 + j
        <4>1. NewPalette[i].kind \notin {EMPTY, PLAYER, DOOR, END}
          BY <1>3, <1>7, <3>2
        <4> QED BY <4>1
      <3> QED BY <1>9, <3>1, <3>2
    <2> QED BY <2>1 DEF NoneAbove
  <1>12. Standard(NewPalette)
    <2>1. ASSUME NEW id \in {0, 1, 2, 3} PROVE KindOf(NewPalette, id) = four[id + 1].kind
      <3>1. id \in 0..(Len(NewPalette) - 1) /\ id + 1 \in 1..4
        BY <1>1, <1>7
      <3> QED BY <1>7, <1>10, <3>1, DenseKinds
    <2> QED BY <1>6, <2>1 DEF Standard, Object
  <1>13. \A i \in 1..n : rest[i].kind = Folder[i]
    BY DEF rest, Object
  <1>14. KindsOnce(NewPalette)
    <2>1. ASSUME NEW i \in DOMAIN NewPalette, NEW j \in DOMAIN NewPalette,
                 NewPalette[i].kind = NewPalette[j].kind
          PROVE  i = j
      <3>1. CASE i \in {1, 2, 3, 4} /\ j \in {1, 2, 3, 4}
        <4>1. /\ NewPalette[1].kind = EMPTY /\ NewPalette[2].kind = PLAYER
              /\ NewPalette[3].kind = DOOR /\ NewPalette[4].kind = END
          BY <1>6, <1>7 DEF Object
        <4> QED BY <2>1, <3>1, <4>1, EditorAssumption
      <3>2. \A p \in 1..4 : NewPalette[p].kind \in {EMPTY, PLAYER, DOOR, END}
        BY <1>6, <1>7 DEF Object
      <3>3. \A p \in 1..n : NewPalette[4 + p].kind \notin {EMPTY, PLAYER, DOOR, END}
        BY <1>3, <1>7
      <3>4. CASE i \in {1, 2, 3, 4} /\ \E p \in 1..n : j = 4 + p
        BY <2>1, <3>2, <3>3, <3>4
      <3>5. CASE j \in {1, 2, 3, 4} /\ \E p \in 1..n : i = 4 + p
        BY <2>1, <3>2, <3>3, <3>5
      <3>6. CASE (\E p \in 1..n : i = 4 + p) /\ (\E p \in 1..n : j = 4 + p)
        <4>1. PICK p \in 1..n : i = 4 + p
          BY <3>6
        <4>2. PICK q \in 1..n : j = 4 + q
          BY <3>6
        <4>3. Folder[p] = Folder[q]
          BY <1>7, <1>13, <2>1, <4>1, <4>2
        <4>4. p = q
          BY <1>1, <4>3, EditorAssumption
        <4> QED BY <4>1, <4>2, <4>4
      <3> QED BY <1>9, <3>1, <3>4, <3>5, <3>6
    <2> QED BY <2>1 DEF KindsOnce
  <1> QED BY <1>1, <1>7, <1>10, <1>11, <1>12, <1>14

\* What AsSaved says of a file, in terms of the lemmas.
LEMMA FileIs ==
  ASSUME NEW f, AsSaved(f)
  PROVE  /\ f.objects \in ObjectLists /\ Counted(f.objects) /\ NoneAbove(f.objects)
         /\ KindsOnce(f.objects) /\ IdsBelow(f.objects)
         /\ Len(f.objects) >= 1 /\ Ids(f.objects) = 0..(Len(f.objects) - 1)
         /\ \A c \in DOMAIN f.data : f.data[c] \in 0..(Len(f.objects) - 1)
         /\ HasDoorAndEnd(f.objects) => Standard(f.objects)
         /\ DOMAIN f.data \in SUBSET Cells
  <1>1. /\ f.objects \in ObjectLists /\ Counted(f.objects) /\ NoneAbove(f.objects)
        /\ KindsOnce(f.objects)
    BY DEF AsSaved, ObjectLists, Counted
  <1>2. PICK r \in 1..GridRows, q \in 1..GridCols :
          f.data \in [(0..(r - 1)) \X (0..(q - 1)) -> 0..(Len(f.objects) - 1)]
    BY DEF AsSaved
  <1>3. GridRows \in Nat /\ GridCols \in Nat
    BY EditorAssumption
  <1>4. <<0, 0>> \in DOMAIN f.data
    BY <1>2, <1>3
  <1>5. \A c \in DOMAIN f.data : f.data[c] \in 0..(Len(f.objects) - 1)
    BY <1>2
  <1>6. Len(f.objects) \in Nat /\ f.data[<<0, 0>>] \in 0..(Len(f.objects) - 1)
    BY <1>1, <1>4, <1>5, ObjectTypes
  <1>7. DOMAIN f.data \in SUBSET Cells
    <2>1. 0..(r - 1) \in SUBSET (0..(GridRows - 1)) /\ 0..(q - 1) \in SUBSET (0..(GridCols - 1))
      BY <1>3
    <2> QED BY <1>2, <2>1 DEF Cells
  <1>8. HasDoorAndEnd(f.objects) => Standard(f.objects)
    BY DEF AsSaved, HasDoorAndEnd
  <1>9. Ids(f.objects) = 0..(Len(f.objects) - 1)
    BY <1>1, DenseKinds
  <1>10. Len(f.objects) >= 1
    BY <1>6
  <1>11. IdsBelow(f.objects)
    BY <1>1, CountedBelow
  <1> QED BY <1>1, <1>5, <1>7, <1>8, <1>9, <1>10, <1>11

-----------------------------------------------------------------------------
(* The editor's invariant                                                  *)

\* What is saved has an object at the place of each id, and as long as its door and
\* end are where a new map has them, the ids 0 to 3 and all that was meant.
FileInv ==
  file # NoFile =>
    /\ AsSaved(file)
    /\ HasDoorAndEnd(file.objects) => MeansAs(file.objects, file.data, meant_saved)

\* The same of the palette: its ids are then distinct, so that a click picks what the
\* id it gives means.
PaletteInv ==
  window = "open" =>
    /\ objects \in ObjectLists /\ NoneAbove(objects)
    /\ KindsOnce(objects) /\ IdsBelow(objects)
    /\ \E i \in DOMAIN objects : objects[i].id = currentTile /\ objects[i].kind = chosen
    /\ data \in [Cells -> Ids(objects)]
    /\ HasDoorAndEnd(objects) =>
         Standard(objects) /\ Counted(objects) /\ MeansAs(objects, data, meant)

EditorInv ==
  /\ window \in {"closed", "open"} /\ (window = "closed" => data = Blank /\ objects = <<>>)
  /\ FileInv /\ PaletteInv

\* A save from such a palette leaves such a file.
LEMMA WriteStep ==
  ASSUME NEW objs \in ObjectLists, NEW d \in [Cells -> Ids(objs)], NEW m, NoneAbove(objs),
         KindsOnce(objs), HasDoorAndEnd(objs) => Standard(objs) /\ MeansAs(objs, d, m),
         FileInv, Write(objs, d, m)
  PROVE  FileInv'
  <1>1. CASE UNCHANGED <<file, meant_saved>>
    <2>1. file' = file /\ meant_saved' = meant_saved
      BY <1>1
    <2> QED BY <2>1 DEF FileInv
  <1>2. CASE file' = SaveLevelConfig(objs, d) /\ meant_saved' = Cropped(d, m)
    <2> DEFINE f == SaveLevelConfig(objs, d)
    <2>1. AsSaved(f) /\ (HasDoorAndEnd(f.objects) => HasDoorAndEnd(objs))
      BY SavedAs
    <2>2. ASSUME HasDoorAndEnd(f.objects)
          PROVE  MeansAs(f.objects, f.data, Cropped(d, m))
      BY <2>1, <2>2, SavedMeaning
    <2> HIDE DEF f
    <2>3. file' = f /\ meant_saved' = Cropped(d, m)
      BY <1>2 DEF f
    <2> QED BY <2>1, <2>2, <2>3 DEF FileInv
  <1> QED BY <1>1, <1>2 DEF Write

\* The level there is at first is taken to mean what it says.
LEMMA EditorInitially == EditorInit => EditorInv
  <1> SUFFICES ASSUME EditorInit PROVE EditorInv
    OBVIOUS
  <1>1. window = "closed" /\ data = Blank /\ objects = <<>>
    BY DEF EditorInit
  <1>2. ASSUME file # NoFile
        PROVE  AsSaved(file) /\ MeansAs(file.objects, file.data, meant_saved)
    <2>1. file \in FirstFiles
      BY <1>2 DEF EditorInit
    <2>2. meant_saved = [c \in DOMAIN file.data |-> KindOf(file.objects, file.data[c])]
      BY <1>2 DEF EditorInit
    <2> QED BY <2>1, <2>2, FirstFilesAssumption DEF MeansAs
  <1> QED BY <1>1, <1>2 DEF EditorInv, FileInv, PaletteInv

\* A new map.
LEMMA OpenNewStep == EditorInv /\ OpenNew => EditorInv'
  <1> SUFFICES ASSUME EditorInv, OpenNew PROVE EditorInv'
    OBVIOUS
  <1> DEFINE empty == [c \in Cells |-> EMPTY]
  <1>1. /\ objects' = NewPalette /\ data' = Blank /\ meant' = empty
        /\ Write(NewPalette, Blank, empty)
        /\ currentTile' = 0 /\ chosen' = EMPTY /\ window' = "open"
    BY DEF OpenNew
  <1>2. /\ NewPalette \in ObjectLists /\ NoneAbove(NewPalette) /\ Counted(NewPalette)
        /\ Len(NewPalette) >= 4 /\ Standard(NewPalette)
        /\ KindsOnce(NewPalette) /\ IdsBelow(NewPalette)
    BY NewPaletteIs, CountedBelow
  <1>3. /\ Len(NewPalette) \in Nat /\ Ids(NewPalette) = 0..(Len(NewPalette) - 1)
        /\ DOMAIN NewPalette = 1..Len(NewPalette)
        /\ \A id \in 0..(Len(NewPalette) - 1) : KindOf(NewPalette, id) = NewPalette[id + 1].kind
    BY <1>2, DenseKinds, ObjectTypes
  <1>4. Blank \in [Cells -> Ids(NewPalette)]
    <2>1. 0 \in Ids(NewPalette)
      BY <1>2, <1>3
    <2> QED BY <2>1 DEF Blank
  <1>5. MeansAs(NewPalette, Blank, empty)
    BY <1>2 DEF MeansAs, Blank, Standard
  <1>6. \E i \in DOMAIN NewPalette : NewPalette[i].id = 0 /\ NewPalette[i].kind = EMPTY
    <2>1. 1 \in DOMAIN NewPalette /\ 0 \in 0..(Len(NewPalette) - 1)
      BY <1>2, <1>3
    <2>2. NewPalette[1].id = 0 /\ NewPalette[0 + 1].kind = EMPTY
      BY <1>2, <1>3, <2>1 DEF Counted, Standard
    <2> QED BY <2>1, <2>2
  <1> HIDE DEF empty
  <1>7. FileInv'
    <2>1. FileInv
      BY DEF EditorInv
    <2> QED BY <1>1, <1>2, <1>4, <1>5, <2>1, WriteStep
  <1>8. PaletteInv'
    BY <1>1, <1>2, <1>4, <1>5, <1>6 DEF PaletteInv
  <1> QED BY <1>1, <1>7, <1>8 DEF EditorInv

\* A map that was saved.
LEMMA OpenExistingStep == EditorInv /\ OpenExisting => EditorInv'
  <1> SUFFICES ASSUME EditorInv, OpenExisting PROVE EditorInv'
    OBVIOUS
  <1> DEFINE old == file.objects
             n == Len(old)
             d == Expanded(file.data, 0)
  <1>1. /\ file # NoFile /\ window' = "open" /\ file' = file /\ meant_saved' = meant_saved
        /\ objects' \in {MergeObjectPalette(old), old}
        /\ data' = [c \in Cells |-> IF d[c] >= Len(objects') THEN 0 ELSE d[c]]
        /\ meant' = Expanded(meant_saved, EMPTY)
        /\ currentTile' = objects'[1].id /\ chosen' = objects'[1].kind
    BY DEF OpenExisting
  <1>2. AsSaved(file) /\ (HasDoorAndEnd(old) => MeansAs(old, file.data, meant_saved))
    BY <1>1 DEF EditorInv, FileInv
  <1>3. /\ old \in ObjectLists /\ Counted(old) /\ NoneAbove(old)
        /\ KindsOnce(old) /\ IdsBelow(old)
        /\ n \in Nat /\ n >= 1 /\ Ids(old) = 0..(n - 1)
        /\ \A c \in DOMAIN file.data : file.data[c] \in 0..(n - 1)
        /\ HasDoorAndEnd(old) => Standard(old)
        /\ DOMAIN file.data \in SUBSET Cells
    BY <1>2, FileIs, ObjectTypes
  <1>4. \A c \in Cells : d[c] = IF c \in DOMAIN file.data THEN file.data[c] ELSE 0
    BY DEF Expanded
  <1>5. \A c \in Cells : d[c] \in 0..(n - 1)
    BY <1>3, <1>4
  <1> HIDE DEF d, old
  <1>6. ASSUME NEW objs, objs \in ObjectLists, NoneAbove(objs), KindsOnce(objs), IdsBelow(objs),
               0..(n - 1) \in SUBSET Ids(objs),
               n <= Len(objs), HasDoorAndEnd(objs) => HasDoorAndEnd(old) /\ Counted(objs),
               HasDoorAndEnd(objs) => \A id \in 0..(n - 1) : KindOf(objs, id) = KindOf(old, id),
               objects' = objs
        PROVE  PaletteInv'
    <2>1. Len(objs) \in Nat /\ DOMAIN objs = 1..Len(objs)
      BY <1>6, ObjectTypes
    <2>2. \A c \in Cells : data'[c] = d[c]
      <3>1. \A c \in Cells : ~(d[c] >= Len(objs))
        BY <1>3, <1>5, <1>6, <2>1
      <3> QED BY <1>1, <1>6, <3>1
    <2>3. data' \in [Cells -> Ids(objs)]
      <3>1. \A c \in Cells : data'[c] \in Ids(objs)
        BY <1>5, <1>6, <2>2
      <3> QED BY <1>1, <3>1
    <2>4. \E i \in DOMAIN objs : objs[i].id = currentTile' /\ objs[i].kind = chosen'
      <3>1. 1 \in DOMAIN objs
        BY <1>3, <1>6, <2>1
      <3> QED BY <1>1, <1>6, <3>1
    <2>5. ASSUME HasDoorAndEnd(objs)
          PROVE  Standard(objs) /\ Counted(objs) /\ MeansAs(objs, data', meant')
      <3>1. /\ Standard(old) /\ MeansAs(old, file.data, meant_saved) /\ Counted(objs)
            /\ \A id \in 0..(n - 1) : KindOf(objs, id) = KindOf(old, id)
        BY <1>2, <1>3, <1>6, <2>5 DEF old
      <3>2. n >= 2 /\ 0 \in 0..(n - 1) /\ 1 \in 0..(n - 1)
        <4>1. 3 \in 0..(n - 1)
          <5>1. KindOf(old, 3) = END /\ END # UNKNOWN
            BY <3>1, EditorAssumption DEF Standard
          <5> QED BY <1>3, <5>1, DenseKinds
        <4> QED BY <1>3, <4>1
      <3>3. Standard(objs)
        BY <2>5, <3>1, <3>2 DEF Standard, HasDoorAndEnd
      <3>4. ASSUME NEW c \in Cells PROVE KindOf(objs, data'[c]) = meant'[c]
        <4>1. KindOf(objs, data'[c]) = KindOf(old, d[c])
          BY <1>5, <2>2, <3>1
        <4>2. meant'[c] = IF c \in DOMAIN meant_saved THEN meant_saved[c] ELSE EMPTY
          BY <1>1 DEF Expanded
        <4>3. CASE c \in DOMAIN file.data
          BY <1>4, <3>1, <4>1, <4>2, <4>3 DEF MeansAs
        <4>4. CASE c \notin DOMAIN file.data
          BY <1>4, <3>1, <4>1, <4>2, <4>4 DEF MeansAs, Standard
        <4> QED BY <4>3, <4>4
      <3>5. DOMAIN data' = Cells /\ DOMAIN meant' = Cells
        BY <1>1 DEF Expanded
      <3> QED BY <3>1, <3>3, <3>4, <3>5 DEF MeansAs
    <2> QED BY <1>6, <2>3, <2>4, <2>5 DEF PaletteInv
  <1>7. ASSUME objects' = old PROVE PaletteInv'
    BY <1>3, <1>6, <1>7
  <1>8. ASSUME objects' = MergeObjectPalette(old) PROVE PaletteInv'
    <2> DEFINE merged == MergeObjectPalette(old)
    <2>1. /\ merged \in ObjectLists /\ NoneAbove(merged)
          /\ KindsOnce(merged) /\ IdsBelow(merged)
          /\ 0..(n - 1) \in SUBSET Ids(merged)
          /\ n <= Len(merged)
          /\ HasDoorAndEnd(merged) => HasDoorAndEnd(old) /\ Counted(merged)
          /\ HasDoorAndEnd(merged) /\ Standard(old) =>
               \A id \in 0..(n - 1) : KindOf(merged, id) = KindOf(old, id)
      BY <1>3, MergedIs
    <2> HIDE DEF merged
    <2>2. objects' = merged
      BY <1>8 DEF merged
    <2> QED BY <1>3, <1>6, <2>1, <2>2
  <1>9. FileInv'
    BY <1>1, <1>2 DEF FileInv, old
  <1>10. objects' = old \/ objects' = MergeObjectPalette(old)
    BY DEF OpenExisting, old
  <1>11. PaletteInv'
    BY <1>7, <1>8, <1>10
  <1> QED BY <1>1, <1>9, <1>11 DEF EditorInv

\* The palette is clicked, or a cell.
LEMMA ClickStep == EditorInv /\ (Pick \/ Paint) => EditorInv'
  <1> SUFFICES ASSUME EditorInv, Pick \/ Paint PROVE EditorInv'
    OBVIOUS
  <1>1. /\ window = "open" /\ window' = window /\ objects' = objects
        /\ file' = file /\ meant_saved' = meant_saved
    BY DEF Pick, Paint
  <1>2. /\ objects \in ObjectLists /\ NoneAbove(objects) /\ data \in [Cells -> Ids(objects)]
        /\ KindsOnce(objects) /\ IdsBelow(objects)
        /\ HasDoorAndEnd(objects) =>
             Standard(objects) /\ Counted(objects) /\ MeansAs(objects, data, meant)
    BY <1>1 DEF EditorInv, PaletteInv
  <1>3. FileInv'
    BY <1>1 DEF EditorInv, FileInv
  <1>4. PICK i \in DOMAIN objects : objects[i].id = currentTile /\ objects[i].kind = chosen
    BY <1>1 DEF EditorInv, PaletteInv
  <1>5. CASE Pick
    <2>1. data' = data /\ meant' = meant
      BY <1>5 DEF Pick
    <2>2. \E j \in DOMAIN objects : objects[j].id = currentTile' /\ objects[j].kind = chosen'
      BY <1>5 DEF Pick
    <2>3. PaletteInv'
      BY <1>1, <1>2, <2>1, <2>2 DEF PaletteInv
    <2> QED BY <1>1, <1>3, <2>3 DEF EditorInv
  <1>6. CASE Paint
    <2>1. PICK c \in Cells : /\ data' = [data EXCEPT ![c] = currentTile]
                             /\ meant' = [meant EXCEPT ![c] = chosen]
      BY <1>6 DEF Paint
    <2>2. currentTile' = currentTile /\ chosen' = chosen
      BY <1>6 DEF Paint
    <2>3. currentTile \in Ids(objects)
      BY <1>4 DEF Ids
    <2>4. data' \in [Cells -> Ids(objects)]
      BY <1>2, <2>1, <2>3
    <2>5. ASSUME HasDoorAndEnd(objects) PROVE MeansAs(objects, data', meant')
      <3>1. KindOf(objects, currentTile) = chosen
        <4>1. \A j \in DOMAIN objects : j < i => objects[j].id # objects[i].id
          BY <1>2, <2>5, ObjectTypes DEF Counted
        <4> QED BY <1>2, <1>4, <4>1, KindOfIs
      <3> QED BY <1>2, <2>1, <2>5, <3>1 DEF MeansAs
    <2>6. PaletteInv'
      BY <1>1, <1>2, <1>4, <2>2, <2>4, <2>5 DEF PaletteInv
    <2> QED BY <1>1, <1>3, <2>6 DEF EditorInv
  <1> QED BY <1>5, <1>6

\* Ctrl+S, and the window is closed.
LEMMA SaveOrCloseStep == EditorInv /\ (Save \/ CloseWindow) => EditorInv'
  <1> SUFFICES ASSUME EditorInv, Save \/ CloseWindow PROVE EditorInv'
    OBVIOUS
  <1>1. window = "open"
    BY DEF Save, CloseWindow
  <1>2. /\ objects \in ObjectLists /\ NoneAbove(objects) /\ data \in [Cells -> Ids(objects)]
        /\ KindsOnce(objects) /\ IdsBelow(objects)
        /\ HasDoorAndEnd(objects) =>
             Standard(objects) /\ Counted(objects) /\ MeansAs(objects, data, meant)
    BY <1>1 DEF EditorInv, PaletteInv
  <1>3. CASE Save
    <2>1. FileInv'
      <3>1. FileInv /\ Write(objects, data, meant)
        BY <1>3 DEF EditorInv, Save
      <3> QED BY <1>2, <3>1, WriteStep
    <2>2. UNCHANGED <<objects, data, currentTile, chosen, meant, window>>
      BY <1>3 DEF Save
    <2>3. /\ objects' = objects /\ data' = data /\ currentTile' = currentTile
          /\ chosen' = chosen /\ meant' = meant /\ window' = window
      BY <2>2
    <2>4. PaletteInv /\ window \in {"closed", "open"} /\ window # "closed"
      BY <1>1 DEF EditorInv
    <2>5. PaletteInv'
      BY <2>3, <2>4 DEF PaletteInv
    <2> QED BY <2>1, <2>3, <2>4, <2>5 DEF EditorInv
  <1>4. CASE CloseWindow
    <2>1. /\ window' = "closed" /\ data' = Blank /\ objects' = <<>>
          /\ file' = file /\ meant_saved' = meant_saved
      BY <1>4 DEF CloseWindow
    <2>2. FileInv'
      BY <2>1 DEF EditorInv, FileInv
    <2>3. PaletteInv'
      BY <2>1 DEF PaletteInv
    <2>4. Blank' = Blank
      BY DEF Blank, Cells
    <2> QED BY <2>1, <2>2, <2>3, <2>4 DEF EditorInv
  <1> QED BY <1>3, <1>4

\* Every step of the editor keeps its invariant.
LEMMA EditorInductive == EditorSpec => []EditorInv
  <1>1. EditorInv /\ UNCHANGED editorVars => EditorInv'
    BY DEF editorVars, EditorInv, FileInv, PaletteInv, Blank, Cells
  <1>2. EditorInv /\ [EditorNext]_editorVars => EditorInv'
    BY <1>1, OpenNewStep, OpenExistingStep, ClickStep, SaveOrCloseStep DEF EditorNext
  <1> QED BY <1>2, EditorInitially, PTL DEF EditorSpec

-----------------------------------------------------------------------------
(* What the editor guarantees                                              *)

\* Whatever is drawn, saved and opened again, the file is one as the first files
\* are assumed to be: map_editor.c keeps its own precondition.
THEOREM SavesItsOwn == EditorSpec => [](file # NoFile => AsSaved(file))
  BY EditorInductive, PTL DEF EditorInv, FileInv

\* Objects without a kind twice are no more than the pictures and the four standard ones.
LEMMA ObjectsFit ==
  ASSUME NEW objs \in ObjectLists, KindsOnce(objs)
  PROVE  Len(objs) <= MAX_OBJECTS
  <1> DEFINE n == Len(objs)
             four == {EMPTY, PLAYER, DOOR, END}
             f == [i \in 1..n |-> objs[i].kind]
             g == [i \in DOMAIN Folder |-> Folder[i]]
  <1>1. n \in Nat /\ DOMAIN objs = 1..n /\ \A i \in 1..n : objs[i].kind \in Kinds \ {UNKNOWN}
    BY ObjectTypes
  <1>2. IsFiniteSet(Pictures) /\ Cardinality(Pictures) \in Nat /\ Cardinality(Pictures) <= Len(Folder)
    <2>1. DOMAIN Folder = 1..Len(Folder) /\ Len(Folder) \in Nat
      BY PictureKinds
    <2>2. IsFiniteSet(DOMAIN Folder) /\ Cardinality(DOMAIN Folder) = Len(Folder)
      <3>1. /\ IsFiniteSet(1..Len(Folder))
            /\ Cardinality(1..Len(Folder)) = IF 1 > Len(Folder) THEN 0 ELSE Len(Folder) - 1 + 1
        <4>1. 1 \in Int /\ Len(Folder) \in Int
          BY <2>1
        <4> QED BY ONLY <4>1, FS_Interval
      <3> QED BY <2>1, <3>1
    <2>3. g \in Surjection(DOMAIN Folder, Pictures)
      BY DEF Surjection, Pictures, ToSet
    <2> HIDE DEF g
    <2>4. IsFiniteSet(Pictures) /\ Cardinality(Pictures) <= Cardinality(DOMAIN Folder)
      BY ONLY <2>2, <2>3, FS_Surjection
    <2> QED BY <2>2, <2>4, FS_CardinalityType
  <1>3. IsFiniteSet(four) /\ Cardinality(four) \in Nat /\ Cardinality(four) <= 4
    <2>1. IsFiniteSet({EMPTY}) /\ Cardinality({EMPTY}) = 1
      BY FS_Singleton
    <2>2. \A S, x : IsFiniteSet(S) =>
            /\ IsFiniteSet(S \cup {x}) /\ Cardinality(S) \in Nat
            /\ Cardinality(S \cup {x}) <= Cardinality(S) + 1
      <3>1. SUFFICES ASSUME NEW S, NEW x, IsFiniteSet(S)
                     PROVE  /\ IsFiniteSet(S \cup {x}) /\ Cardinality(S) \in Nat
                            /\ Cardinality(S \cup {x}) <= Cardinality(S) + 1
        OBVIOUS
      <3>2. Cardinality(S) \in Nat
        BY <3>1, FS_CardinalityType
      <3> QED BY <3>1, <3>2, FS_AddElement
    <2>3. IsFiniteSet({EMPTY, PLAYER}) /\ Cardinality({EMPTY, PLAYER}) <= 2
      <3>1. {EMPTY, PLAYER} = {EMPTY} \cup {PLAYER}
        OBVIOUS
      <3>2. /\ IsFiniteSet({EMPTY, PLAYER})
            /\ Cardinality({EMPTY, PLAYER}) <= Cardinality({EMPTY}) + 1
        BY <2>1, <2>2, <3>1
      <3>3. Cardinality({EMPTY, PLAYER}) \in Nat
        BY <3>2, FS_CardinalityType
      <3> QED BY <2>1, <3>2, <3>3
    <2>4. IsFiniteSet({EMPTY, PLAYER, DOOR}) /\ Cardinality({EMPTY, PLAYER, DOOR}) <= 3
      <3>1. {EMPTY, PLAYER, DOOR} = {EMPTY, PLAYER} \cup {DOOR}
        OBVIOUS
      <3>2. /\ IsFiniteSet({EMPTY, PLAYER, DOOR}) /\ Cardinality({EMPTY, PLAYER}) \in Nat
            /\ Cardinality({EMPTY, PLAYER, DOOR}) <= Cardinality({EMPTY, PLAYER}) + 1
        BY <2>2, <2>3, <3>1
      <3>3. Cardinality({EMPTY, PLAYER, DOOR}) \in Nat
        BY <3>2, FS_CardinalityType
      <3> QED BY <2>3, <3>2, <3>3
    <2>5. four = {EMPTY, PLAYER, DOOR} \cup {END}
      OBVIOUS
    <2>6. /\ IsFiniteSet(four) /\ Cardinality({EMPTY, PLAYER, DOOR}) \in Nat
          /\ Cardinality(four) <= Cardinality({EMPTY, PLAYER, DOOR}) + 1
      BY <2>2, <2>4, <2>5
    <2>7. Cardinality(four) \in Nat
      BY <2>6, FS_CardinalityType
    <2> QED BY <2>4, <2>6, <2>7
  <1>4. Kinds \ {UNKNOWN} \in SUBSET (four \cup Pictures)
    BY DEF Kinds
  <1>5. f \in Injection(1..n, four \cup Pictures)
    <2>1. f \in [1..n -> four \cup Pictures]
      BY <1>1, <1>4
    <2>2. \A i, j \in 1..n : f[i] = f[j] => i = j
      BY <1>1 DEF KindsOnce
    <2> QED BY <2>1, <2>2 DEF Injection, IsInjective
  <1> HIDE DEF four, f
  <1>6. /\ IsFiniteSet(four \cup Pictures)
        /\ Cardinality(four \cup Pictures) <= Cardinality(four) + Cardinality(Pictures)
    <2>1. /\ IsFiniteSet(four \cup Pictures)
          /\ Cardinality(four \cup Pictures) =
               Cardinality(four) + Cardinality(Pictures) - Cardinality(four \cap Pictures)
      BY <1>2, <1>3, FS_Union
    <2>2. Cardinality(four \cap Pictures) \in Nat
      <3>1. IsFiniteSet(four \cap Pictures)
        BY <1>3, FS_Subset
      <3> QED BY <3>1, FS_CardinalityType
    <2> QED BY <1>2, <1>3, <2>1, <2>2
  <1>7. Cardinality(1..n) <= Cardinality(four \cup Pictures)
    BY <1>5, <1>6, FS_Injection
  <1>8. Cardinality(1..n) = n
    <2>1. Cardinality(1..n) = IF 1 > n THEN 0 ELSE n - 1 + 1
      <3>1. 1 \in Int /\ n \in Int
        BY <1>1
      <3> QED BY ONLY <3>1, FS_Interval
    <2> QED BY <1>1, <2>1
  <1>9. Cardinality(four \cup Pictures) \in Nat
    BY <1>6, FS_CardinalityType
  <1> QED BY <1>1, <1>2, <1>3, <1>6, <1>7, <1>8, <1>9, PictureKinds, EditorAssumption

\* For a folder of four pictures less than MAX_OBJECTS, no id is outside the tables of
\* SaveLevelConfig, of which id_map is read without a test, in any number of sittings.
THEOREM TablesFit == EditorSpec => []IdsFit
  <1>1. EditorInv => IdsFit
    <2> SUFFICES ASSUME EditorInv, NEW i \in DOMAIN objects PROVE objects[i].id < MAX_OBJECTS
      BY DEF IdsFit
    <2>1. CASE window = "open"
      <3>1. objects \in ObjectLists /\ KindsOnce(objects) /\ IdsBelow(objects)
        BY <2>1 DEF EditorInv, PaletteInv
      <3>2. Len(objects) <= MAX_OBJECTS /\ objects[i].id < Len(objects)
        BY <3>1, ObjectsFit DEF IdsBelow
      <3>3. objects[i].id \in Nat /\ Len(objects) \in Nat
        BY <3>1, ObjectTypes
      <3> QED BY <3>2, <3>3, EditorAssumption
    <2>2. CASE window = "closed"
      BY <2>2 DEF EditorInv
    <2> QED BY <2>1, <2>2 DEF EditorInv
  <1> QED BY <1>1, EditorInductive, PTL

\* SaveLevelConfig counts its objects' ids from 0, and the layout has no others.
THEOREM SavedIsDense == EditorSpec => []SavedDense
  <1>1. EditorInv => SavedDense
    <2> SUFFICES ASSUME EditorInv, file # NoFile
                 PROVE  /\ \A i \in DOMAIN file.objects : file.objects[i].id = i - 1
                        /\ \A c \in DOMAIN file.data : file.data[c] < Len(file.objects)
      BY DEF SavedDense
    <2>1. AsSaved(file)
      BY DEF EditorInv, FileInv
    <2>2. /\ file.objects \in ObjectLists /\ Counted(file.objects)
          /\ \A c \in DOMAIN file.data : file.data[c] \in 0..(Len(file.objects) - 1)
      BY <2>1, FileIs
    <2>3. Len(file.objects) \in Nat
      BY <2>2, ObjectTypes
    <2> QED BY <2>2, <2>3 DEF Counted
  <1> QED BY <1>1, EditorInductive, PTL

\* While a palette has the standard ids every cell of the grid is what was picked
\* for it, through all the saves and sittings there were.
THEOREM StandardIsShown == EditorSpec => []StandardShowsMeant
  <1>1. EditorInv => StandardShowsMeant
    <2> SUFFICES ASSUME EditorInv, window = "open", Standard(objects), NEW c \in Cells
                 PROVE  KindOf(objects, data[c]) = meant[c]
      BY DEF StandardShowsMeant
    <2>1. HasDoorAndEnd(objects)
      BY DEF Standard, HasDoorAndEnd
    <2>2. data \in [Cells -> Ids(objects)] /\ MeansAs(objects, data, meant)
      BY <2>1 DEF EditorInv, PaletteInv
    <2> QED BY <2>2 DEF MeansAs
  <1> QED BY <1>1, EditorInductive, PTL

\* get_map and check_collision_pl then take each cell of the file for the same.
THEOREM StandardIsPlayed == EditorSpec => []StandardPlaysAsMeant
  <1>1. EditorInv => StandardPlaysAsMeant
    <2> SUFFICES ASSUME EditorInv, file # NoFile, Standard(file.objects), NEW c \in DOMAIN file.data
                 PROVE  GameMeaning(file, c) = meant_saved[c]
      BY DEF StandardPlaysAsMeant
    <2> DEFINE objs == file.objects
               id   == file.data[c]
               kind == KindOf(objs, id)
    <2>1. HasDoorAndEnd(objs) /\ AsSaved(file)
      BY DEF Standard, HasDoorAndEnd, EditorInv, FileInv
    <2>2. kind = meant_saved[c]
      BY <2>1 DEF EditorInv, FileInv, MeansAs
    <2>3. /\ objs \in ObjectLists /\ NoneAbove(objs) /\ Counted(objs) /\ Len(objs) \in Nat
          /\ id \in 0..(Len(objs) - 1) /\ Ids(objs) = 0..(Len(objs) - 1)
      BY <2>1, FileIs, ObjectTypes
    <2>4. PICK i \in DOMAIN objs : objs[i].id = id /\ objs[i].kind = kind
      <3>1. id \in Ids(objs)
        BY <2>3
      <3>2. \A o \in ObjectLists : \A x \in Ids(o) :
              \E i \in DOMAIN o : o[i].id = x /\ o[i].kind = KindOf(o, x)
        BY FirstOfId
      <3> HIDE DEF objs, id
      <3> QED BY <2>3, <3>1, <3>2 DEF kind
    <2>5. /\ id \in Nat /\ kind \in Kinds \ {UNKNOWN}
          /\ kind = EMPTY => id = 0
          /\ kind = END => id <= 3
      <3> HIDE DEF objs, id, kind
      <3> QED BY <2>3, <2>4, ObjectTypes DEF NoneAbove
    <2>6. /\ id = 0 => kind = EMPTY
          /\ id = 1 => kind = PLAYER
          /\ id = 2 => kind = DOOR
          /\ id = 3 => kind = END
      BY DEF Standard
    <2>7. GameMeaning(file, c) =
            CASE id = 0                                     -> EMPTY
              [] id # 0 /\ kind \in {PLAYER, DOOR}          -> kind
              [] id = 3 /\ kind \notin {PLAYER, DOOR}       -> END
              [] id \notin {0, 3} /\ kind \notin {PLAYER, DOOR} -> Picture(kind)
      BY DEF GameMeaning
    <2> HIDE DEF objs, id, kind
    <2>8. CASE id = 0
      BY <2>2, <2>6, <2>7, <2>8, EditorAssumption
    <2>9. CASE id # 0 /\ kind \in {PLAYER, DOOR}
      <3>1. id # 3
        BY <2>6, <2>9, EditorAssumption
      <3> QED BY <2>2, <2>7, <2>9, <3>1
    <2>10. CASE id = 3 /\ kind \notin {PLAYER, DOOR}
      BY <2>2, <2>6, <2>7, <2>10
    <2>11. CASE id \notin {0, 3} /\ kind \notin {PLAYER, DOOR}
      <3>1. kind # EMPTY
        BY <2>5, <2>11
      <3>2. kind # END
        <4>1. SUFFICES ASSUME kind = END PROVE FALSE
          OBVIOUS
        <4>2. id \in Nat /\ id <= 3 /\ id # 0 /\ id # 3
          BY <2>5, <2>11, <4>1
        <4>3. id = 1 \/ id = 2
          BY <4>2
        <4> QED BY <2>6, <2>11, <4>3
      <3>3. kind \in Pictures
        BY <2>5, <2>11, <3>1, <3>2 DEF Kinds
      <3>4. Picture(kind) = kind
        BY <3>3, PictureKinds, EditorAssumption DEF Picture
      <3>5. id # 0 /\ id # 3
        BY <2>11
      <3> QED BY <2>2, <2>7, <2>11, <3>4, <3>5
    <2> QED BY <2>8, <2>9, <2>10, <2>11
  <1> QED BY <1>1, EditorInductive, PTL

\* SaveLevelConfig cuts off nothing drawn and keeps the kind of each such cell.
THEOREM DrawingIsKept == EditorSpec => SaveKeepsDrawing
  <1> DEFINE Keeps ==
        file' # file =>
          LET corner == Corner(data)
          IN  \A c \in Drawn(data) :
                LET at == <<c[1] - corner[1], c[2] - corner[2]>>
                IN  /\ at \in DOMAIN file'.data
                    /\ KindOf(file'.objects, file'.data[at]) = KindOf(objects, data[c])
  <1>1. EditorInv /\ [EditorNext]_editorVars => [Keeps]_editorVars
    <2> SUFFICES ASSUME EditorInv, EditorNext, file' # file, NEW c \in Drawn(data)
                 PROVE  LET at == <<c[1] - Corner(data)[1], c[2] - Corner(data)[2]>>
                        IN  /\ at \in DOMAIN file'.data
                            /\ KindOf(file'.objects, file'.data[at]) = KindOf(objects, data[c])
      OBVIOUS
    <2>1. CASE OpenNew
      <3>1. data = Blank
        BY <2>1 DEF OpenNew, EditorInv
      <3> QED BY <3>1 DEF Drawn, Blank
    <2>2. CASE Save
      <3>1. objects \in ObjectLists /\ data \in [Cells -> Ids(objects)]
        BY <2>2 DEF Save, EditorInv, PaletteInv
      <3>2. file' = SaveLevelConfig(objects, data)
        BY <2>2 DEF Save, Write
      <3> QED BY <3>1, <3>2, SavedDrawing
    <2>3. OpenNew \/ Save
      BY DEF EditorNext, OpenExisting, Pick, Paint, CloseWindow
    <2> QED BY <2>1, <2>2, <2>3
  <1> QED BY <1>1, EditorInductive, PTL DEF EditorSpec, SaveKeepsDrawing

\* A level whose objects are those of a file the editor left is one that PicturesOwn
\* speaks of: init_texture_manager finds each object at the place of its id.
THEOREM EditedIsDense ==
  EditorSpec => [](\A l \in Levels :
                     /\ file # NoFile
                     /\ Len(Objects[l]) = Len(file.objects)
                     /\ \A n \in DOMAIN Objects[l] : Objects[l][n].id = file.objects[n].id
                     => Dense(l))
  <1>1. EditorInv => \A l \in Levels :
          /\ file # NoFile
          /\ Len(Objects[l]) = Len(file.objects)
          /\ \A n \in DOMAIN Objects[l] : Objects[l][n].id = file.objects[n].id
          => Dense(l)
    <2> SUFFICES ASSUME EditorInv, NEW l \in Levels, file # NoFile,
                        Len(Objects[l]) = Len(file.objects),
                        \A n \in DOMAIN Objects[l] : Objects[l][n].id = file.objects[n].id
                 PROVE  Dense(l)
      OBVIOUS
    <2>1. file.objects \in ObjectLists /\ Counted(file.objects)
      BY FileIs DEF EditorInv, FileInv
    <2>2. DOMAIN file.objects = 1..Len(file.objects)
      BY <2>1, ObjectTypes
    <2>3. DOMAIN Objects[l] = 1..Len(Objects[l])
      BY LevelAssumption
    <2> QED BY <2>1, <2>2, <2>3 DEF Counted, Dense
  <1> QED BY <1>1, EditorInductive, PTL

=============================================================================
