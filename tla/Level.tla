------------------------------- MODULE Level -------------------------------
(***************************************************************************)
(* What the levels take from the heap and from the graphics card, from     *)
(* load_level_config (config.c) and init_texture_manager to the next level *)
(* and to engine_shutdown.  Every malloc of load_level_config may fail.    *)
(*                                                                         *)
(* Nothing is given back when a level is left: game_unload is never called *)
(* and the next load overwrites what pointed to the last one's.  A level   *)
(* file that the code follows into memory it does not have is a "wild"     *)
(* end: the program may do anything then.                                  *)
(***************************************************************************)
EXTENDS Integers, Sequences

CONSTANTS Levels,
          Objects,      \* the objects of each level's file: id and picture
          Tiles,        \* the ids in its map
          Rows,         \* the rows of its map
          Map,          \* whether that is there: "whole", "short" of cells, "none"
          NoPicture,    \* the empty texture name
          Broken,       \* the pictures that LoadTexture cannot load
          MAX_TEXTURES,
          MaxLoads      \* bound: levels loaded

ASSUME LevelAssumption ==
  /\ MAX_TEXTURES \in Nat \ {0} /\ MaxLoads \in Nat
  /\ Objects \in [Levels -> Seq([id : Int, picture : STRING])]
  /\ Tiles \in [Levels -> SUBSET Nat] /\ Rows \in [Levels -> Nat]
  /\ Map \in [Levels -> {"whole", "short", "none"}]

None == [load |-> 0]
Placeholder == "MAGENTA"

VARIABLES load,         \* how many loads there were, the one under way included
          level,        \* the level each of them loads
          pc,
          row,          \* the row of the map that is allocated next
          k,            \* the object whose picture is loaded next
          heap,         \* allocated: load, what for, row
          card,         \* the textures the graphics card holds
          texture, loaded, max_id,  \* engine->texture_manager
          current_map   \* engine->current_map: a load, 0 for NULL

managerVars == <<texture, loaded, max_id>>
vars == <<load, level, pc, row, k, heap, card, managerVars, current_map>>

Slots == 0..(MAX_TEXTURES - 1)
Block(part) == <<load, part, 0>>

Init ==
  /\ load = 0 /\ level = <<>>
  /\ pc = "menu" /\ row = 0 /\ k = 1
  /\ heap = {} /\ card = {}
  /\ texture = [s \in Slots |-> None] /\ loaded = {} /\ max_id = 0
  /\ current_map = 0

-----------------------------------------------------------------------------
(* load_level_config                                                       *)

RowsUpTo(n) == {<<load, "row", r>> : r \in 0..(n - 1)}

\* FreedOnError wrong: also the row that malloc has just refused.
FreedOnErrorOneRowMore(step) ==
  IF step = "row"
  THEN RowsUpTo(row + 1) \cup {Block("layout"), Block("objects"), Block("config")}
  ELSE {}

\* What an error at that step frees before load_level_config returns NULL.
FreedOnError(step) ==
  CASE step \in {"open", "data"} -> {}
    [] step = "parse"   -> {Block("data")}
    [] step = "config"  -> {Block("json")}
    [] step \in {"objects", "layout"} -> {Block("json"), Block("config")}
    [] step = "rows"    -> {Block("json"), Block("layout"), Block("objects"), Block("config")}
    [] step = "row"     -> RowsUpTo(row) \cup {Block("layout"), Block("objects"), Block("config")}

Choose(l) ==
  /\ pc = "menu" /\ load < MaxLoads
  /\ load' = load + 1 /\ level' = Append(level, l)
  /\ pc' = "open"
  /\ UNCHANGED <<row, k, heap, card, managerVars, current_map>>

OpenFile ==
  /\ pc = "open"
  /\ pc' = "data"
  /\ UNCHANGED <<load, level, row, k, heap, card, managerVars, current_map>>

\* Parse wrong: the text is kept.
ParseKeepsData ==
  /\ pc = "parse"
  /\ heap' = heap \cup {Block("json")}
  /\ pc' = "config"
  /\ UNCHANGED <<load, level, row, k, card, managerVars, current_map>>

\* The text is freed whether it could be parsed or not.
Parse ==
  /\ pc = "parse"
  /\ heap' = (heap \ {Block("data")}) \cup {Block("json")}
  /\ pc' = "config"
  /\ UNCHANGED <<load, level, row, k, card, managerVars, current_map>>

\* The mallocs, in their order; a file without a map has no rows.
Malloc ==
  /\ pc \in {"data", "config", "objects", "layout", "rows"}
  /\ heap' = heap \cup {Block(pc)}
  /\ pc' = CASE pc = "data"    -> "parse"
             [] pc = "config"  -> "objects"
             [] pc = "objects" -> "layout"
             [] pc = "layout"  -> IF Map[level[load]] = "none" THEN "fill" ELSE "rows"
             [] pc = "rows"    -> IF Rows[level[load]] = 0 THEN "fill" ELSE "row"
  /\ row' = 0
  /\ UNCHANGED <<load, level, k, card, managerVars, current_map>>

MallocRow ==
  /\ pc = "row"
  /\ heap' = heap \cup {<<load, "row", row>>}
  /\ row' = row + 1
  /\ pc' = IF row' < Rows[level[load]] THEN "row" ELSE "fill"
  /\ UNCHANGED <<load, level, k, card, managerVars, current_map>>

\* An error, from the file that cannot be opened to the last row; get_map
\* returns NULL in its turn, and draw_start_menu goes back to the menu.
Fails ==
  /\ pc \in {"open", "data", "parse", "config", "objects", "layout", "rows", "row"}
  /\ heap' = heap \ FreedOnError(pc)
  /\ current_map' = 0
  /\ pc' = "menu"
  /\ UNCHANGED <<load, level, row, k, card, managerVars>>

\* Fill wrong: the parsed file is kept.
FillKeepsJson ==
  /\ pc = "fill"
  /\ pc' = IF Map[level[load]] = "short" THEN "wild" ELSE "entities"
  /\ UNCHANGED <<load, level, row, k, heap, card, managerVars, current_map>>

\* The cells, of which a short row has too few, then cJSON_Delete.
Fill ==
  /\ pc = "fill"
  /\ heap' = heap \ {Block("json")}
  /\ pc' = IF Map[level[load]] = "short" THEN "wild" ELSE "entities"
  /\ UNCHANGED <<load, level, row, k, card, managerVars, current_map>>

-----------------------------------------------------------------------------
(* get_map and init_texture_manager                                        *)

\* The search of the map for entities, over the rows that malloc left in the
\* layout when the file has no map.
SearchMap ==
  /\ pc = "entities"
  /\ pc' \in IF Map[level[load]] = "none" THEN {"textures", "wild"} ELSE {"textures"}
  /\ UNCHANGED <<load, level, row, k, heap, card, managerVars, current_map>>

\* ClearTextures wrong: without the memset, the slots keep the last level's.
ClearTexturesKeepsSlots ==
  /\ pc = "textures"
  /\ max_id' = 0 /\ k' = 1
  /\ pc' = "texture"
  /\ UNCHANGED <<load, level, row, heap, card, texture, loaded, current_map>>

ClearTextures ==
  /\ pc = "textures"
  /\ texture' = [s \in Slots |-> None] /\ loaded' = {} /\ max_id' = 0
  /\ k' = 1
  /\ pc' = "texture"
  /\ UNCHANGED <<load, level, row, heap, card, current_map>>

\* The object's own id says where its picture goes, and also which object's
\* picture it is.
LoadPicture ==
  LET objects == Objects[level[load]]
      id      == objects[k].id
      picture == objects[id + 1].picture
      new     == [load |-> load, id |-> id, object |-> k,
                  picture |-> IF picture \in Broken THEN Placeholder ELSE picture]
  IN  /\ pc = "texture" /\ k <= Len(objects)
      /\ k' = k + 1
      /\ IF id \notin Slots \/ id >= Len(objects)
         THEN pc' = "wild" /\ UNCHANGED <<card, managerVars>>
         ELSE /\ max_id' = IF id > max_id THEN id ELSE max_id
              /\ IF picture = NoPicture
                 THEN loaded' = loaded \ {id} /\ UNCHANGED <<texture, card>>
                 ELSE /\ card' = card \cup {new}
                      /\ texture' = [texture EXCEPT ![id] = new]
                      /\ loaded' = IF picture \in Broken THEN loaded \ {id} ELSE loaded \cup {id}
              /\ pc' = pc
      /\ UNCHANGED <<load, level, row, heap, current_map>>

EnterLevel ==
  /\ pc = "texture" /\ k > Len(Objects[level[load]])
  /\ current_map' = load
  /\ pc' = "play"
  /\ UNCHANGED <<load, level, row, k, heap, card, managerVars>>

-----------------------------------------------------------------------------
(* The menus, and engine_shutdown                                          *)

Leave ==
  /\ pc = "play"
  /\ pc' = "menu"
  /\ UNCHANGED <<load, level, row, k, heap, card, managerVars, current_map>>

Quit ==
  /\ pc \in {"menu", "play"}
  /\ pc' = IF current_map = 0 THEN "done" ELSE "unload"
  /\ UNCHANGED <<load, level, row, k, heap, card, managerVars, current_map>>

\* free_texture_manager: the slots below max_id that are flagged.
Unloaded == {s \in loaded : s < max_id}

FreeTextures ==
  /\ pc = "unload"
  /\ card' = card \ {texture[s] : s \in Unloaded}
  /\ loaded' = loaded \ Unloaded
  /\ pc' = "free"
  /\ UNCHANGED <<load, level, row, k, heap, texture, max_id, current_map>>

\* FreedWithLevel wrong: the array of rows goes, the rows stay.
FreedWithLevelNotRows(n) == {<<n, part, 0>> : part \in {"objects", "rows", "layout", "config"}}

\* free_level_config, which frees rows that malloc left in the layout when the
\* file has no map.
FreedWithLevel(n) ==
  {<<n, part, 0>> : part \in {"objects", "rows", "layout", "config"}}
    \cup {<<n, "row", r>> : r \in 0..(Rows[level[n]] - 1)}

FreeLevel ==
  /\ pc = "free"
  /\ heap' = heap \ FreedWithLevel(current_map)
  /\ pc' \in IF Map[level[current_map]] = "none" THEN {"done", "wild"} ELSE {"done"}
  /\ UNCHANGED <<load, level, row, k, card, managerVars, current_map>>

Next ==
  \/ \E l \in Levels : Choose(l)
  \/ OpenFile \/ Parse \/ Malloc \/ MallocRow \/ Fails \/ Fill
  \/ SearchMap \/ ClearTextures \/ LoadPicture \/ EnterLevel
  \/ Leave \/ Quit \/ FreeTextures \/ FreeLevel

Spec == Init /\ [][Next]_vars

-----------------------------------------------------------------------------
(* Properties                                                              *)

Steps == {"menu", "open", "data", "parse", "config", "objects", "layout", "rows", "row", "fill",
          "entities", "textures", "texture", "play", "unload", "free", "done", "wild"}

\* Type correctness of the model.
TypeOK ==
  /\ load \in 0..MaxLoads /\ level \in Seq(Levels) /\ Len(level) = load
  /\ pc \in Steps /\ row \in Nat /\ k \in Nat
  /\ loaded \subseteq Slots /\ max_id \in Slots
  /\ current_map \in 0..load

Of(n) == {b \in heap : b[1] = n}

\* No error path frees what it does not have, however far the load came.
ErrorsFreeOwned ==
  pc \in {"open", "data", "parse", "config", "objects", "layout", "rows", "row"} =>
    FreedOnError(pc) \subseteq heap

\* A load that fails leaves nothing behind, unless it was the layout or a row
\* that malloc refused: those paths forget the objects, and the parsed file with
\* the array of rows.
FailedLoadLeaves ==
  pc = "menu" /\ current_map = 0 /\ load > 0 =>
    Of(load) \in {{}, {Block("objects")}, {Block("json"), Block("rows")}}

\* While a level is played its load holds what free_level_config frees, and
\* nothing else of what it took.
PlayHoldsLevel ==
  pc = "play" /\ Map[level[current_map]] = "whole" => Of(current_map) = FreedWithLevel(current_map)

Dense(l) == \A n \in DOMAIN Objects[l] : Objects[l][n].id = n - 1

\* In a level whose ids count its objects, every cell that has an object is drawn
\* with the picture of that object, loaded for this level and still on the card.
OwnPictures ==
  pc = "play" /\ Dense(level[current_map]) =>
    \A id \in {i \in Tiles[level[current_map]] : i < Len(Objects[level[current_map]])} :
      LET picture == Objects[level[current_map]][id + 1].picture
      IN  IF picture = NoPicture THEN texture[id] = None
          ELSE /\ texture[id] \in card
               /\ texture[id].load = current_map
               /\ texture[id].picture = IF picture \in Broken THEN Placeholder ELSE picture

\* What is left at the end of the level that was loaded last: no memory, and
\* of its pictures the placeholders and the one with the greatest id.
LastLevelReleased ==
  pc = "done" /\ current_map # 0 /\ Map[level[current_map]] = "whole" =>
    /\ Of(current_map) = {}
    /\ Dense(level[current_map]) =>
         \A t \in card : t.load = current_map => t.picture = Placeholder \/ t.id = max_id

=============================================================================
