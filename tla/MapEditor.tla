------------------------------ MODULE MapEditor ------------------------------
(***************************************************************************)
(* The map editor, src/map_editor.c: it opens a level, merging the level's *)
(* objects with the pictures of the resource folder, lets its user paint   *)
(* cells with an object's id, and saves the level cropped and with its ids *)
(* renumbered.  The game reads the file it leaves (map.c, player.c).       *)
(*                                                                         *)
(* An object's name, texture and entity are one thing here, its kind: a    *)
(* plain tile's kind is its picture.  Beside the ids of the cells, meant   *)
(* records the kinds the user picked in the palette.                       *)
(***************************************************************************)
EXTENDS Integers, Sequences, FiniteSets, SequencesExt, FiniteSetsExt

CONSTANTS EMPTY, PLAYER, DOOR, END, UNKNOWN,   \* kinds that are not plain tiles
          Folder,                    \* the pictures of resources/map, in the order read
          DoorPicture, EndPicture,   \* the two of them that objects 2 and 3 have
          Untextured, HeroPicture,
          GridRows, GridCols,    \* EDITOR_MAX_SIZE, both
          MAX_OBJECTS,
          NoFile,
          FirstFiles,    \* the levels there may be at first, as this editor saves them
          MaxPaints      \* bound: cells painted

Pictures == ToSet(Folder)

ASSUME EditorAssumption ==
  /\ GridRows \in Nat \ {0} /\ GridCols \in Nat \ {0} /\ MaxPaints \in Nat
  /\ Folder \in Seq(Pictures) /\ \A i, j \in DOMAIN Folder : Folder[i] = Folder[j] => i = j
  /\ MAX_OBJECTS \in Nat /\ Len(Folder) + 4 <= MAX_OBJECTS
  /\ EMPTY \notin {PLAYER, DOOR, END, UNKNOWN} /\ PLAYER \notin {DOOR, END, UNKNOWN}
  /\ DOOR \notin {END, UNKNOWN} /\ END # UNKNOWN
  /\ {EMPTY, PLAYER, DOOR, END, UNKNOWN} \cap Pictures = {}

Kinds == {EMPTY, PLAYER, DOOR, END, UNKNOWN} \cup Pictures

VARIABLES file,         \* the level's file: objects and data
          objects,      \* config->objects
          data,         \* config->layout->data
          currentTile,
          chosen,       \* the kind of the palette's row last clicked
          meant,        \* what the user means each cell to be
          meant_saved,  \* meant, when the file was saved
          paints,
          window

editorVars == <<file, objects, data, currentTile, chosen, meant, meant_saved, paints, window>>

Cells == (0..(GridRows - 1)) \X (0..(GridCols - 1))

Picture(kind) ==
  CASE kind \in Pictures         -> kind
    [] kind = PLAYER             -> HeroPicture
    [] kind = DOOR               -> DoorPicture
    [] kind = END                -> EndPicture
    [] kind \in {EMPTY, UNKNOWN} -> Untextured

Object(id, kind) == [id |-> id, kind |-> kind]

\* The first object of that id, as SaveLevelConfig and get_map look it up.
KindOf(objs, id) ==
  LET found == {k \in DOMAIN objs : objs[k].id = id}
  IN  IF found = {} THEN UNKNOWN ELSE objs[Min(found)].kind

-----------------------------------------------------------------------------
(* SaveLevelConfig *)

Drawn(d) == {c \in Cells : d[c] # 0}

\* The corner and the size of what is kept: all that is drawn, or one cell.
Corner(d) ==
  IF Drawn(d) = {} THEN <<0, 0>>
  ELSE <<Min({c[1] : c \in Drawn(d)}), Min({c[2] : c \in Drawn(d)})>>

\* ... wrong: max_r - min_r, without the one more that it takes.
SizeOffByOne(d) ==
  IF Drawn(d) = {} THEN <<1, 1>>
  ELSE <<Max({c[1] : c \in Drawn(d)}) - Corner(d)[1], Max({c[2] : c \in Drawn(d)}) - Corner(d)[2]>>

Size(d) ==
  IF Drawn(d) = {} THEN <<1, 1>>
  ELSE <<Max({c[1] : c \in Drawn(d)}) - Corner(d)[1] + 1,
         Max({c[2] : c \in Drawn(d)}) - Corner(d)[2] + 1>>

Cropped(d, f) ==
  LET corner == Corner(d)
      size   == Size(d)
  IN  [c \in (0..(size[1] - 1)) \X (0..(size[2] - 1)) |->
         f[<<corner[1] + c[1], corner[2] + c[2]>>]]

\* ... wrong: counted from 1.
NewIdFromOne(used, id) == Cardinality({u \in used : u <= id})

\* id_map: the used ids are counted through from 0.
NewId(used, id) == Cardinality({u \in used : u < id})

\* old_ids_sorted: the n-th number of a set in ascending order.
Nth(set, n) == CHOOSE x \in set : Cardinality({y \in set : y < x}) = n - 1

\* ... wrong: an object keeps the id it had.
SavedObjectsKeepIds(objs, used) ==
  [n \in 1..Cardinality(used) |-> Object(Nth(used, n), KindOf(objs, Nth(used, n)))]

SavedObjects(objs, used) ==
  [n \in 1..Cardinality(used) |-> Object(n - 1, KindOf(objs, Nth(used, n)))]

SaveLevelConfig(objs, d) ==
  LET kept == Cropped(d, d)
      used == Range(kept)
  IN  [objects |-> SavedObjects(objs, used),
       data    |-> [c \in DOMAIN kept |-> NewId(used, kept[c])]]

-----------------------------------------------------------------------------
(* Opening a level *)

\* BuildObjectPalette: a new map's objects.
NewPalette ==
  <<Object(0, EMPTY), Object(1, PLAYER), Object(2, DOOR), Object(3, END)>>
    \o [k \in DOMAIN Folder |-> Object(k + 3, Folder[k])]

\* A loaded object; whatever has the id 0 or 1 becomes empty or player.
Corrected(o) ==
  CASE o.id = 0 -> Object(0, EMPTY)
    [] o.id = 1 -> Object(1, PLAYER)
    [] OTHER    -> o

HasId(objs, id) == \E k \in DOMAIN objs : objs[k].id = id

MaxId(objs) == Max({0} \cup {objs[k].id : k \in {j \in DOMAIN objs : objs[j].id > 1}})

\* The loaded objects, and empty and player if they lack.
Basic(loaded) ==
  [k \in DOMAIN loaded |-> Corrected(loaded[k])]
    \o (IF HasId(loaded, 0) THEN <<>> ELSE <<Object(0, EMPTY)>>)
    \o (IF HasId(loaded, 1) THEN <<>> ELSE <<Object(1, PLAYER)>>)

\* Where in the folder the pictures are that none of the objects has.
Missing(objs) == {i \in DOMAIN Folder : \A k \in DOMAIN objs : Picture(objs[k].kind) # Folder[i]}

\* One object for each of these, from an id on.
NewObjects(missing, first) ==
  [n \in 1..Cardinality(missing) |-> Object(first + n - 1, Folder[Nth(missing, n)])]

\* ... wrong: max_id++, the first new object has the greatest id of the old ones.
MergeObjectPaletteAtMaxId(loaded) ==
  Basic(loaded) \o NewObjects(Missing(Basic(loaded)), MaxId(loaded))

\* MergeObjectPalette: beside the basic objects each picture of the folder that
\* none of them has, under the next id.
MergeObjectPalette(loaded) ==
  Basic(loaded) \o NewObjects(Missing(Basic(loaded)), MaxId(loaded) + 1)

\* ExpandMapToEditorSize
Expanded(d, blank) == [c \in Cells |-> IF c \in DOMAIN d THEN d[c] ELSE blank]

Blank == [c \in Cells |-> 0]

\* The ids 0 to 3 are what the game, and the editor's next run, take them for.
Standard(objs) ==
  /\ KindOf(objs, 0) = EMPTY /\ KindOf(objs, 1) = PLAYER
  /\ KindOf(objs, 2) = DOOR  /\ KindOf(objs, 3) = END

\* What is no plain tile has the id it is made with or, after a save, a lower one.
NoneAbove(objs) ==
  \A k \in DOMAIN objs : /\ objs[k].kind = EMPTY  => objs[k].id = 0
                         /\ objs[k].kind = PLAYER => objs[k].id <= 1
                         /\ objs[k].kind = DOOR   => objs[k].id <= 2
                         /\ objs[k].kind = END    => objs[k].id <= 3

KindsOnce(objs) == \A i, j \in DOMAIN objs : objs[i].kind = objs[j].kind => i = j

\* The files that this editor writes: proved of each one it saves.
AsSaved(f) ==
  /\ f.objects \in Seq([id : Nat, kind : Kinds \ {UNKNOWN}]) /\ NoneAbove(f.objects)
  /\ KindsOnce(f.objects)
  /\ \A k \in DOMAIN f.objects : f.objects[k].id = k - 1
  /\ \E r \in 1..GridRows, c \in 1..GridCols :
       f.data \in [(0..(r - 1)) \X (0..(c - 1)) -> 0..(Len(f.objects) - 1)]
  /\ KindOf(f.objects, 2) = DOOR /\ KindOf(f.objects, 3) = END => Standard(f.objects)

ASSUME FirstFilesAssumption == \A f \in FirstFiles : f # NoFile /\ AsSaved(f)

EditorInit ==
  /\ file \in {NoFile} \cup FirstFiles
  /\ objects = <<>>
  /\ data = Blank
  /\ currentTile = 0
  /\ chosen = EMPTY
  /\ meant = [c \in Cells |-> EMPTY]
  /\ meant_saved = IF file = NoFile THEN <<>>
                   ELSE [c \in DOMAIN file.data |-> KindOf(file.objects, file.data[c])]
  /\ paints = 0
  /\ window = "closed"

\* What SaveLevelConfig writes, if fopen opens the file for it.
Write(objs, d, m) ==
  \/ file' = SaveLevelConfig(objs, d) /\ meant_saved' = Cropped(d, m)
  \/ UNCHANGED <<file, meant_saved>>

\* main up to the window, for a file that is not there: a default level is
\* built and saved at once.
OpenNew ==
  /\ window = "closed"
  /\ file = NoFile
  /\ objects' = NewPalette
  /\ data' = Blank
  /\ meant' = [c \in Cells |-> EMPTY]
  /\ Write(NewPalette, Blank, meant')
  /\ currentTile' = 0 /\ chosen' = EMPTY
  /\ window' = "open"
  /\ UNCHANGED paints

\* ... for one that is there.  The merge leaves the objects as loaded when malloc
\* fails in it.  Ids not below the number of objects are reset.
OpenExisting ==
  /\ window = "closed"
  /\ file # NoFile
  /\ objects' \in {MergeObjectPalette(file.objects), file.objects}
  /\ data' = LET d == Expanded(file.data, 0)
             IN  [c \in Cells |-> IF d[c] >= Len(objects') THEN 0 ELSE d[c]]
  /\ meant' = Expanded(meant_saved, EMPTY)
  /\ currentTile' = objects'[1].id /\ chosen' = objects'[1].kind
  /\ window' = "open"
  /\ UNCHANGED <<file, meant_saved, paints>>

-----------------------------------------------------------------------------
(* The frames *)

\* A click on a row of the palette.
Pick ==
  /\ window = "open"
  /\ \E k \in DOMAIN objects : currentTile' = objects[k].id /\ chosen' = objects[k].kind
  /\ UNCHANGED <<file, objects, data, meant, meant_saved, paints, window>>

\* A click on a cell of the grid.
Paint ==
  /\ window = "open"
  /\ paints < MaxPaints
  /\ \E c \in Cells : data' = [data EXCEPT ![c] = currentTile] /\ meant' = [meant EXCEPT ![c] = chosen]
  /\ paints' = paints + 1
  /\ UNCHANGED <<file, objects, currentTile, chosen, meant_saved, window>>

\* Ctrl+S
Save ==
  /\ window = "open"
  /\ Write(objects, data, meant)
  /\ UNCHANGED <<objects, data, currentTile, chosen, meant, paints, window>>

\* The window is closed; what is not saved is lost.
CloseWindow ==
  /\ window = "open"
  /\ window' = "closed"
  /\ objects' = <<>> /\ data' = Blank
  /\ currentTile' = 0 /\ chosen' = EMPTY
  /\ meant' = [c \in Cells |-> EMPTY]
  /\ UNCHANGED <<file, meant_saved, paints>>

EditorNext == OpenNew \/ OpenExisting \/ Pick \/ Paint \/ Save \/ CloseWindow

EditorSpec == EditorInit /\ [][EditorNext]_editorVars

-----------------------------------------------------------------------------
(* What the game makes of a file: get_map and check_collision_pl *)

\* The id 0 is nothing, an entity is taken out of the layout, and of what is
\* left the id 3 ends the level; the rest is solid and looks like its picture.
GameMeaning(f, c) ==
  LET id   == f.data[c]
      kind == KindOf(f.objects, id)
  IN  CASE id = 0                                     -> EMPTY
        [] id # 0 /\ kind \in {PLAYER, DOOR}          -> kind
        [] id = 3 /\ kind \notin {PLAYER, DOOR}       -> END
        [] id \notin {0, 3} /\ kind \notin {PLAYER, DOOR} -> Picture(kind)

-----------------------------------------------------------------------------
(* Properties *)

\* An object of a saved level is where its id says: init_texture_manager takes
\* objects[id] for the object with that id.  And the layout uses no other ids.
SavedDense ==
  file # NoFile => /\ \A k \in DOMAIN file.objects : file.objects[k].id = k - 1
                   /\ \A c \in DOMAIN file.data : file.data[c] < Len(file.objects)

\* Nothing that is drawn is cut off, and what is saved names the same objects.
SaveKeepsDrawing ==
  [][file' # file =>
       LET corner == Corner(data)
       IN  \A c \in Drawn(data) :
             LET at == <<c[1] - corner[1], c[2] - corner[2]>>
             IN  /\ at \in DOMAIN file'.data
                 /\ KindOf(file'.objects, file'.data[at]) = KindOf(objects, data[c])]_editorVars

\* A level that uses all of empty, player, door and end is played as it was
\* meant, however often it was saved, reopened and changed.
StandardPlaysAsMeant ==
  file # NoFile /\ Standard(file.objects) => \A c \in DOMAIN file.data : GameMeaning(file, c) = meant_saved[c]

\* While the palette has the standard ids, each cell is what the user picked
\* for it, in this run of the editor or an earlier one.
StandardShowsMeant ==
  window = "open" /\ Standard(objects) => \A c \in Cells : KindOf(objects, data[c]) = meant[c]

\* SaveLevelConfig's tables have MAX_OBJECTS places, and id_map is read without a test.
IdsFit == \A k \in DOMAIN objects : objects[k].id < MAX_OBJECTS

\* map_editor.c, "0: empty", "3: level end": a saved level is played as meant.
PlaysAsMeant == file # NoFile => \A c \in DOMAIN file.data : GameMeaning(file, c) = meant_saved[c]
=============================================================================
