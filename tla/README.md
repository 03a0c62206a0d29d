# Trigger: a TLA+ verification development

Trigger is a 2D game engine in C with a RISC-V emulator (TinyEMU) behind an
in-game console. What the player types in the console goes to a Linux guest;
programs of the guest publish MQTT messages; the engine receives them in a
callback and opens doors of the level being played. This directory holds TLA+
modules translated from the engine's sources, the TLC runs that check them on
small instances, and proofs, checked by TLAPS, that the most important of the
properties hold for every value of the constants.

Paths below are those of the repository (`src/main.c` is the engine's `main`).

## 1. Inventory

| Component | State it keeps | Operations | Talks to | What is hard | What makes it correct |
|---|---|---|---|---|---|
| Main loop and menus: `main.c`, `engine/engine_context.c`, `menu.c` | `game_state`, `temu_run`, `current_map`, `level_select_active`, `selected_level_path` | one frame: `engine_update`, `engine_draw`, the menus; `engine_shutdown` | every other part; `game_state` is written by the MQTT callbacks too | stores of two threads interleave; several keys in one frame; a load that fails half way | the world is only computed with its own map; an exit request ends the program; who has the keyboard is on the screen |
| Entity manager: `engine/engine.c` | `entities`, `count`, `capacity`, `player_idx` | `create_entity_manager`, `create_entity`, `destroy_entity`, traversals | filled by `get_map` in the main thread, searched by `msgarrvd` in the client's | no lock; growth frees the array being read; allocations fail | stores stay inside the array; a search finds what was there; indices keep their meaning |
| Doors: `door.c` | `is_open`, position, id | `update_door`, `find_door_by_id` | MQTT callback (opens), player (pushed) | ids restart with each level; messages arrive at any time | the numbers players are told name the doors; a message acts on the level being played |
| Console: `engine/console.c`, `engine_update_console` | `command`, `cmd_pos`, `last_command`, `output_buf`, `output_len`; `just_opened`, `start_tick_count`, `waitParameter` | `update_input`, `clear_str`, `draw_console` | main loop, pipes to the emulator | closing at any moment; two lengths for one text; a script mixed with typing | buffers are not overrun; what is typed is what is sent; typing is possible |
| Emulator and pipes: `engine_start_temu`, `engine_shutdown` | `temu_pid`, `stdin_pipe`, `stdout_pipe`, the descriptor table | start, write a line, read a chunk, terminate | console, TinyEMU, the MQTT client's sockets | blocking writes on both sides; descriptors closed twice; failures ignored | the game waits for ever only for an emulator that waits for the game; nothing of either is left |
| MQTT link: callbacks of `engine_context.c` | the client handle and its connection | `onConnectSuccess`, `onConnectFailure`, `connlost`, `msgarrvd` | paho's threads, the broker, the guest programs | QoS 0, reconnection, a client id shared with `serv.c` | a door message of a connected guest reaches the level, once and in order |
| Level loading: `config/config.c`, `map.c` | the level's objects and layout | `load_level_config`, `get_map`, `free_level_config` | menus, entity manager, texture manager | absent fields leave memory uninitialised; a dozen error paths; nothing is freed on a reload | a failed load frees what it took and no more; a level in play holds what its release frees |
| Texture manager: `engine/texture_manager.c` | textures by object id | `init_texture_manager`, `free_texture_manager` | level loading | ids index arrays | each id has its texture, each texture is given back |
| Player: `player.c` | position, speed, `on_ground` | `update_player`, `check_collision_pl` | layout, doors, `game_state` | pushes by doors, the end tile in the middle of a frame | the player stays out of solid tiles |
| Map editor: `map_editor.c` | palette, layout | build or merge the palette, expand, save | the JSON levels | ids are renumbered on save | a saved map means what was drawn |
| Guest programs: `net-prog/src` | none | publish or print a message | broker | run beside each other | a message is sent for what the player did |
| Third party: `config/cJSON.c`, `net-prog/paho.mqtt.c`, `net-prog/openssl-1.1.1w`, `raylib`, `tinyemu-2019-12-21` | | | | | vendored, used as documented |

### Threads and what they share

There are two threads that matter. The *main thread* runs frames. The *MQTT
client's thread* calls `onConnectSuccess`, `onConnectFailure`, `connlost` and
`msgarrvd`, always while it holds paho's mutex, so callbacks exclude each other
and `MQTTAsync_destroy`, which takes that mutex, waits for one to return.
Nothing else is locked: the two threads share `game_state`,
`engine->entity_manager`, the manager's fields and each door's `is_open`.

## 2. Modules

| Module | Models | Proofs |
|---|---|---|
| `GameLoop` | main thread and callbacks around `game_state`, the map and the manager | `GameLoopProofs` |
| `Console` | command line, tutorial script and output buffer | `ConsoleProofs` |
| `EntityManager` | `create_entity` statement by statement against `find_door_by_id` | `EntityManagerProofs` |
| `EntityList` | what the entity manager promises: a list extended only at its end | implemented by `EntityManager` |
| `ClearStr` | `clear_str` character by character, under `engine_update_console`'s reads | `ClearStrProofs` |
| `Emulator` | the descriptor table of the game, the two pipes, the emulator's process and the MQTT client's socket | `EmulatorProofs` |
| `DoorLink` | the door topic: guest programs, broker, the game's MQTT callbacks | `DoorLinkProofs` |
| `DoorMessages` | what the door topic promises: messages act at most once, in the order of their publication | implemented by `DoorLink` |
| `Player` | `player.c`, `door.c` and `update_all_entities`, frame by frame | `PlayerProofs` |
| `Level` | memory and textures of the levels: `config.c`, `texture_manager.c`, their use in `get_map` and `engine_shutdown` | `LevelProofs` |
| `MapEditor` | the map editor's palette, layout and file over several sittings at it | `LevelProofs` |
| `MCGameLoop`, `MCConsole`, `MCDoorLink`, `MCPlayer`, `MCLevel`, `MCMapEditor` | values of the constants for TLC | |

### `GameLoop`

`pc` is the place of the main thread: `LoopTest` is the `while` of `main`,
the `Update*` actions are `engine_update`, the `Draw*` actions `engine_draw` and
the menus it calls, `Shutdown` and `FreeManager` are `engine_shutdown`. What a
frame does to no shared variable (drawing, the camera, the background) is left
out. Every load and every store of `game_state` after which the other thread
can change it is a step of its own: the pause key is `UpdateKeys` (the test)
and then `StorePause` (the store), so that a callback's `GAME_EXIT` can fall
between them. Several keys can be pressed in one frame, as in the code. The end
tile, `player.c`'s store of `GAME_STOP` in the middle of the frame, is part of
`UpdateEntities`.

An entity manager is an allocation number, 0 the one `engine_init` makes, or
`Null`: `create_entity_manager` may fail, in `engine_init` as in a load, and
neither tests it. `level_of` says which level's entities an allocation holds and
`freed` which were given back. `LoadFailed`, `NewManager`, `CreateEntities` and
`EnterLevel` are the two branches of `draw_start_menu` after a level was clicked,
with `get_map` in the middle; callbacks may come between any two of them.
`CreateEntities` makes the players and doors as far as their allocations succeed.
`player_idx` is what `entities[player_idx]` is afterwards: the player, nothing yet
(`unset`: no player was allocated, the field is as `malloc` left it), or whatever
stands, or will stand, at the place of a player that `create_entity` then failed to
make (`other`). A door is `missing` when `create_entity` failed, `hollow` when only
`create_door` did: its entity is there and its data is NULL. `starved`, a record the
code does not keep, is the set of the managers an allocation failed for.
`CreateInNull` is `get_map` without a manager.

The client's thread is the actions under `Mqtt`. `msgarrvd` takes three steps:
`MessageArrived` has read the message and found a manager, `ReadManager` reads
`engine->entity_manager` again, as `find_door_by_id` does, when a load may have
made it NULL, and `SetDoor` ends the search, unless a hollow door ends the process
(`MeetsHollow`), and stores `is_open`. `cb_at` is the place in it. `client` is the connection; it makes `ConnectSuccess`
possible again after a loss because `connlost` connects again.

`crashed`, of `pc` or of `cb_at`, is the process after one of its threads followed
a NULL or an uninitialised pointer: no action follows but `Ended`. Two further ways
to crash are other modules': a search that a growing list overlaps (`EntityManager`)
and a level file out of order (`Level`).

### `Console`

`command` is the command line as cells, with the zeros in it, because the zeros
are what goes wrong; `cmd_pos` is `console->cmd_pos`. A key is stored as the lowest
byte of its code point (`console.c:23`, an `int` into a `char`), so that one like
U+0400 leaves a zero in any cell: `AcceptKey` takes the zero byte, too. `typed`,
which the code does not keep, is the bytes of the keys since the last Enter without
those taken back. Of `output_buf` and
`last_command` the model keeps the lengths only. `output` is `strlen` of the
buffer and `output_len` the counter the code keeps beside it: four places in
the code change one and not the other. One frame is
`AcceptKey`, `RunScript` or `NoKey`, then one of the function keys or none, then
a read (`ReadOutput`, `ReadNothing` or `ReadEnd`) and the drawing. `start_tick_count` is the line of the
tutorial's script, `waitParameter` the frames between two lines, of which
`WaitLimit` stands for the code's constant. `Open` is the key P, `ChangeLevel`
is the other level the console may be opened on. When Q was pressed in the same
frame, or the level ended in it, a menu is drawn over the open console (`behind`,
`DrawMenu`), and from there another level may be loaded under it. `RunScript` covers the script
of the second level too.

### `ClearStr`

A character stands for its class, the classes being those that `clear_str`
tells apart: text, newline, a control character, escape, `[`, `m`, `~`, `#`. One
iteration of the `while` is one step, on the very cells of `buffer`, whose rest
is what the stack held before. The emulator's output, `stream`, is read in
chunks cut anywhere: that is what a pipe does. `Overrun` is the read behind
the buffer which a control character at the end of a chunk leads to; the model
says nothing of what follows. `AppendCleaned` has both branches of
`engine_context.c:221`: a chunk that does not fit is dropped with all that is shown.
`Wipe` is what happens to `output_buf` between two reads: Enter and the script
empty it and `draw_console` cuts its beginning off, while `output_len` stays. `begun`,
a record the code does not keep, is where in the stream the empty buffer was.

### `EntityManager` and `EntityList`

`create_entity` is one action per statement that another thread can see:
`Create` doubles `capacity`, `Realloc` moves the array (or fails), `Attach`
stores the new pointer, `MallocEntity` may fail, and line 48,
`manager->entities[manager->count++] = entity`, is two stores: `Publish` the
count, `Store` the slot. That order is the one the unoptimised build of the
Makefile makes; in the other order the search could not meet an unwritten slot.
`find_door_by_id` is `Search`, and for each index `TestIndex`, `LoadArray`,
`DerefSlot`. Arrays are numbered, so that a pointer loaded before a `realloc`
is seen to be stale. `hollow` is the entities whose data is NULL, since `get_map`
creates a door also when `create_door` returned NULL; a search that comes to one
follows it (`door.c:94`). `overflow` and `wild` are a store outside the array and a
use of what is not an entity, after which nothing is claimed.

`EntityList` says what the manager promises its users, a list that only grows
at its end. `List` in `EntityManager` is the refinement mapping: the slots up to
`count`, without the one that is counted and not yet stored.

### `MapEditor`

An object is an id and a kind. `SaveLevelConfig` crops the layout, numbers the
ids in use through from 0 (`NewId`, and `Nth` for `old_ids_sorted`) and writes the
objects with their new ids; `MergeObjectPalette` builds the palette when a level is
opened again: the `Basic` objects, then one for each picture `Missing`. The
function's tables have `MAX_OBJECTS` places, 256, which the folder (of 81
pictures in the repository) is assumed to leave four of; `IdsFit` says that they are enough. A frame's
click is `Pick` (the palette) or `Paint` (the grid), Ctrl+S is `Save`, and
closing the window `CloseWindow`, after which the editor can be started again on the
file. `fopen` and the palette's `malloc` may fail. `meant` is not in the code:
it records the kind the user had picked for each cell, and `meant_saved` what it
was at the last save, so that properties can speak of what was painted.
`GameMeaning` is what `get_map` and `check_collision_pl` make of a cell of the
file.

### `Emulator`

`fds` is the game's descriptor table: what each number refers to. `pipe` and
`socket` give the lowest free numbers and `close` takes a number, whatever it
refers to by then; that is why the table is modelled and not only the pipes.
`MakeStdinPipe` to `ParentClosesStdout` are `engine_start_temu`, with every
failure the code ignores (`PipeFails`, `ForkFails`); a frame is `BeginFrame`, up
to `FrameWrites` times `Write`, and `Read`. What a write carries is left out and
so is the console's own state, which is `Console`'s: a frame chooses how much it
writes and whether it closes the console. `KillAndWait`, four times `Close` and
`Disconnect` are `engine_shutdown`. The client's thread (`MqttConnects`,
`MqttLosesConnection`) takes and gives back its number at any time. TinyEMU
(`temu.c`) reads when it runs, and stops where it is (`blocked`) when it prints
into a full pipe. When a pipe could not be made, the number is the 0 of `main`'s
`memset`, so the frame writes to and reads from the terminal (`ReadTerminal`).
`foreign` is not in the code: it records what a close of `engine_shutdown` hit
that was not a pipe's end.

### `DoorLink` and `DoorMessages`

A run of `client.c` connects, publishes `door state` and disconnects; several
run at once, all as client `SimplePub`, like `client-copy.c` (`Watcher`), which
waits for the tutorial's file. The broker is external: it keeps one connection
for a client id and closes the one before with what it has not read of it
(`TakeOver`), reads each connection in its order, relays a QoS 0 message to the
subscriber there is at that moment, and drops a client that never answers. The
game's side is the callbacks: `GameConnects` and `Subscribe` are
`onConnectSuccess` and the broker's handling of it, `GameRefused` is
`onConnectFailure`, `LoseConnection` and `Reconnect` are `connlost`, and
`MessageArrived` is `msgarrvd`. A payload has no final zero and `sscanf` is not
checked, so what is read of it is a set of readings (`Readings`): a garbled
payload may name any door.

`DoorMessages` counts publications and says that the message acted on next was
published after the last. `DoorLink` implements it with `sent` and `last`
as they are: `last` is the number of the message `msgarrvd` handled last. That needs that two runs
are never both connected, which is what the shared client id does; where the
broker lets the next run connect beside the last (`AcceptBeside`), it fails.

### `Player`

Lengths are twentieths of a pixel, so that gravity (0.2) and a door's step
(0.25) are whole numbers. Coordinates are floats in the code; all sums but a
jump's are exact to what a test can see, and a jump's, which starts at -6 and
adds 0.2 in single precision, stays a little below the decimal value: `jumping`
remembers that it is one, and `Gravity` and `rising` use it at the two values
where it decides. `UpdatePlayer` is `update_player` with both calls of
`check_collision_pl`; the latter's scan is row by row, what it does is decided by
the first tile it meets (`First`, `Blocks`) and by whether an end tile is among
them. `UpdateDoor` is `update_door`, and `Update` one entity of
`update_all_entities` in the order in which `get_map` made them. `astray` is not in
the code: it is true from a door's push, from a start inside a tile, or from leaving the map
at its top or left, until the player stands free again; no property says more
of a player whom a tile already covers. `Cut` is C's division, which cuts towards
zero: beside the map's left edge it is not TLA+'s `\div`.
The animation's frame and the player's `state` are left out; nothing reads them
but the drawing.

### `Level`

`heap` is what is allocated, with the load that took it. The steps of
`load_level_config` are the `pc` values `open` to `fill`; `Malloc` and `MallocRow`
are its allocations and `Fails` the error of any step, with `FreedOnError` the
calls of `free` written there. `LoadPicture` is one turn of
`init_texture_manager`'s loop; `card` the textures the graphics card holds. A file
whose map is missing or short, or whose ids are not below the number of its
objects, takes the code where it has no memory: the `wild` end, after which
nothing is claimed. Contents of cells, names and strings are left out.

Each module also defines, next to what they alter, wrong forms of some of its
definitions (`LoadFailedStaysRunning`, `FullOffByOne`, ...). They are not part
of any specification: each is the plausible bug by which one property was seen
to fail when it takes the place of the right definition.

## 3. Runs

Run with `tlc -config <cfg> <module>`; each of them ends within about a minute.

| Configuration | Result | Properties | What it shows |
|---|---|---|---|
| `GameLoop` | holds | `WorldHasMap`, `NoUseAfterFree`, `CrashHasCause`, `ExitUndoneOnlyInFrame`, `ExitObeyed` | whenever callbacks come and whatever allocations fail, the world is computed with its own map; no search holds freed memory; what a crash needs; which stores can undo an exit request; one the loop test sees ends the program, unless a callback under way crashes |
| `Console` | holds | `OutputFits`, `CommandTerminated`, `LineIsTyped`, `ScriptEnds` | neither buffer is overrun although lengths drift; the line is what was typed, but for its first cell; the tutorial's script ends while the console stays open and the level the same |
| `ConsoleSent` | violated | `SentIsTyped` | finding 1 |
| `ClearStr` | holds | `InPlace`, `CleansOrderlyText`, `OverrunNeedsControl`, `CutBetweenSequences` | `clear_str` is right on text without two control characters in a row, a cut of the stream does no harm between two sequences, a chunk that does not fit empties the buffer, and the buffer is left only behind a last control character |
| `EntityManager` | holds | `OverflowNeedsFailure`, `WildHasCause`, `SearchComplete`, `ImplementsList` | what memory errors need; searches are complete; the list only grows at its end |
| `Emulator` | holds | `NothingLeft`, `StrayCloseIsSocket`, `PlaysWithOwnEnds`, `WriteReturns`, `OpenConsoleDrains`, `ExitClosesConsole` | whatever fails at the start, nothing is left at the end; the second close of a number can hit the client's socket and nothing else; game and emulator wait for ever only for each other; an emulator that has exited closes its console |
| `DoorLink` | holds | `DoorsAsTold`, `ImplementsMessages`, `CommandArrives` | commands act at most once and in order, doors are as the last command said, and a command whose connection lasts arrives |
| `DoorLinkFile` | violated | `FileOpensDoor` | finding 2 |
| `Player` | holds | `WallsHold`, `JumpNeedsGround`, `EndNoticed`, `WallsOnlyStop`, `OnlyDoorsLeadAstray` | a player whom nothing has led astray enters no solid tile, is only ever shortened in its movement, jumps only off something, and ends the level on the end tile; where tiles frame the map, only a door leads it astray |
| `Level` | holds | `ErrorsFreeOwned`, `FailedLoadLeaves`, `PlayHoldsLevel`, `OwnPictures`, `LastLevelReleased` | what each error path frees and forgets, which pictures a level shows, what is given back at the end |
| `MapEditor` | holds | `SavedDense`, `StandardPlaysAsMeant`, `StandardShowsMeant`, `SaveKeepsDrawing` | a level with all of the ids 0 to 3 survives any number of sittings; a saved level's ids are dense; nothing drawn is lost |
| `MapEditorPlays` | violated | `PlaysAsMeant` | finding 3 |

Where the proofs show `TypeOK` for all values of the constants, the runs do not
check it again.

The modules to run are `MCGameLoop`, `MCConsole`, `MCDoorLink`, `MCPlayer`,
`MCLevel` and `MCMapEditor` for those components, and `ClearStr`, `EntityManager`
and `Emulator` themselves for theirs.

### Bounds, and why they are enough

* `GameLoop`: three levels, one of each sort the code tells apart (good,
  unreadable, without a player), and `MaxLoads = 2`, loads that got as far as a
  manager (others are not bounded). A second load is the first that replaces a
  manager that has entities; a third meets no state the second does not. The good
  level has one door, which can be there, hollow or missing, and messages name it or a
  door that no level has; with two doors the run takes more than five minutes.
* `Console`: buffers of a few cells (`CmdSize = 4`, `BufSize = 7`, chunks of up
  to 3), which two chunks overflow; the proofs cover every size. Two letters,
  one of which is the word `exit`, and the zero byte of a truncated code point.
* `ClearStr`: streams of up to 4 characters of 8 classes, in every cut into
  reads, with buffers for 4. No step looks at more than two characters, and four
  hold a whole escape sequence and one character beside it. `OutSize = 6` is the
  least that takes any chunk when empty, as the code's 8192 does with its 1023;
  `OutStarts = {0, 3}` lets `output_len` begin at zero and with what was wiped
  before, so that chunks fit, fit no more, and fit again after the buffer was emptied.
* `EntityManager`: 4 creations from a capacity of 1, hence two growths, each of
  which may fail.
* `Emulator`: 8 descriptor numbers, the three standard streams, four pipe ends
  and one more for the socket; pipes that hold 3 writes, frames of up to 4 writes
  and reads of up to 2, so that a frame can fill its pipe and a read can leave
  something. The proofs cover every size.
* `DoorLink`: three runs, one opening, one closing and one garbled, which is as
  many as overtaking and a takeover of a takeover need; two doors, and a door
  the level does not have; one loss of the game's connection, after which
  everything can happen again. `DoorLinkFile` needs one run and no loss.
* `Player`: two layouts. In `Ledges` the player can reach ledges, a wall, the
  end tile and the level's edge; in `Lift` a door opens, closes again half way, and
  lifts the player between platforms. Fewer cells would leave no room for a whole
  jump, more add no tile the player does not meet here from each side. TLC
  explores all key sequences.
* `Level`: three loads, so that a level follows one that failed and one that was
  played, and seven files: one as the editor saves it, one with a picture for the
  empty cell, one whose picture is missing, one out of order, one with an id
  beyond its objects, one with short rows and one without a map.
* `MapEditor`: a grid of 2 by 3, two cells painted in all, over any number of
  sittings and saves, beginning with no file or with one that uses empty,
  player, door, end and a tile. The folder has four pictures, among them those
  of the door and the end. (With three cells painted the same properties hold on
  1.9 million states.) The editor's grid of 500 by 500 differs only in size.

### Fairness

* `GameLoop!FairSpec`. `WF(Main)`: the operating system schedules the main
  thread. `WF(Callback)`: a callback that has begun returns, or crashes, for it
  only walks an array. `SF(Shutdown)`: `MQTTAsync_destroy` needs the client's mutex, which is
  free again and again, since paho's threads hold it while they handle an event
  and release it between two (`MQTTAsyncUtils.c`, `MQTTAsync_receiveThread`); a
  thread that waits for it gets it in the end. Weak fairness would let messages
  take the mutex for ever. Nothing is assumed about connections or messages: the
  broker may say nothing, or something all the time.
* `Console!FairSpec`. `WF(Frame)`: an open console is computed frame after
  frame, also behind a menu. The user is not assumed to press anything.
* `Emulator!Fairness`. The main thread's steps are weakly fair, each while it is
  not blocked: a thread in `write` on a full pipe is not enabled. TinyEMU is
  fair in reading, which is an assumption about the guest: `temu`'s loop selects the
  console only while the guest's virtio console takes data (`temu.c:537-554`). A guest
  that takes none is a third way for a write to block for ever, beside the two
  `WriteReturns` names, and the properties say nothing of it. TinyEMU is fair, too, in
  going on with a write that has room. Nothing makes it print or exit, and nothing makes the player
  open, close or quit.
* `DoorLink!Fairness`. A program that has connected publishes and leaves, the
  broker handles what it has read, paho's threads call the callbacks, and a
  watcher with its file goes on. No fairness makes anyone type a command, makes
  the broker accept a run, or breaks a connection: `CommandArrives` starts from a
  run that is connected.

## 4. Proofs

All theorems are checked by `tlapm`, for every value of the constants within
the named assumptions. The assumptions say only what makes the constants
meaningful: `LevelAssumption` (the sorts of level are sets of levels, and NULL is
none), `ConsoleAssumption` (both buffers have at least two cells, the word `exit`
fits the line), `ClearStrAssumption` (the buffer has room for at least one
character and `output_buf` for a whole read, and the classes of control character and escape have no member with
another name), `LayoutAssumption` (a level's map is a rectangle of ids with one
player in it, without whom the program dies before a frame is computed),
`ManagerAssumption` (the initial capacity, which growth doubles, is positive),
`EmulatorAssumption` (there are numbers beyond the standard streams', and pipes
and reads take something), `LinkAssumption` (a command is a door and a state; no
run has a name reserved for nobody or the watcher), and in `Level`
`LevelAssumption` (what a file gives has its type: objects with an id and a
picture, tiles, a number of rows and a kind of map; and there is at least one
texture slot). In `MapEditor`, `EditorAssumption` says that the grid has a cell, that the
kinds of object are distinct, that a folder has each picture once and that it has at least four
fewer than `MAX_OBJECTS`; `FirstFilesAssumption` that a level there is at first is one as this
editor saves it (`AsSaved`), and `SavesItsOwn` that each file it saves is such a one.

* `GameLoopProofs`: `TypeCorrect`, `WorldSafe`, `HeapSafe`, `CrashExplained`,
  `ExitKept`. `WorldHasMap` is not inductive: that the world has its map when it
  is drawn follows from what `game_state` was when the frame began, which a
  callback can change only to `GAME_EXIT` or to the menu's state. `WorldInv`
  therefore says it of `game_state`, not of the place in the frame (outside a
  load, running or paused implies that map and entities belong together), and
  carries a clicked level through the load. `HeapInv` says that memory is only
  freed when the client has been destroyed, which excludes a callback. `CauseInv` is
  what `CrashHasCause` needs beside them: a manager without its player, or with a hollow
  door, is `starved` or its level has no player, whichever load made it.
* `ConsoleProofs`: `TypeCorrect`, `OutputSafe`, `LineSafe`, `LineKept`,
  `ScriptFirst`. `OutputFits` is inductive once it speaks of both lengths: the
  text is never longer than the counter says, and the counter is checked before
  each `strcat`. `LineInv` joins what is behind `cmd_pos` (zeros) and before it (the
  bytes of the keys, but in the first cell): backspace needs both. `LineKept` therefore
  says of every cell but the first that it holds its key, whatever F4, the script and
  Backspace did; a zero there is a key's own.
* `ClearStrProofs`: `TypeCorrect`, `CleansInPlace`, `OverrunExplained`. `dst <= src`
  and the ranges of both cursors hold together: each step moves `src` at least as
  far as `dst`. Therefore what `src` has yet to pass is still the chunk's text, cut
  before its first mark (`TextInv`, `CutLeaves`), and with the zero behind it only a
  step of two cells from the last character passes the end: a control character.
  `Cleans`: `CleanInv` says that the first `dst` cells are what is kept of the
  characters that `src` has passed, and that `in_escape` is whether a sequence is open
  there; its step moves one place or two, by `PassNext` and `CopyNext`.
  `CutsAllowed` rests on `Filtered`: what is kept of two texts, the first
  of which leaves no sequence open, is what is kept of each (`KeptOfBoth`); with
  `Cleans` it says what each branch of `AppendCleaned` leaves. What is kept is
  defined by the places of a text (`Kept`) and counted (`CountOfBoth`), so neither
  proof needs an induction over texts.
* `EntityManagerProofs`: `TypeCorrect`, `StoreSafe`, `SearchSafe`,
  `SearchFinds`, `ListKept`. `RoomInv` says for each statement of `create_entity` how `count`,
  `capacity` and the room the array really has compare, with and without an
  earlier failure; `SlotInv` that every slot promised is written; `SearchInv` that
  a search no creation overlaps reads the array in force; `OwedInv` that an entity
  that a search owes its caller is still ahead of it. The refinement of `EntityList`
  maps `Store` into its array to an append and every other step to a stutter.

* `EmulatorProofs`: `TypeCorrect`, `EndsClean`, `StrayCloses`, `OwnEnds`. None of
  the three properties is inductive; what is: `PhaseInv` relates the step of the main
  thread to the emulator's process; `NumberInv` says that the four numbers of the
  pipes, once set, differ from one another and from the standard streams';
  `PlaceInv` that each pipe end is in the table at most at its own number; `OpenInv`
  which ends are open at each step, and `GoneInv` which no longer are;
  `ForeignInv` then carries `StrayCloseIsSocket`.
* `DoorLinkProofs`: `TypeCorrect`, `DoorsFollow`, `Refines`. `RunInv` is the
  argument: a run has a publication unread only while the broker's session is its own,
  and a new session empties the others, so at most one is unread at any time. `OrderInv`
  says that messages on their way are numbered upwards and above `last`, and that
  the unread one is above them; it is the refinement's step. `ActedInv` says that
  what was acted on has numbers up to `last`, so that the command acted on now is
  the last of its door.
* `LevelProofs`, of `Level`: `TypeCorrect`, `ErrorsOwn`, `FailuresLeave`, `PlayOwned`. `HeldInv`
  names the exact set that the load under way holds at each step (`Held`); that
  an error path frees no more than it, and what it leaves, is then a matter of
  comparing two sets. `OwnerInv` (every block belongs to a load there was) makes a
  new load start from nothing. `PicturesOwn` and `LastReleased` rest on `PictureInv`:
  `SlotsInv` says which slots the first `k - 1` objects have filled and with what, and that
  the card holds nothing else of this load (`CardInv` keeps the earlier loads'
  textures apart), `LeftInv` and `GoneInv` what the two releases leave.
* `LevelProofs`, of `MapEditor`: `SavesItsOwn`, `SavedIsDense`, `TablesFit`, `DrawingIsKept`,
  `StandardIsShown`, `StandardIsPlayed`, `EditedIsDense`. `EditorInv` relates file and palette
  to what was meant. What a cell means survives a save because `NewId` and `Nth` are
  inverse to each other (`Sorted`), both counts of smaller members. That the ids 0 to 3 survive
  needs `NoneAbove`: a new id is never greater than the old one, so that the level's end can
  only come to have the id 3 when all of 0 to 3 are in use (`SavedMarks`); the invariant
  therefore speaks of files whose ids 2 and 3 are door and end, and those of 0 and 1
  follow. An opened palette's ids are distinct as long as it has those (`MergedIs`), which
  makes a click mean what it picks. `TablesFit` counts: no palette has a kind twice
  (`KindsOnce`), so it has no more objects than there are kinds, and no id is past their
  number (`IdsBelow`), though ids may be given twice. `EditedIsDense` joins the two
  modules: what the editor leaves is what `PicturesOwn` asks of a level.
* `PlayerProofs`: `TypeCorrect`, `WallsAreHeld`, `JumpsFromGround`, `EndIsNoticed`,
  `WallsStopOnly`, `OnlyDoors`, for the maps of any levels. The cells
  `check_collision_pl` looks at are those the player overlaps (`HitFacts`), and from a free
  place one movement meets the tiles of one column or one row only, since it is
  shorter than a tile: leaving the first tile hit leaves all of them (`SidewaysFree`,
  `VerticalFree`). That is right as long as the velocity's sign and the direction of the
  movement agree, and at the top of a jump they do not: the velocity still points up
  while the player, with the pixel added to it, moves down. `JumpInv` decides it: a jump
  that nothing has stopped is at a height that is a function of its frames, measured from
  the edge of a tile (`GridInv`), and in those frames no edge of a tile is near enough to
  be met (`TopOfJump`). Hence the properties need the very speed of 6 pixels of
  `player.c:67`; with 6.2 they fail. `DoorsInv` keeps doors at
  quarters of a pixel. `WithinInv` bounds the player in a framed map, where it
  cannot get to a place from which a step leaves the map. What floats do to a jump is
  part of the model, not of these proofs (see `Player` above).

Only model-checked are the liveness properties (`ExitObeyed`, `ScriptEnds`, `WriteReturns`,
`OpenConsoleDrains`, `ExitClosesConsole`, `CommandArrives`), which need fairness and
`ENABLED`. `IdsFit` is proved but no property of a run.

Proving found one error of the model that the runs had not: `Cut` was `\div`, which
differs from C's division left of and above the map.

## 5. Findings

1. F4 empties the line and leaves `cmd_pos` (`console.c:65`): the next command is
   sent with a zero byte before it.
2. `client-copy.c` leaves its loop as soon as it has found the file
   (`client-copy.c:39`), before the code that would publish `0 1`: the tutorial's
   task opens no door.
3. The editor renumbers ids on save (`map_editor.c:298`), while the game gives 0
   and 3 a meaning of their own: a level without a door makes another object
   the end of the level.

The wording each of them contradicts is quoted in `PROJECT.json`. Beside them,
the passing properties name exactly how far the code is right, and so where it is
not:

* a failed `realloc` leaves `capacity` doubled, so the next creation may store
  outside the array (`OverflowNeedsFailure`, `engine.c:31`); a search that a level
  load overlaps may read an unwritten slot or a freed array, and any later one that
  comes to a door that could not be allocated follows NULL (`WildHasCause`,
  `door.c:94`, `map.c:40`);
* an allocation that fails in a load is not noticed: a NULL manager or a `player_idx`
  that names no player is followed by the load itself or by the next frame
  (`CrashHasCause`, `map.c:34`, `engine_context.c:181`);
* P and Q pressed in one frame leave the console with the keyboard behind the
  pause menu, and the program dies if a level then fails to load
  (`CrashHasCause`, `engine_context.c:165`); if one loads, the tutorial's script stops
  where it was (`ScriptEnds`), and no key is taken while that level is played;
* an exit request from the MQTT callbacks is lost when a store of `game_state`
  that the frame had decided on follows it (`ExitUndoneOnlyInFrame` says which);
  `ExitObeyed` starts only where the loop test sees the request;
* a character whose code point is a multiple of 256 puts a zero into the line, and the
  rest of the line is not seen by `strcmp` and the screen (`console.c:23`);
* `clear_str` copies whatever follows a control character, and a control character
  that ends the text takes it behind the buffer (`OverrunNeedsControl`,
  `console.c:129`); a sequence that two reads share is shown in part, as each chunk is cleaned
  for itself (the precondition of `CutBetweenSequences`, `engine_context.c:218`);
* `engine_shutdown` closes two numbers a second time, and may close the MQTT
  client's socket by that (`StrayCloseIsSocket`, `engine_context.c:124` and `136`);
* game and emulator can wait for each other for ever, each with a full pipe
  (`MutualWait`, the exception of `WriteReturns`, `console.c:81`); and without an
  emulator, when `fork` failed, nobody reads what the game writes;
* a garbled payload may open any door (the precondition of `DoorsAsTold`,
  `engine_context.c:255`);
* a player whom a door has pushed may be thrown through a platform, since the sign of
  the velocity is not that of the movement (the precondition of `WallsOnlyStop`,
  `player.c:140`: a jump off a door raised a few pixels does it in the layout `Lift`);
* a refused layout or row leaks the objects, or the parsed file and the array of rows
  (`FailedLoadLeaves`, `config.c:104` and `137`); `free_texture_manager` stops
  before the greatest id and skips placeholders (`LastLevelReleased`,
  `texture_manager.c:33`); and earlier levels are never given back;
* a level that lost one of the ids 0 to 3 is shown differently when it is opened
  again, as ids 0 and 1 are taken for empty and player whatever they are
  (`map_editor.c:141`) and `++max_id` may give an id twice (the precondition of
  `StandardShowsMeant`, `map_editor.c:229`).

## 6. Plan

Done, in the order of their weight: the loop and the callbacks, the console, the
entity manager, `clear_str`, the editor; then the emulator's process and pipes, the
MQTT link, the player and the doors, the memory of the levels; then the proofs of
every safety property the runs check. What is left:

1. `scan_level_files` and the level list of the start menu.
2. The level file's way through `load_level_config` (cells, names), between
   `MapEditor`'s file and `Level`'s constants, of which `EditedIsDense` is the part about ids.

## 7. Not modelled

* Drawing, camera, sound, the layout of menus: raylib's, without effect on the
  state above.
* The contents of what the script and the user send to the emulator: the model
  keeps that something is sent. (The second level's script sends more bytes than
  its literal has, `console.c:56`; what they are is up to the executable.)
* `draw_all_entities` draws; `destroy_entity` frees a list that no one changes
  meanwhile.
* Of the pipes, what they carry; `EINTR`; the MQTT socket that a child forked after
  the connection would inherit. Of the link, messages that paho has queued
  when the connection is lost (they are lost with it) and the box topic, which is
  only printed. `serv.c` is a test program that prints what arrives: it appears
  as the loss of the game's connection that its client id brings about.
* Of a level file, fields that are missing inside an object, and strings longer
  than their arrays; `scan_level_files`, which fills the menu.
* The player's animation, and float rounding beyond what is said above.
* `cJSON`, paho, openssl, raylib and TinyEMU are vendored, and are nearly all of the
  repository's lines: the game itself is some two thousand, so the share of all
  lines that a model of the game can cover is small. Of paho the modules use how
  its threads hold its mutex around callbacks and that it ignores `SIGPIPE`; of
  TinyEMU how its console reads, prints and blocks; of raylib what a failed
  `LoadTexture` returns and when two rectangles collide.

