------------------------------ MODULE GameLoop ------------------------------
(***************************************************************************)
(* The game's main thread (main, engine_update, engine_draw, the menus,    *)
(* engine_shutdown) and the MQTT client's threads, which call the engine's *)
(* callbacks while a frame is being computed.  Both write game_state with  *)
(* no lock, so every load and every store of it that the other thread can  *)
(* fall between is a step of its own.                                      *)
(*                                                                         *)
(* Each level load replaces engine->entity_manager by a new allocation;    *)
(* the one of engine_init is number 0 and that of each load the number of  *)
(* the load.  Every malloc of a load may fail: the one of the manager, of  *)
(* the player or of a door, and the growth of the list, and none of these  *)
(* failures stops the load.                                                *)
(***************************************************************************)
EXTENDS Integers

CONSTANTS Levels,      \* the .json files scan_level_files found in maps/
          NoLevel,     \* the NULL current_map, the empty selected path
          Unreadable,  \* the levels load_level_config refuses
          Playerless,  \* the levels whose layout holds no player
          DoorCount,   \* the doors of each level, numbered 0, 1, ...
          MaxLoads     \* bound: level loads that get as far as a manager

ASSUME LevelAssumption ==
  /\ NoLevel \notin Levels
  /\ Unreadable \subseteq Levels
  /\ Playerless \subseteq Levels
  /\ DoorCount \in [Levels -> Nat]
  /\ MaxLoads \in Nat

GAME_EXIT  == -1
GAME_STOP  == 0
GAME_RUN   == 1
DRAW_PAUSE == 5

VARIABLES game_state,           \* engine->game_state
          temu_run,             \* engine->temu_run: the console has the keyboard
          current_map,          \* engine->current_map
          level_select_active,  \* menu.c: the level list is shown
          selected_level_path,  \* menu.c: the level clicked in it
          entity_manager,       \* engine->entity_manager, an allocation number or NULL
          loads,                \* the loads that came to allocate one
          level_of,             \* the level each allocation holds the entities of
          player_idx,           \* what entities[player_idx] of each allocation is
          doors,                \* the doors each allocation holds
          starved,              \* the allocations a malloc failed for while they were filled
          freed,                \* the allocations given back to the heap
          pc,                   \* where the main thread is
          client,               \* the MQTT client handle and its connection
          cb_at,                \* where msgarrvd is
          cb_manager,           \* the allocation find_door_by_id is reading
          cb_door, cb_state     \* door_n and state in msgarrvd

entityVars == <<level_of, player_idx, starved>>
mapVars  == <<current_map, entity_manager, loads, entityVars, freed>>
menuVars == <<level_select_active, selected_level_path>>
msgVars  == <<cb_at, cb_manager, cb_door, cb_state>>
cbVars   == <<client, msgVars>>
vars == <<game_state, temu_run, mapVars, menuVars, doors, pc, cbVars>>

Managers == 0..MaxLoads
Null == -1
DoorIds == {0} \cup UNION {0..DoorCount[l] : l \in Levels}
DoorsOf(l) == {d \in DoorIds : d < DoorCount[l]}

\* A door entity is missing when create_entity failed, and hollow, with NULL
\* as its data, when only create_door failed.
DoorStates == {"missing", "hollow", "closed", "open"}

\* player_idx is assigned when get_map meets a player, just before the player
\* becomes an entity: it is "unset" before, and "other" when create_entity then
\* fails, naming no entity or one created later.
PlayerStates == {"unset", "player", "other"}

NamesPlayer(m) == m # Null /\ player_idx[m] = "player"

\* A callback holds the client's mutex from its call to its return.
InCallback == cb_at # "idle"

\* A wild or NULL access of either thread ends the process.
Alive == pc # "crashed" /\ cb_at # "crashed"

Init ==
  /\ game_state = GAME_STOP
  /\ temu_run = FALSE
  /\ current_map = NoLevel
  /\ level_select_active = FALSE
  /\ selected_level_path = NoLevel
  /\ entity_manager \in {0, Null}  \* create_entity_manager may fail in engine_init too
  /\ loads = 0
  /\ level_of = [m \in Managers |-> NoLevel]
  /\ player_idx = [m \in Managers |-> "unset"]
  /\ doors = [m \in Managers |-> [d \in DoorIds |-> "missing"]]
  /\ starved = {}
  /\ freed = {}
  /\ pc = "test"
  /\ client \in {"connecting", "off"}  \* MQTTAsync_connect accepted or refused
  /\ cb_at = "idle"
  /\ cb_manager = Null
  /\ cb_door = 0
  /\ cb_state = FALSE

Goto(label) == pc' = label

-----------------------------------------------------------------------------
(* Wrong forms of some of the steps below: each breaks one of the properties *)

\* ... the loop runs on after GAME_EXIT.
LoopTestIgnoresExit ==
  /\ pc = "test"
  /\ pc' \in {"update", "shutdown"}
  /\ UNCHANGED <<game_state, temu_run, mapVars, menuVars, doors, cbVars>>

\* ... a failed load does not go back to the menu.
LoadFailedStaysRunning ==
  /\ pc = "load_failed"
  /\ current_map' = NoLevel
  /\ Goto("test")
  /\ UNCHANGED <<game_state, temu_run, entityVars, entity_manager, loads, freed, menuVars, doors,
                 cbVars>>

\* ... the previous level's manager is freed when the new one replaces it.
NewManagerFreesOld ==
  /\ pc = "new_manager"
  /\ loads' = loads + 1 /\ entity_manager' = loads'
  /\ freed' = freed \cup {entity_manager}
  /\ Goto("create_entities")
  /\ UNCHANGED <<game_state, temu_run, current_map, entityVars, menuVars, doors, cbVars>>

\* ... the scan of the layout ends at its doors, before the player behind them.
CreateDoorsOnly ==
  /\ pc = "create_entities"
  /\ entity_manager # Null
  /\ level_of' = [level_of EXCEPT ![entity_manager] = selected_level_path]
  /\ doors' = [doors EXCEPT ![entity_manager] =
                 [d \in DoorIds |-> IF d \in DoorsOf(selected_level_path) THEN "closed" ELSE @[d]]]
  /\ Goto("enter")
  /\ UNCHANGED <<game_state, temu_run, current_map, entity_manager, loads, player_idx, starved, freed,
                 menuVars, cbVars>>

\* ... a connection made brings the main menu up.
ConnectSuccessShowsMenu ==
  /\ client = "connecting"
  /\ client' = "connected"
  /\ game_state' = GAME_STOP
  /\ UNCHANGED <<temu_run, mapVars, menuVars, doors, pc, msgVars>>

-----------------------------------------------------------------------------
(* The main thread *)

\* while (!WindowShouldClose() && game_state != GAME_EXIT)
LoopTest ==
  /\ pc = "test"
  /\ \/ game_state # GAME_EXIT /\ Goto("update")
     \/ Goto("shutdown")  \* the window is closed, or game_state is GAME_EXIT
  /\ UNCHANGED <<game_state, temu_run, mapVars, menuVars, doors, cbVars>>

\* engine_update with the console open: F4, "exit" or the end of the emulator
\* close it.  update_input compares the name of current_map when the tutorial
\* or a key asks for it, and there is no map to name after a failed load.
UpdateConsole ==
  /\ pc = "update"
  /\ temu_run
  /\ \/ Goto("draw") /\ temu_run' \in BOOLEAN
     \/ current_map = NoLevel /\ Goto("crashed") /\ UNCHANGED temu_run
  /\ UNCHANGED <<game_state, mapVars, menuVars, doors, cbVars>>

\* engine_update in GAME_RUN: P opens the console, Q asks for the pause menu.
UpdateKeys ==
  /\ pc = "update"
  /\ ~temu_run
  /\ game_state = GAME_RUN
  /\ temu_run' \in BOOLEAN
  /\ \E q \in BOOLEAN : Goto(IF q THEN "pause" ELSE "entities")
  /\ UNCHANGED <<game_state, mapVars, menuVars, doors, cbVars>>

UpdateNothing ==
  /\ pc = "update"
  /\ ~temu_run
  /\ game_state # GAME_RUN
  /\ Goto("draw")
  /\ UNCHANGED <<game_state, temu_run, mapVars, menuVars, doors, cbVars>>

StorePause ==
  /\ pc = "pause"
  /\ game_state' = DRAW_PAUSE
  /\ Goto("entities")
  /\ UNCHANGED <<temu_run, mapVars, menuVars, doors, cbVars>>

\* game_update and the camera: a player on the end tile stops the level; where
\* player_idx names no player, entities[player_idx] is a door, or whatever
\* malloc left there.
UpdateEntities ==
  /\ pc = "entities"
  /\ \/ Goto("draw") /\ UNCHANGED game_state
     \/ player_idx[entity_manager] # "unset" /\ Goto("draw") /\ game_state' = GAME_STOP
     \/ ~NamesPlayer(entity_manager) /\ Goto("crashed") /\ UNCHANGED game_state
  /\ UNCHANGED <<temu_run, mapVars, menuVars, doors, cbVars>>

\* engine_draw of the world, of the console, or of nothing.
DrawWorld ==
  /\ pc = "draw"
  /\ game_state \in {GAME_RUN, GAME_EXIT}
  /\ Goto("test")
  /\ UNCHANGED <<game_state, temu_run, mapVars, menuVars, doors, cbVars>>

\* draw_start_menu without the level list: no click, Start, or Exit.
DrawStartMenu ==
  /\ pc = "draw"
  /\ game_state = GAME_STOP
  /\ ~level_select_active
  /\ Goto("test")
  /\ \/ UNCHANGED <<game_state, menuVars>>
     \/ level_select_active' = TRUE /\ selected_level_path' = NoLevel /\ UNCHANGED game_state
     \/ game_state' = GAME_EXIT /\ UNCHANGED menuVars
  /\ UNCHANGED <<temu_run, mapVars, doors, cbVars>>

\* draw_level_select: no click, Back, or a level; a level is loaded at once.
DrawLevelSelect ==
  /\ pc = "draw"
  /\ game_state = GAME_STOP
  /\ level_select_active
  /\ \/ Goto("test") /\ UNCHANGED selected_level_path /\ level_select_active' \in BOOLEAN
     \/ /\ loads < MaxLoads
        /\ selected_level_path' \in Levels
        /\ level_select_active' = FALSE
        /\ Goto("load")
  /\ UNCHANGED <<game_state, temu_run, mapVars, doors, cbVars>>

DrawPauseMenu ==
  /\ pc = "draw"
  /\ game_state = DRAW_PAUSE
  /\ pc' \in {"test", "resume", "leave"}
  /\ UNCHANGED <<game_state, temu_run, mapVars, menuVars, doors, cbVars>>

StoreResume ==
  /\ pc = "resume"
  /\ game_state' = GAME_RUN
  /\ Goto("test")
  /\ UNCHANGED <<temu_run, mapVars, menuVars, doors, cbVars>>

StoreLeave ==
  /\ pc = "leave"
  /\ game_state' = GAME_STOP
  /\ Goto("test")
  /\ UNCHANGED <<temu_run, mapVars, menuVars, doors, cbVars>>

\* draw_start_menu announces GAME_RUN before it has a map.  load_level_config
\* refuses any level when an allocation fails.
StoreRun ==
  /\ pc = "load"
  /\ game_state' = GAME_RUN
  /\ \/ Goto("load_failed")
     \/ selected_level_path \notin Unreadable /\ Goto("new_manager")
  /\ UNCHANGED <<temu_run, mapVars, menuVars, doors, cbVars>>

LoadFailed ==
  /\ pc = "load_failed"
  /\ current_map' = NoLevel
  /\ game_state' = GAME_STOP
  /\ Goto("test")
  /\ UNCHANGED <<temu_run, entityVars, entity_manager, loads, freed, menuVars, doors, cbVars>>

\* get_map: a new, empty entity manager takes the place of the old one, or
\* NULL does ...
NewManager ==
  /\ pc = "new_manager"
  /\ loads' = loads + 1 /\ entity_manager' \in {loads', Null}
  /\ Goto("create_entities")
  /\ UNCHANGED <<game_state, temu_run, current_map, entityVars, freed, menuVars, doors, cbVars>>

\* ... then the layout's players and doors are created in it, the doors closed,
\* each as far as its allocations succeed.
CreateEntities ==
  /\ pc = "create_entities"
  /\ entity_manager # Null
  /\ level_of' = [level_of EXCEPT ![entity_manager] = selected_level_path]
  /\ \E player \in PlayerStates, made \in [DoorsOf(selected_level_path) -> DoorStates \ {"open"}] :
       LET full == player = "player" \/ selected_level_path \in Playerless
           well == \A d \in DOMAIN made : made[d] = "closed"
       IN /\ selected_level_path \in Playerless => player = "unset"
          /\ player_idx' = [player_idx EXCEPT ![entity_manager] = player]
          /\ doors' = [doors EXCEPT ![entity_manager] =
                         [d \in DoorIds |-> IF d \in DOMAIN made THEN made[d] ELSE @[d]]]
          /\ starved' = IF full /\ well THEN starved ELSE starved \cup {entity_manager}
  /\ Goto("enter")
  /\ UNCHANGED <<game_state, temu_run, current_map, entity_manager, loads, freed, menuVars, cbVars>>

\* Without a manager create_entity makes nothing, and a player, if it could be
\* allocated, has its index stored through NULL.
CreateInNull ==
  /\ pc = "create_entities"
  /\ entity_manager = Null
  /\ \/ Goto("enter")
     \/ selected_level_path \notin Playerless /\ Goto("crashed")
  /\ UNCHANGED <<game_state, temu_run, mapVars, menuVars, doors, cbVars>>

\* draw_start_menu after get_map: the camera is put on entities[player_idx].
EnterLevel ==
  /\ pc = "enter"
  /\ current_map' = selected_level_path
  /\ \/ entity_manager # Null /\ Goto("test")
     \/ ~NamesPlayer(entity_manager) /\ Goto("crashed")
  /\ UNCHANGED <<game_state, temu_run, entityVars, entity_manager, loads, freed, menuVars, doors,
                 cbVars>>

\* engine_shutdown up to MQTTAsync_destroy, which takes the client's mutex and
\* so waits for a callback to return; no callback is made after it.
Shutdown ==
  /\ pc = "shutdown"
  /\ ~InCallback
  /\ client' = "destroyed"
  /\ Goto("free")
  /\ UNCHANGED <<game_state, temu_run, mapVars, menuVars, doors, msgVars>>

FreeManager ==
  /\ pc = "free"
  /\ freed' = freed \cup ({entity_manager} \ {Null})
  /\ Goto("done")
  /\ UNCHANGED <<game_state, temu_run, current_map, entityVars, entity_manager, loads, menuVars, doors,
                 cbVars>>

Main ==
  /\ Alive
  /\ \/ LoopTest \/ UpdateConsole \/ UpdateKeys \/ UpdateNothing \/ StorePause
     \/ UpdateEntities \/ DrawWorld \/ DrawStartMenu \/ DrawLevelSelect \/ DrawPauseMenu
     \/ StoreResume \/ StoreLeave \/ StoreRun \/ LoadFailed \/ NewManager
     \/ CreateEntities \/ CreateInNull \/ EnterLevel \/ Shutdown \/ FreeManager

-----------------------------------------------------------------------------
(* The MQTT client's threads *)

ConnectSuccess ==
  /\ client = "connecting"
  /\ client' = "connected"
  /\ UNCHANGED <<game_state, temu_run, mapVars, menuVars, doors, pc, msgVars>>

ConnectFailure ==
  /\ client = "connecting"
  /\ client' = "off"
  /\ game_state' = GAME_EXIT
  /\ UNCHANGED <<temu_run, mapVars, menuVars, doors, pc, msgVars>>

\* connlost: connect again, or give up when the request is refused.
ConnectionLost ==
  /\ client = "connected"
  /\ ~InCallback
  /\ \/ client' = "connecting" /\ UNCHANGED game_state
     \/ client' = "off" /\ game_state' = GAME_EXIT
  /\ UNCHANGED <<temu_run, mapVars, menuVars, doors, pc, msgVars>>

\* msgarrvd of a door message, to the moment find_door_by_id has found that
\* engine->entity_manager is not NULL; where it is, nothing comes of the
\* message.  A payload sscanf cannot read leaves door_n and state
\* uninitialised: any values.
MessageArrived ==
  /\ client = "connected"
  /\ ~InCallback
  /\ entity_manager # Null
  /\ cb_at' = "found"
  /\ cb_door' \in DoorIds
  /\ cb_state' \in BOOLEAN
  /\ UNCHANGED <<game_state, temu_run, mapVars, menuVars, doors, pc, client, cb_manager>>

\* find_door_by_id reads engine->entity_manager a second time, and a level load
\* may have stored NULL there since.
ReadManager ==
  /\ cb_at = "found"
  /\ cb_at' = IF entity_manager = Null THEN "crashed" ELSE "search"
  /\ cb_manager' = entity_manager
  /\ UNCHANGED <<game_state, temu_run, mapVars, menuVars, doors, pc, client, cb_door, cb_state>>

\* The search meets the doors in the order of their numbers, and follows the
\* data of each: a hollow one before the door it looks for ends the process.
MeetsHollow ==
  \E h \in DoorIds :
     /\ doors[cb_manager][h] = "hollow"
     /\ doors[cb_manager][cb_door] \in {"closed", "open"} => h < cb_door

\* the search of that manager, and door->is_open = state; the locals of the
\* callback end with it.
SetDoor ==
  /\ cb_at = "search"
  /\ IF MeetsHollow
     THEN cb_at' = "crashed" /\ UNCHANGED <<doors, cb_manager, cb_door, cb_state>>
     ELSE /\ doors' = IF doors[cb_manager][cb_door] = "missing" THEN doors
                      ELSE [doors EXCEPT ![cb_manager][cb_door] =
                              IF cb_state THEN "open" ELSE "closed"]
          /\ cb_at' = "idle"
          /\ cb_manager' = Null /\ cb_door' = 0 /\ cb_state' = FALSE
  /\ UNCHANGED <<game_state, temu_run, mapVars, menuVars, pc, client>>

Callback == ReadManager \/ SetDoor

Mqtt ==
  /\ Alive
  /\ ConnectSuccess \/ ConnectFailure \/ ConnectionLost \/ MessageArrived \/ Callback

\* The process has ended.
Ended ==
  /\ pc = "done" \/ ~Alive
  /\ UNCHANGED vars

Next == Main \/ Mqtt \/ Ended

Spec == Init /\ [][Next]_vars

\* The main thread is scheduled, a callback returns, and the client's mutex,
\* which its threads hold only while they handle an event, is granted to the
\* main thread waiting for it in MQTTAsync_destroy.
FairSpec == Spec /\ WF_vars(Main) /\ SF_vars(Alive /\ Shutdown) /\ WF_vars(Alive /\ Callback)

-----------------------------------------------------------------------------
(* Properties *)

TypeOK ==
  /\ game_state \in {GAME_EXIT, GAME_STOP, GAME_RUN, DRAW_PAUSE}
  /\ temu_run \in BOOLEAN
  /\ current_map \in Levels \cup {NoLevel}
  /\ level_select_active \in BOOLEAN
  /\ selected_level_path \in Levels \cup {NoLevel}
  /\ entity_manager \in Managers \cup {Null}
  /\ loads \in Managers
  /\ level_of \in [Managers -> Levels \cup {NoLevel}]
  /\ player_idx \in [Managers -> PlayerStates]
  /\ doors \in [Managers -> [DoorIds -> DoorStates]]
  /\ starved \subseteq Managers
  /\ freed \subseteq Managers
  /\ pc \in {"test", "update", "pause", "entities", "draw", "resume", "leave", "load",
             "load_failed", "new_manager", "create_entities", "enter", "shutdown", "free",
             "done", "crashed"}
  /\ client \in {"connecting", "connected", "off", "destroyed"}
  /\ cb_at \in {"idle", "found", "search", "crashed"}
  /\ cb_manager \in Managers \cup {Null}
  /\ cb_door \in DoorIds
  /\ cb_state \in BOOLEAN

\* The map and the entities of one level are in place.
Loaded ==
  /\ current_map \in Levels
  /\ entity_manager # Null
  /\ level_of[entity_manager] = current_map

\* The world is updated, and drawn, only with a map, and with the entities of
\* that very map: update_player follows current_map with no test, although a
\* failed load leaves it NULL beside the previous level's entities.
WorldHasMap ==
  pc \in {"pause", "entities"} \/ (pc = "draw" /\ game_state = GAME_RUN) => Loaded

\* No thread holds a manager that was freed: msgarrvd may still be searching
\* the one a level load has just replaced, or the one engine_shutdown frees.
NoUseAfterFree ==
  /\ InCallback => cb_manager \notin freed
  /\ pc # "done" => entity_manager \notin freed

\* Of the crashes this module has, none comes out of the interleaving of loads,
\* menus and messages alone.  The main thread follows player_idx to no player
\* only where the level has none, or an allocation failed while the very
\* manager in use was made or filled, and it names a NULL current_map only in a
\* console left open over a failed load.  A callback is ended only by a manager
\* an allocation failed for.  (Searches that a growing list overlaps and
\* accesses beyond the objects of a level file are crashes too, of
\* EntityManager and of Level.)
CrashHasCause ==
  /\ pc = "crashed" =>
       \/ entity_manager = Null
       \/ entity_manager \in starved
       \/ level_of[entity_manager] \in Playerless
       \/ temu_run /\ current_map = NoLevel
  /\ cb_at = "crashed" => entity_manager = Null \/ cb_manager \in starved

\* An exit request is undone only by a store the frame under way had already
\* decided on; at the loop test, in the menus and in the shutdown it stands.
ExitUndoneOnlyInFrame ==
  [][game_state = GAME_EXIT /\ game_state' # GAME_EXIT =>
       pc \in {"pause", "entities", "resume", "leave", "load", "load_failed"}]_vars

\* An exit request that the loop test sees ends the program, whatever the
\* broker sends meanwhile, by the whole shutdown unless a callback it waits for
\* dies.  (A request overwritten before the loop test is not in it: that is
\* what ExitUndoneOnlyInFrame is about.)
ExitObeyed == (pc = "test" /\ game_state = GAME_EXIT) ~> (pc = "done" \/ cb_at = "crashed")

-----------------------------------------------------------------------------
(* The strengthening of WorldHasMap and NoUseAfterFree that every step keeps *)

Loading == {"new_manager", "create_entities", "enter"}

WorldInv ==
  /\ game_state \in {GAME_RUN, DRAW_PAUSE} =>
       pc \in Loading \cup {"load_failed", "crashed"} \/ Loaded
  /\ pc \in {"pause", "entities", "resume"} => Loaded
  /\ pc \in Loading \cup {"load"} => selected_level_path \in Levels
  /\ pc \in {"load", "new_manager"} => loads < MaxLoads
  /\ pc = "enter" /\ entity_manager # Null => level_of[entity_manager] = selected_level_path
  /\ entity_manager = Null => pc \notin {"pause", "entities", "resume"}

HeapInv ==
  /\ freed # {} => pc = "done"
  /\ pc \in {"free", "done"} => ~InCallback /\ client = "destroyed"

\* Where a manager lacks its player or a door's data, the level or a failed
\* allocation is the reason; a callback searches only a manager.
CauseInv ==
  /\ \A m \in Managers :
       level_of[m] \in Levels =>
         m \in starved \/ level_of[m] \in Playerless \/ player_idx[m] = "player"
  /\ \A m \in Managers, d \in DoorIds : doors[m][d] = "hollow" => m \in starved
  /\ pc = "enter" /\ entity_manager # Null => level_of[entity_manager] \in Levels
  /\ cb_at = "search" => cb_manager \in Managers
=============================================================================
