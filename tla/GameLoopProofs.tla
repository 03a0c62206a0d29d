--------------------------- MODULE GameLoopProofs ---------------------------
(***************************************************************************)
(* Theorems about GameLoop, for every set of levels, whichever of them are *)
(* unreadable or without a player, whichever allocations fail, and every   *)
(* number of loads.                                                        *)
(***************************************************************************)
EXTENDS GameLoop, TLAPS

\* Every step keeps the types: in particular a level load never leaves the
\* range of the allocation numbers, which is why WorldInv bounds them.
LEMMA TypeStep == TypeOK /\ WorldInv /\ [Next]_vars => TypeOK'
<1> SUFFICES ASSUME TypeOK, WorldInv, [Next]_vars PROVE TypeOK'
  OBVIOUS
<1> USE LevelAssumption
        DEF TypeOK, WorldInv, Goto, Managers, Null, GAME_EXIT, GAME_STOP, GAME_RUN,
            DRAW_PAUSE, entityVars, mapVars, menuVars, msgVars, cbVars
<1>1. CASE LoopTest
  BY <1>1 DEF LoopTest
<1>2. CASE UpdateConsole
  <2>1. temu_run' \in BOOLEAN /\ pc' \in {"draw", "crashed"}
    BY <1>2 DEF UpdateConsole
  <2> QED
    BY <1>2, <2>1 DEF UpdateConsole
<1>3. CASE UpdateKeys
  BY <1>3 DEF UpdateKeys
<1>4. CASE UpdateNothing
  BY <1>4 DEF UpdateNothing
<1>5. CASE StorePause
  BY <1>5 DEF StorePause
<1>6. CASE UpdateEntities
  BY <1>6 DEF UpdateEntities
<1>7. CASE DrawWorld
  BY <1>7 DEF DrawWorld
<1>8. CASE DrawStartMenu
  BY <1>8 DEF DrawStartMenu
<1>9. CASE DrawLevelSelect
  BY <1>9 DEF DrawLevelSelect
<1>10. CASE DrawPauseMenu
  BY <1>10 DEF DrawPauseMenu
<1>11. CASE StoreResume
  BY <1>11 DEF StoreResume
<1>12. CASE StoreLeave
  BY <1>12 DEF StoreLeave
<1>13. CASE StoreRun
  BY <1>13 DEF StoreRun
<1>14. CASE LoadFailed
  BY <1>14 DEF LoadFailed
<1>15. CASE NewManager
  BY <1>15 DEF NewManager
<1>16. CASE CreateEntities
  BY <1>16 DEF CreateEntities, Loading
<1>16a. CASE CreateInNull
  BY <1>16a DEF CreateInNull
<1>17. CASE EnterLevel
  BY <1>17 DEF EnterLevel
<1>18. CASE Shutdown
  BY <1>18 DEF Shutdown
<1>19. CASE FreeManager
  BY <1>19 DEF FreeManager
<1>20. CASE ConnectSuccess
  BY <1>20 DEF ConnectSuccess
<1>21. CASE ConnectFailure
  BY <1>21 DEF ConnectFailure
<1>22. CASE ConnectionLost
  BY <1>22 DEF ConnectionLost
<1>23. CASE MessageArrived
  BY <1>23 DEF MessageArrived
<1>23a. CASE ReadManager
  BY <1>23a DEF ReadManager
<1>24. CASE SetDoor
  <2>1. doors' \in [Managers -> [DoorIds -> DoorStates]]
    <3>1. doors' = doors \/ \E v \in {"open", "closed"} :
            doors' = [doors EXCEPT ![cb_manager][cb_door] = v]
      BY <1>24 DEF SetDoor
    <3>2. {"open", "closed"} \subseteq DoorStates
      BY DEF DoorStates
    <3>3. ASSUME NEW v \in DoorStates, doors' = [doors EXCEPT ![cb_manager][cb_door] = v]
          PROVE  doors' \in [Managers -> [DoorIds -> DoorStates]]
      BY <3>3
    <3> QED
      BY <3>1, <3>2, <3>3
  <2>2. cb_at' \in {"idle", "crashed"} /\ cb_manager' \in Managers \cup {Null}
    BY <1>24 DEF SetDoor
  <2>3. cb_door' \in DoorIds /\ cb_state' \in BOOLEAN
    BY <1>24 DEF SetDoor, DoorIds
  <2> QED
    BY <1>24, <2>1, <2>2, <2>3 DEF SetDoor
<1>25. CASE UNCHANGED vars
  BY <1>25 DEF vars
<1> QED
  BY <1>1, <1>2, <1>3, <1>4, <1>5, <1>6, <1>7, <1>8, <1>9, <1>10, <1>11, <1>12, <1>13, <1>14,
     <1>15, <1>16, <1>16a, <1>17, <1>18, <1>19, <1>20, <1>21, <1>22, <1>23, <1>23a, <1>24, <1>25
     DEF Next, Main, Mqtt, Callback, Ended

\* Every step keeps the map and the entities of the running level together: a
\* load goes through GAME_RUN before it has either, and a failed one leaves
\* GAME_RUN again before the loop test.
LEMMA WorldStep == TypeOK /\ WorldInv /\ [Next]_vars => WorldInv'
<1> SUFFICES ASSUME TypeOK, WorldInv, [Next]_vars PROVE WorldInv'
  OBVIOUS
<1> USE LevelAssumption
        DEF TypeOK, WorldInv, Loaded, Loading, Goto, Managers, GAME_EXIT, GAME_STOP, GAME_RUN,
            DRAW_PAUSE, Null, entityVars, mapVars, menuVars
<1>1. CASE LoopTest
  BY <1>1 DEF LoopTest
<1>2. CASE UpdateConsole
  BY <1>2 DEF UpdateConsole
<1>3. CASE UpdateKeys
  BY <1>3 DEF UpdateKeys
<1>4. CASE UpdateNothing
  BY <1>4 DEF UpdateNothing
<1>5. CASE StorePause
  BY <1>5 DEF StorePause
<1>6. CASE UpdateEntities
  BY <1>6 DEF UpdateEntities
<1>7. CASE DrawWorld
  BY <1>7 DEF DrawWorld
<1>8. CASE DrawStartMenu
  BY <1>8 DEF DrawStartMenu
<1>9. CASE DrawLevelSelect
  BY <1>9 DEF DrawLevelSelect
<1>10. CASE DrawPauseMenu
  BY <1>10 DEF DrawPauseMenu
<1>11. CASE StoreResume
  BY <1>11 DEF StoreResume
<1>12. CASE StoreLeave
  BY <1>12 DEF StoreLeave
<1>13. CASE StoreRun
  BY <1>13 DEF StoreRun
<1>14. CASE LoadFailed
  BY <1>14 DEF LoadFailed
<1>15. CASE NewManager
  BY <1>15 DEF NewManager
<1>16. CASE CreateEntities
  BY <1>16 DEF CreateEntities
<1>16a. CASE CreateInNull
  BY <1>16a DEF CreateInNull
<1>17. CASE EnterLevel
  BY <1>17 DEF EnterLevel
<1>18. CASE Shutdown
  BY <1>18 DEF Shutdown
<1>19. CASE FreeManager
  BY <1>19 DEF FreeManager
<1>20. CASE ConnectSuccess
  BY <1>20 DEF ConnectSuccess
<1>21. CASE ConnectFailure
  BY <1>21 DEF ConnectFailure
<1>22. CASE ConnectionLost
  BY <1>22 DEF ConnectionLost
<1>23. CASE MessageArrived
  BY <1>23 DEF MessageArrived
<1>23a. CASE ReadManager
  BY <1>23a DEF ReadManager
<1>24. CASE SetDoor
  BY <1>24 DEF SetDoor
<1>25. CASE UNCHANGED vars
  BY <1>25 DEF vars
<1> QED
  BY <1>1, <1>2, <1>3, <1>4, <1>5, <1>6, <1>7, <1>8, <1>9, <1>10, <1>11, <1>12, <1>13, <1>14,
     <1>15, <1>16, <1>16a, <1>17, <1>18, <1>19, <1>20, <1>21, <1>22, <1>23, <1>23a, <1>24, <1>25
     DEF Next, Main, Mqtt, Callback, Ended

\* Every step keeps the heap: the manager is freed by the last step of the
\* main thread, after the client and with it the last callback are gone.
LEMMA HeapStep == TypeOK /\ HeapInv /\ [Next]_vars => HeapInv'
<1> SUFFICES ASSUME TypeOK, HeapInv, [Next]_vars PROVE HeapInv'
  OBVIOUS
<1> USE DEF TypeOK, HeapInv, InCallback, Goto, entityVars, mapVars, msgVars, cbVars
<1>1. CASE LoopTest
  BY <1>1 DEF LoopTest
<1>2. CASE UpdateConsole
  BY <1>2 DEF UpdateConsole
<1>3. CASE UpdateKeys
  BY <1>3 DEF UpdateKeys
<1>4. CASE UpdateNothing
  BY <1>4 DEF UpdateNothing
<1>5. CASE StorePause
  BY <1>5 DEF StorePause
<1>6. CASE UpdateEntities
  BY <1>6 DEF UpdateEntities
<1>7. CASE DrawWorld
  BY <1>7 DEF DrawWorld
<1>8. CASE DrawStartMenu
  BY <1>8 DEF DrawStartMenu
<1>9. CASE DrawLevelSelect
  BY <1>9 DEF DrawLevelSelect
<1>10. CASE DrawPauseMenu
  BY <1>10 DEF DrawPauseMenu
<1>11. CASE StoreResume
  BY <1>11 DEF StoreResume
<1>12. CASE StoreLeave
  BY <1>12 DEF StoreLeave
<1>13. CASE StoreRun
  BY <1>13 DEF StoreRun
<1>14. CASE LoadFailed
  BY <1>14 DEF LoadFailed
<1>15. CASE NewManager
  BY <1>15 DEF NewManager
<1>16. CASE CreateEntities
  BY <1>16 DEF CreateEntities
<1>16a. CASE CreateInNull
  BY <1>16a DEF CreateInNull
<1>17. CASE EnterLevel
  BY <1>17 DEF EnterLevel
<1>18. CASE Shutdown
  BY <1>18 DEF Shutdown
<1>19. CASE FreeManager
  BY <1>19 DEF FreeManager
<1>20. CASE ConnectSuccess
  BY <1>20 DEF ConnectSuccess
<1>21. CASE ConnectFailure
  BY <1>21 DEF ConnectFailure
<1>22. CASE ConnectionLost
  BY <1>22 DEF ConnectionLost
<1>23. CASE MessageArrived
  BY <1>23 DEF MessageArrived
<1>23a. CASE ReadManager
  BY <1>23a DEF ReadManager
<1>24. CASE SetDoor
  BY <1>24 DEF SetDoor
<1>25. CASE UNCHANGED vars
  BY <1>25 DEF vars
<1> QED
  BY <1>1, <1>2, <1>3, <1>4, <1>5, <1>6, <1>7, <1>8, <1>9, <1>10, <1>11, <1>12, <1>13, <1>14,
     <1>15, <1>16, <1>16a, <1>17, <1>18, <1>19, <1>20, <1>21, <1>22, <1>23, <1>23a, <1>24, <1>25
     DEF Next, Main, Mqtt, Callback, Ended

\* Every step keeps what a crash is explained by: an allocation that fails while
\* a manager is filled puts it into starved in the same step, a message changes
\* no door into a hollow one, and a callback searches what it read.
LEMMA CauseStep == TypeOK /\ CauseInv /\ WorldInv /\ [Next]_vars => CauseInv'
<1> SUFFICES ASSUME TypeOK, CauseInv, WorldInv, [Next]_vars PROVE CauseInv'
  OBVIOUS
<1> USE LevelAssumption DEF TypeOK, Goto, entityVars, mapVars, msgVars, cbVars
<1>1. CASE CreateEntities
  <2>1. PICK player \in PlayerStates,
             made \in [DoorsOf(selected_level_path) -> DoorStates \ {"open"}] :
          LET full == player = "player" \/ selected_level_path \in Playerless
              well == \A d \in DOMAIN made : made[d] = "closed"
          IN /\ player_idx' = [player_idx EXCEPT ![entity_manager] = player]
             /\ doors' = [doors EXCEPT ![entity_manager] =
                            [d \in DoorIds |-> IF d \in DOMAIN made THEN made[d] ELSE @[d]]]
             /\ starved' = IF full /\ well THEN starved ELSE starved \cup {entity_manager}
    BY <1>1 DEF CreateEntities
  <2>2. entity_manager \in Managers /\ selected_level_path \in Levels
    BY <1>1 DEF CreateEntities, WorldInv, Loading
  <2>3. level_of' = [level_of EXCEPT ![entity_manager] = selected_level_path]
    BY <1>1 DEF CreateEntities
  <2>4. ASSUME NEW m \in Managers, level_of'[m] \in Levels
        PROVE  m \in starved' \/ level_of'[m] \in Playerless \/ player_idx'[m] = "player"
    BY <2>1, <2>2, <2>3, <2>4 DEF CauseInv
  <2>5. ASSUME NEW m \in Managers, NEW d \in DoorIds, doors'[m][d] = "hollow"
        PROVE  m \in starved'
    BY <2>1, <2>2, <2>5 DEF CauseInv
  <2>6. entity_manager' = entity_manager /\ cb_at' = cb_at /\ cb_manager' = cb_manager
    BY <1>1 DEF CreateEntities
  <2>7. level_of'[entity_manager'] \in Levels
    BY <2>2, <2>3, <2>6
  <2> QED
    BY <2>4, <2>5, <2>6, <2>7 DEF CauseInv
<1>2. CASE SetDoor
  <2> USE <1>2 DEF SetDoor
  <2>1. UNCHANGED <<level_of, player_idx, starved, pc, entity_manager>> /\ cb_at' # "search"
    OBVIOUS
  <2>2. ASSUME NEW m \in Managers, NEW d \in DoorIds, doors'[m][d] = "hollow"
        PROVE  doors[m][d] = "hollow"
    <3>1. doors' = doors \/ \E v \in {"open", "closed"} :
            doors' = [doors EXCEPT ![cb_manager][cb_door] = v]
      OBVIOUS
    <3>2. ASSUME NEW v \in {"open", "closed"},
                 doors' = [doors EXCEPT ![cb_manager][cb_door] = v]
          PROVE  doors[m][d] = "hollow"
      BY ONLY TypeOK, <2>2, <3>2 DEF TypeOK
    <3> QED
      BY ONLY <2>2, <3>1, <3>2
  <2> QED
    BY <2>1, <2>2 DEF CauseInv
<1>3. CASE ReadManager
  BY <1>3 DEF ReadManager, CauseInv, Null
<1>4. CASE NewManager
  BY <1>4 DEF NewManager, CauseInv
<1>5. CASE CreateInNull
  BY <1>5 DEF CreateInNull, CauseInv
<1>6. CASE ConnectSuccess \/ ConnectFailure \/ ConnectionLost \/ MessageArrived
  BY <1>6 DEF ConnectSuccess, ConnectFailure, ConnectionLost, MessageArrived, CauseInv
<1>7. CASE Ended \/ UNCHANGED vars
  BY <1>7 DEF Ended, vars, CauseInv
<1>8. CASE Main /\ ~CreateEntities /\ ~NewManager /\ ~CreateInNull
  <2>1. UNCHANGED <<level_of, player_idx, starved, doors, cb_at, cb_manager>> /\ pc' # "enter"
    BY <1>8 DEF Main, LoopTest, UpdateConsole, UpdateKeys, UpdateNothing, StorePause, UpdateEntities,
                DrawWorld, DrawStartMenu, DrawLevelSelect, DrawPauseMenu, StoreResume, StoreLeave,
                StoreRun, LoadFailed, EnterLevel, Shutdown, FreeManager
  <2> QED
    BY <2>1 DEF CauseInv
<1> QED
  BY <1>1, <1>2, <1>3, <1>4, <1>5, <1>6, <1>7, <1>8 DEF Next, Mqtt, Callback

\* At the start no level is loaded, nothing is freed and nothing has failed but
\* perhaps the first manager.
LEMMA Initially == Init => TypeOK /\ WorldInv /\ HeapInv /\ CauseInv
<1> SUFFICES ASSUME Init PROVE TypeOK /\ WorldInv /\ HeapInv /\ CauseInv
  OBVIOUS
<1> USE DEF Init, GAME_EXIT, GAME_STOP, GAME_RUN, DRAW_PAUSE
<1>1. TypeOK
  <2>1. 0 \in Managers /\ cb_manager \in Managers \cup {Null}
    BY LevelAssumption DEF Managers
  <2>2. cb_door \in DoorIds
    BY DEF DoorIds
  <2>3. doors \in [Managers -> [DoorIds -> DoorStates]]
    BY DEF DoorStates
  <2> QED
    BY <2>1, <2>2, <2>3 DEF TypeOK, PlayerStates
<1>2. WorldInv
  BY DEF WorldInv, Loading, Loaded
<1>3. HeapInv
  BY DEF HeapInv, InCallback
<1>4. CauseInv
  BY LevelAssumption DEF CauseInv
<1> QED
  BY <1>1, <1>2, <1>3, <1>4

\* What the theorems below are read from.
LEMMA Inductive == Spec => [](TypeOK /\ WorldInv /\ HeapInv /\ CauseInv)
<1>1. TypeOK /\ WorldInv /\ HeapInv /\ CauseInv /\ [Next]_vars
        => (TypeOK /\ WorldInv /\ HeapInv /\ CauseInv)'
  BY TypeStep, WorldStep, HeapStep, CauseStep
<1> QED
  BY Initially, <1>1, PTL DEF Spec

-----------------------------------------------------------------------------

\* The state of the loop, of the menus and of the callbacks keeps its types.
THEOREM TypeCorrect == Spec => []TypeOK
  BY Inductive, PTL

\* No frame updates or draws a world without its map and that map's entities.
THEOREM WorldSafe == Spec => []WorldHasMap
<1>1. WorldInv => WorldHasMap
  BY DEF WorldInv, WorldHasMap, Loading, GAME_RUN, DRAW_PAUSE
<1> QED
  BY Inductive, <1>1, PTL

\* No callback and no step of the main thread uses a manager that was freed.
THEOREM HeapSafe == Spec => []NoUseAfterFree
<1>1. TypeOK /\ HeapInv => NoUseAfterFree
  BY DEF HeapInv, NoUseAfterFree, TypeOK
<1> QED
  BY Inductive, <1>1, PTL

\* Where either thread can die, CauseInv names the level without a player, or
\* the allocation that failed for the manager it was using.
THEOREM CrashExplained == Spec => []CrashHasCause
<1>1. Init => CrashHasCause
  BY DEF Init, CrashHasCause
<1>2. TypeOK /\ WorldInv /\ CauseInv /\ CrashHasCause /\ [Next]_vars => CrashHasCause'
  <2> SUFFICES ASSUME TypeOK, WorldInv, CauseInv, CrashHasCause, [Next]_vars
               PROVE  CrashHasCause'
    OBVIOUS
  <2> USE DEF CrashHasCause, Goto, entityVars, mapVars, msgVars, cbVars, Alive
  <2>1. CASE UpdateConsole /\ Alive
    BY <2>1 DEF UpdateConsole
  <2>2. CASE UpdateEntities /\ Alive
    <3>1. level_of[entity_manager] \in Levels /\ entity_manager \in Managers
      BY <2>2 DEF UpdateEntities, WorldInv, Loaded, TypeOK
    <3> QED
      BY <2>2, <3>1 DEF UpdateEntities, CauseInv, NamesPlayer
  <2>3. CASE EnterLevel /\ Alive
    <3>1. CASE entity_manager = Null
      BY <2>3, <3>1 DEF EnterLevel
    <3>2. CASE entity_manager # Null
      <4>1. level_of[entity_manager] \in Levels /\ entity_manager \in Managers
        BY <2>3, <3>2 DEF EnterLevel, CauseInv, TypeOK
      <4> QED
        BY <2>3, <4>1 DEF EnterLevel, CauseInv, NamesPlayer
    <3> QED
      BY <3>1, <3>2
  <2>4. CASE CreateInNull /\ Alive
    BY <2>4 DEF CreateInNull
  <2>5. CASE ReadManager /\ Alive
    BY <2>5 DEF ReadManager
  <2>6. CASE SetDoor /\ Alive
    <3>1. CASE MeetsHollow
      <4>1. cb_manager \in starved
        BY <2>6, <3>1 DEF SetDoor, MeetsHollow, CauseInv
      <4> QED
        BY <2>6, <3>1, <4>1 DEF SetDoor
    <3>2. CASE ~MeetsHollow
      BY <2>6, <3>2 DEF SetDoor
    <3> QED
      BY <3>1, <3>2
  <2>7. CASE Ended \/ UNCHANGED vars
    BY <2>7 DEF Ended, vars
  <2>8. CASE /\ Alive
             /\ ConnectSuccess \/ ConnectFailure \/ ConnectionLost \/ MessageArrived
    BY <2>8 DEF ConnectSuccess, ConnectFailure, ConnectionLost, MessageArrived
  <2>9. CASE Main /\ ~UpdateConsole /\ ~UpdateEntities /\ ~EnterLevel /\ ~CreateInNull
    <3>1. pc' # "crashed" /\ cb_at' = cb_at /\ cb_at # "crashed"
      BY <2>9 DEF Main, LoopTest, UpdateKeys, UpdateNothing, StorePause, DrawWorld, DrawStartMenu,
                  DrawLevelSelect, DrawPauseMenu, StoreResume, StoreLeave, StoreRun, LoadFailed,
                  NewManager, CreateEntities, Shutdown, FreeManager
    <3> QED
      BY <3>1
  <2> QED
    BY <2>1, <2>2, <2>3, <2>4, <2>5, <2>6, <2>7, <2>8, <2>9 DEF Next, Main, Mqtt, Callback
<1> QED
  BY <1>1, <1>2, Inductive, PTL DEF Spec

\* An exit request of an MQTT callback is overwritten only by a store of the
\* frame that was under way: no step of the loop test, of the menus' reads or
\* of the client's threads takes it back.
THEOREM ExitKept == Spec => ExitUndoneOnlyInFrame
<1>1. ASSUME [Next]_vars
      PROVE  [game_state = GAME_EXIT /\ game_state' # GAME_EXIT =>
                pc \in {"pause", "entities", "resume", "leave", "load", "load_failed"}]_vars
  BY <1>1 DEF Next, Main, Mqtt, Callback, Ended, vars, entityVars, mapVars, menuVars, msgVars,
              cbVars, Goto,
              LoopTest, UpdateConsole, UpdateKeys, UpdateNothing, StorePause, UpdateEntities,
              DrawWorld, DrawStartMenu, DrawLevelSelect, DrawPauseMenu, StoreResume, StoreLeave,
              StoreRun, LoadFailed, NewManager, CreateEntities, CreateInNull, EnterLevel, Shutdown,
              FreeManager, ConnectSuccess, ConnectFailure, ConnectionLost, MessageArrived,
              ReadManager, SetDoor
<1> QED
  BY <1>1, PTL DEF Spec, ExitUndoneOnlyInFrame
=============================================================================
