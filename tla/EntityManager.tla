---------------------------- MODULE EntityManager ----------------------------
(***************************************************************************)
(* The entity manager of src/engine/engine.c while get_map fills it, step  *)
(* by step as the unoptimised build executes it, and a message callback    *)
(* that searches it meanwhile with find_door_by_id.  The manager's fields  *)
(* are shared and nothing locks them.                                      *)
(*                                                                         *)
(* Slots are numbered from 1; an entity is the number of the call that     *)
(* created it, and 0 stands for a slot nothing has written yet.  get_map    *)
(* makes an entity of a door create_door had no memory for, too: a hollow  *)
(* one, whose data is NULL.                                                *)
(***************************************************************************)
EXTENDS Integers, Sequences

CONSTANTS InitCapacity,  \* the capacity given to create_entity_manager
          MaxCalls       \* bound: calls of create_entity

ASSUME ManagerAssumption == InitCapacity \in Nat \ {0} /\ MaxCalls \in Nat

VARIABLES entities,        \* manager->entities, as an array number
          count, capacity, \* manager->count, manager->capacity
          live,            \* the array that has not been given back by realloc
          room,            \* the slots the live array really has
          slots,           \* what they hold
          calls,           \* calls of create_entity so far
          hollow,          \* those whose data is NULL
          loader,          \* where create_entity is
          realloc_failed,  \* some realloc has failed
          reader,          \* where find_door_by_id is
          i, array,        \* its index, and the array it has loaded
          want,            \* the entity it looks for
          owed,            \* that entity was in the list when the search began
          overlapped       \* a creation was under way during the search

managerVars == <<entities, count, capacity, live, room, slots>>
loaderVars  == <<calls, hollow, loader, realloc_failed>>
readerVars  == <<reader, i, array, want, owed, overlapped>>
vars == <<managerVars, loaderVars, readerVars>>

Created == 1..MaxCalls

Init ==
  /\ entities = 0 /\ live = 0
  /\ count = 0
  /\ capacity = InitCapacity /\ room = InitCapacity
  /\ slots = [s \in Created |-> 0]
  /\ calls = 0 /\ hollow = {} /\ loader = "idle" /\ realloc_failed = FALSE
  /\ reader = "idle" /\ i = 1 /\ array = 0 /\ want = 0
  /\ owed = FALSE /\ overlapped = FALSE

-----------------------------------------------------------------------------
(* Wrong forms of some of the definitions below: each breaks a property *)

\* ... count > capacity: the last slot is taken to be one further.
FullOffByOne == count > capacity

\* ... the array is moved without its contents.
ReallocLosesSlots ==
  /\ loader = "grow"
  /\ loader' = "attach" /\ live' = live + 1 /\ room' = capacity
  /\ slots' = [s \in Created |-> 0]
  /\ UNCHANGED <<entities, count, capacity, calls, hollow, realloc_failed, readerVars>>

\* ... i <= manager->count.
TestOffByOne ==
  /\ reader = "test"
  /\ reader' = IF i <= count + 1 THEN "load" ELSE "missed"
  /\ UNCHANGED <<managerVars, loaderVars, i, array, want, owed, overlapped>>

\* ... int i = 1.
SearchSkipsFirst ==
  /\ reader = "idle"
  /\ reader' = "test" /\ i' = 2
  /\ want' \in Created
  /\ owed' = (\E s \in 1..count : slots[s] = want')
  /\ overlapped' = (loader # "idle")
  /\ UNCHANGED <<managerVars, loaderVars, array>>

-----------------------------------------------------------------------------
(* create_entity, called by get_map for each player and door of the layout, *)
(* for a door after a create_door that may have returned NULL               *)

Full == count >= capacity

Create ==
  /\ loader = "idle"
  /\ calls < MaxCalls
  /\ calls' = calls + 1
  /\ hollow' \in {hollow, hollow \cup {calls'}}
  /\ IF Full THEN capacity' = 2 * capacity /\ loader' = "grow"
             ELSE UNCHANGED capacity /\ loader' = "malloc"
  /\ overlapped' = TRUE
  /\ UNCHANGED <<entities, count, live, room, slots, realloc_failed, reader, i, array, want, owed>>

\* realloc: in place, to another array, the old one freed, or not at all.
Realloc ==
  /\ loader = "grow"
  /\ \/ loader' = "malloc" /\ room' = capacity /\ UNCHANGED <<live, realloc_failed>>
     \/ loader' = "attach" /\ room' = capacity /\ live' = live + 1 /\ UNCHANGED realloc_failed
     \/ loader' = "idle" /\ realloc_failed' = TRUE /\ UNCHANGED <<live, room>>
  /\ UNCHANGED <<entities, count, capacity, slots, calls, hollow, readerVars>>

\* manager->entities = new_entities
Attach ==
  /\ loader = "attach"
  /\ entities' = live
  /\ loader' = "malloc"
  /\ UNCHANGED <<count, capacity, live, room, slots, calls, hollow, realloc_failed, readerVars>>

MallocEntity ==
  /\ loader = "malloc"
  /\ loader' \in {"publish", "idle"}
  /\ UNCHANGED <<managerVars, calls, hollow, realloc_failed, readerVars>>

\* manager->count++, stored before the slot it makes visible ...
Publish ==
  /\ loader = "publish"
  /\ count' = count + 1
  /\ loader' = "store"
  /\ UNCHANGED <<entities, capacity, live, room, slots, calls, hollow, realloc_failed, readerVars>>

\* ... manager->entities[...] = entity, wherever that slot is.
Store ==
  /\ loader = "store"
  /\ IF count <= room THEN slots' = [slots EXCEPT ![count] = calls] /\ loader' = "idle"
                      ELSE loader' = "overflow" /\ UNCHANGED slots
  /\ UNCHANGED <<entities, count, capacity, live, room, calls, hollow, realloc_failed, readerVars>>

Loader == Create \/ Realloc \/ Attach \/ MallocEntity \/ Publish \/ Store

-----------------------------------------------------------------------------
(* find_door_by_id, called by msgarrvd in the MQTT client's thread *)

Search ==
  /\ reader = "idle"
  /\ reader' = "test" /\ i' = 1
  /\ want' \in Created
  /\ owed' = (\E s \in 1..count : slots[s] = want')
  /\ overlapped' = (loader # "idle")
  /\ UNCHANGED <<managerVars, loaderVars, array>>

\* i < manager->count
TestIndex ==
  /\ reader = "test"
  /\ reader' = IF i <= count THEN "load" ELSE "missed"
  /\ UNCHANGED <<managerVars, loaderVars, i, array, want, owed, overlapped>>

\* the first half of manager->entities[i]
LoadArray ==
  /\ reader = "load"
  /\ array' = entities
  /\ reader' = "deref"
  /\ UNCHANGED <<managerVars, loaderVars, i, want, owed, overlapped>>

\* the other half, and e->vtable, and d->id behind e->data: wild when the array
\* was freed, the slot is not there or not written, or the door is hollow.
DerefSlot ==
  /\ reader = "deref"
  /\ \/ /\ array # live \/ i > room \/ slots[i] \in hollow \cup {0}
        /\ reader' = "wild" /\ UNCHANGED i
     \/ /\ array = live /\ i <= room /\ slots[i] \notin hollow \cup {0}
        /\ IF slots[i] = want THEN reader' = "found" /\ UNCHANGED i
                              ELSE reader' = "test" /\ i' = i + 1
  /\ UNCHANGED <<managerVars, loaderVars, array, want, owed, overlapped>>

Return ==
  /\ reader \in {"found", "missed"}
  /\ reader' = "idle"
  /\ UNCHANGED <<managerVars, loaderVars, i, array, want, owed, overlapped>>

Reader == Search \/ TestIndex \/ LoadArray \/ DerefSlot \/ Return

\* Nothing can be said of the process behind a wild access.
Defined == loader # "overflow" /\ reader # "wild"

Next == (Defined /\ (Loader \/ Reader)) \/ (~Defined /\ UNCHANGED vars)

Spec == Init /\ [][Next]_vars

-----------------------------------------------------------------------------
(* Properties *)

TypeOK ==
  /\ live \in Nat /\ entities \in 0..live
  /\ count \in 0..MaxCalls
  /\ capacity \in Nat \ {0} /\ room \in Nat \ {0}
  /\ slots \in [Created -> 0..MaxCalls]
  /\ calls \in 0..MaxCalls
  /\ hollow \subseteq Created
  /\ loader \in {"idle", "grow", "attach", "malloc", "publish", "store", "overflow"}
  /\ realloc_failed \in BOOLEAN
  /\ reader \in {"idle", "test", "load", "deref", "found", "missed", "wild"}
  /\ i \in 1..(MaxCalls + 1)
  /\ array \in 0..live
  /\ want \in 0..MaxCalls
  /\ owed \in BOOLEAN
  /\ overlapped \in BOOLEAN

\* A store leaves the array only after a realloc has failed, whose doubled
\* capacity create_entity does not take back.
OverflowNeedsFailure == loader = "overflow" => realloc_failed

\* A search runs wild only if a creation overlaps it, or if it comes to a door
\* without data before the one it looks for: in a list get_map has finished,
\* with every door allocated, a message callback can search for any number.
WildHasCause ==
  reader = "wild" =>
    \/ overlapped
    \/ \E s \in 1..count : slots[s] \in hollow /\ \A r \in 1..(s - 1) : slots[r] # want

\* A search misses no entity that was in the list when it began.
SearchComplete == reader = "missed" => ~owed

\* The slots that the manager's users are promised.
Promised == IF loader \in {"store", "overflow"} THEN count - 1 ELSE count

List == INSTANCE EntityList WITH Entities <- Created,
                                 list <- [s \in 1..Promised |-> slots[s]]

\* create_entity implements EntityList: growing, failing or half done, it only
\* ever appends.
ImplementsList == List!Spec
=============================================================================
