------------------------ MODULE EntityManagerProofs ------------------------
(***************************************************************************)
(* Theorems about EntityManager, for every initial capacity and any number *)
(* of creations: where its stores land, which searches are safe, and that  *)
(* it implements EntityList.                                               *)
(***************************************************************************)
EXTENDS EntityManager, SequenceTheorems, TLAPS

\* The room of the array against count and capacity, at every point of
\* create_entity; a realloc that failed leaves capacity beyond the room.
RoomInv ==
  /\ room <= capacity
  /\ loader \notin {"store", "overflow"} => count <= room
  /\ loader = "store" => count <= room + 1 /\ count > 0
  /\ loader = "grow" => count < capacity
  /\ loader = "attach" => count < room
  /\ ~realloc_failed => /\ loader # "overflow"
                        /\ loader # "grow" => room = capacity
                        /\ loader \in {"malloc", "publish"} => count < room
                        /\ loader = "store" => count <= room

\* Every slot below count is written, save the one being published.
SlotInv ==
  /\ \A s \in 1..Promised : s \in Created /\ slots[s] # 0
  /\ \A s \in Created : s > Promised => slots[s] = 0
  /\ loader = "overflow" => count > 0
  /\ count <= calls
  /\ loader \in {"grow", "attach", "malloc", "publish"} => count < calls
  /\ loader # "idle" => calls > 0
  /\ loader # "attach" => entities = live

\* A search that no creation overlaps has loaded the live array and an index
\* of a written slot, and the slots behind it hold other doors.
SearchInv ==
  /\ reader \in {"test", "load", "deref", "found", "missed"} /\ ~overlapped => loader = "idle"
  /\ reader \in {"load", "deref"} => i <= count
  /\ reader = "deref" /\ ~overlapped => array = live
  /\ reader \in {"test", "load", "deref"} /\ ~overlapped =>
       \A r \in 1..(i - 1) : r <= count /\ slots[r] # want
  /\ WildHasCause

\* What a search was owed is still ahead of it.
OwedInv ==
  /\ reader \in {"test", "load", "deref"} => want # 0
  /\ reader \in {"test", "load", "deref"} /\ owed => \E s \in i..Promised : slots[s] = want
  /\ reader = "missed" => ~owed

Inv == TypeOK /\ RoomInv /\ SlotInv /\ SearchInv /\ OwedInv

-----------------------------------------------------------------------------

\* A new manager is empty, and nothing searches it.
LEMMA Initially == Init => Inv
<1> SUFFICES ASSUME Init PROVE Inv
  OBVIOUS
<1> USE ManagerAssumption DEF Init, Created
<1>1. TypeOK
  <2>1. slots \in [Created -> 0..MaxCalls]
    OBVIOUS
  <2>2. /\ entities \in 0..live /\ array \in 0..live
        /\ count \in 0..MaxCalls /\ calls \in 0..MaxCalls /\ want \in 0..MaxCalls
        /\ i \in 1..(MaxCalls + 1)
    OBVIOUS
  <2> QED
    BY <2>1, <2>2 DEF TypeOK
<1>2. RoomInv /\ SlotInv
  BY DEF RoomInv, SlotInv, Promised
<1>3. SearchInv /\ OwedInv
  BY DEF SearchInv, OwedInv, WildHasCause
<1> QED
  BY <1>1, <1>2, <1>3 DEF Inv

\* Every step of create_entity keeps the types and the manager's invariants.
LEMMA LoaderStep ==
  ASSUME TypeOK, RoomInv, SlotInv, Loader
  PROVE  TypeOK' /\ RoomInv' /\ SlotInv'
<1> USE ManagerAssumption
        DEF TypeOK, RoomInv, SlotInv, Promised, Created, managerVars, loaderVars, readerVars
<1>1. CASE Create
  BY <1>1 DEF Create, Full
<1>2. CASE Realloc
  <2>1. TypeOK'
    <3>1. live' \in Nat /\ live <= live' /\ room' \in Nat \ {0}
      BY <1>2 DEF Realloc
    <3>2. realloc_failed' \in BOOLEAN
      BY <1>2 DEF Realloc
    <3>3. array \in 0..live' /\ entities \in 0..live'
      BY <3>1
    <3> QED
      BY <1>2, <3>1, <3>2, <3>3 DEF Realloc
  <2>2. RoomInv'
    BY <1>2 DEF Realloc
  <2>3. SlotInv'
    BY <1>2 DEF Realloc
  <2> QED
    BY <2>1, <2>2, <2>3
<1>3. CASE Attach
  BY <1>3 DEF Attach
<1>4. CASE MallocEntity
  BY <1>4 DEF MallocEntity
<1>5. CASE Publish
  BY <1>5 DEF Publish
<1>6. CASE Store
  BY <1>6 DEF Store
<1> QED
  BY <1>1, <1>2, <1>3, <1>4, <1>5, <1>6 DEF Loader

\* Every step of a search keeps the types and leaves the manager alone.
LEMMA ReaderStep ==
  ASSUME TypeOK, RoomInv, SlotInv, SearchInv, Reader
  PROVE  TypeOK' /\ RoomInv' /\ SlotInv'
<1> USE ManagerAssumption
        DEF TypeOK, RoomInv, SlotInv, SearchInv, Promised, Created, managerVars, loaderVars,
            readerVars
<1>1. CASE Search
  BY <1>1 DEF Search
<1>2. CASE TestIndex
  BY <1>2 DEF TestIndex
<1>3. CASE LoadArray
  BY <1>3 DEF LoadArray
<1>4. CASE DerefSlot
  BY <1>4 DEF DerefSlot
<1>5. CASE Return
  BY <1>5 DEF Return
<1> QED
  BY <1>1, <1>2, <1>3, <1>4, <1>5 DEF Reader

\* Every step of create_entity keeps what is known of a search: the first one
\* marks it as overlapped, and none takes a written slot away.
LEMMA LoaderKeepsSearch ==
  ASSUME TypeOK, RoomInv, SlotInv, SearchInv, OwedInv, Defined, Loader
  PROVE  SearchInv' /\ OwedInv'
<1> USE ManagerAssumption
        DEF TypeOK, RoomInv, SlotInv, SearchInv, OwedInv, WildHasCause, Defined, Promised,
            Created, managerVars, loaderVars, readerVars
<1>1. CASE Create
  BY <1>1 DEF Create, Full
<1>2. CASE Realloc
  BY <1>2 DEF Realloc
<1>3. CASE Attach
  BY <1>3 DEF Attach
<1>4. CASE MallocEntity
  BY <1>4 DEF MallocEntity
<1>5. CASE Publish
  BY <1>5 DEF Publish
<1>6. CASE Store
  BY <1>6 DEF Store
<1> QED
  BY <1>1, <1>2, <1>3, <1>4, <1>5, <1>6 DEF Loader

\* Every step of a search keeps what is known of it.
LEMMA ReaderKeepsSearch ==
  ASSUME TypeOK, RoomInv, SlotInv, SearchInv, OwedInv, Reader
  PROVE  SearchInv' /\ OwedInv'
<1> USE ManagerAssumption
        DEF TypeOK, RoomInv, SlotInv, SearchInv, OwedInv, WildHasCause, Defined, Promised,
            Created, managerVars, loaderVars, readerVars
<1>1. CASE Search
  <2>1. reader' = "test" /\ i' = 1 /\ want' \in 1..MaxCalls
    BY <1>1 DEF Search
  <2>2. UNCHANGED <<slots, count, loader, live>>
    BY <1>1 DEF Search
  <2>3. SearchInv'
    <3>1. ~overlapped' => loader' = "idle"
      BY ONLY <1>1, Zenon DEF Search, loaderVars
    <3> QED
      BY ONLY <2>1, <3>1 DEF SearchInv, WildHasCause
  <2>4. ASSUME owed' PROVE \E s \in 1..Promised : slots[s] = want'
    <3>1. PICK s \in 1..count : slots[s] = want'
      BY <1>1, <2>4 DEF Search
    <3>2. s \in 1..Promised
      BY <2>1, <3>1
    <3> QED
      BY <3>1, <3>2
  <2>5. want' # 0 /\ Promised' = Promised
    BY <2>1, <2>2
  <2>6. OwedInv'
    BY <2>1, <2>2, <2>4, <2>5 DEF OwedInv
  <2> QED
    BY <2>3, <2>6
<1>2. CASE TestIndex
  BY <1>2 DEF TestIndex
<1>3. CASE LoadArray
  BY <1>3 DEF LoadArray
<1>4. CASE DerefSlot
  <2>1. CASE reader' = "wild"
    BY <1>4, <2>1 DEF DerefSlot
  <2>2. CASE reader' = "found"
    BY <1>4, <2>2 DEF DerefSlot
  <2>3. CASE reader' = "test" /\ i' = i + 1 /\ slots[i] # want
    <3>1. SearchInv'
      BY <1>4, <2>3 DEF DerefSlot
    <3>2. ASSUME owed PROVE \E s \in (i + 1)..Promised : slots[s] = want
      BY <1>4, <2>3, <3>2 DEF DerefSlot
    <3>3. OwedInv'
      BY <1>4, <2>3, <3>2 DEF DerefSlot
    <3> QED
      BY <3>1, <3>3
  <2> QED
    BY <1>4, <2>1, <2>2, <2>3 DEF DerefSlot
<1>5. CASE Return
  BY <1>5 DEF Return
<1> QED
  BY <1>1, <1>2, <1>3, <1>4, <1>5 DEF Reader

\* Every step of loader and reader keeps the invariant.
LEMMA Step == Inv /\ [Next]_vars => Inv'
<1> SUFFICES ASSUME Inv, [Next]_vars PROVE Inv'
  OBVIOUS
<1>1. CASE Defined /\ Loader
  BY <1>1, LoaderStep, LoaderKeepsSearch DEF Inv
<1>2. CASE Reader
  BY <1>2, ReaderStep, ReaderKeepsSearch DEF Inv
<1>3. CASE UNCHANGED vars
  BY <1>3 DEF vars, managerVars, loaderVars, readerVars, Inv, TypeOK, RoomInv, SlotInv, SearchInv,
              OwedInv, WildHasCause, Promised
<1> QED
  BY <1>1, <1>2, <1>3 DEF Next

\* What the theorems below are read from.
LEMMA Inductive == Spec => []Inv
  BY Initially, Step, PTL DEF Spec

-----------------------------------------------------------------------------

\* The manager's fields and the search keep their types.
THEOREM TypeCorrect == Spec => []TypeOK
<1>1. Inv => TypeOK
  BY DEF Inv
<1> QED
  BY <1>1, Inductive, PTL

\* Only a failed realloc lets create_entity store outside its array.
THEOREM StoreSafe == Spec => []OverflowNeedsFailure
<1>1. Inv => OverflowNeedsFailure
  BY DEF Inv, RoomInv, TypeOK, OverflowNeedsFailure
<1> QED
  BY <1>1, Inductive, PTL

\* Only an overlapping create_entity, or a door create_door had no memory for,
\* lets find_door_by_id follow a pointer that is freed, NULL or was never
\* written.
THEOREM SearchSafe == Spec => []WildHasCause
<1>1. Inv => WildHasCause
  BY DEF Inv, SearchInv
<1> QED
  BY <1>1, Inductive, PTL

\* find_door_by_id finds what was in the list when it was called.
THEOREM SearchFinds == Spec => []SearchComplete
<1>1. Inv => SearchComplete
  BY DEF Inv, OwedInv, SearchComplete
<1> QED
  BY <1>1, Inductive, PTL

\* create_entity implements EntityList: what its callers are promised is only
\* ever appended to, by Store, whose entity takes the slot count has just
\* reached; growing, moving or failing to grow changes nothing of the list.
THEOREM ListKept == Spec => ImplementsList
<1> DEFINE list == [s \in 1..Promised |-> slots[s]]
<1>1. Init => List!Init
  BY DEF Init, List!Init, Promised
<1>2. ASSUME Inv, [Next]_vars
      PROVE  [List!Next]_list
  <2>1. CASE UNCHANGED slots /\ Promised' = Promised
    BY ONLY <2>1
  <2>2. CASE Store
    <3>1. loader = "store" /\ count \in 1..MaxCalls /\ calls \in Created /\ Promised = count - 1
      BY <1>2, <2>2, ManagerAssumption DEF Inv, TypeOK, RoomInv, SlotInv, Store, Promised, Created
    <3>2. CASE count <= room
      <4>1. slots' = [slots EXCEPT ![count] = calls] /\ Promised' = count
        BY <2>2, <3>2 DEF Store, Promised
      <4>2. slots \in [Created -> 0..MaxCalls] /\ MaxCalls \in Nat
        BY <1>2, ManagerAssumption DEF Inv, TypeOK
      <4>3. list' = Append(list, calls)
        <5>1. list' = [s \in 1..count |-> slots'[s]]
          BY ONLY <4>1
        <5>2. list = [s \in 1..(count - 1) |-> slots[s]]
          BY ONLY <3>1
        <5>3. \A s \in 1..(count - 1) : slots'[s] = slots[s]
          BY ONLY <3>1, <4>1, <4>2 DEF Created
        <5>4. slots'[count] = calls
          BY ONLY <3>1, <4>1, <4>2 DEF Created
        <5>5. list \in Seq(0..MaxCalls) /\ Len(list) = count - 1
          BY ONLY <3>1, <4>2, <5>2 DEF Created
        <5> HIDE DEF list
        <5> QED
          BY ONLY <3>1, <5>1, <5>2, <5>3, <5>4, <5>5
      <4> QED
        BY <3>1, <4>3 DEF List!Next, List!Create
    <3>3. CASE ~(count <= room)
      <4>1. UNCHANGED slots /\ Promised' = Promised
        BY <2>2, <3>1, <3>3 DEF Store, Promised
      <4> QED
        BY <2>1, <4>1
    <3> QED
      BY <3>2, <3>3
  <2>3. CASE Create \/ Realloc \/ Attach \/ MallocEntity
    <3>1. /\ loader \notin {"store", "overflow"} /\ loader' \notin {"store", "overflow"}
          /\ UNCHANGED <<slots, count>>
      <4>1. CASE Create
        BY ONLY <4>1 DEF Create
      <4>2. CASE Realloc
        BY ONLY <4>2 DEF Realloc
      <4>3. CASE Attach
        BY ONLY <4>3 DEF Attach
      <4>4. CASE MallocEntity
        BY ONLY <4>4 DEF MallocEntity, managerVars
      <4> QED
        BY <2>3, <4>1, <4>2, <4>3, <4>4
    <3>2. UNCHANGED slots /\ Promised' = Promised
      BY ONLY <3>1 DEF Promised
    <3> QED
      BY <2>1, <3>2
  <2>4. CASE Publish
    <3>1. UNCHANGED slots /\ Promised' = Promised
      BY <1>2, <2>4 DEF Inv, TypeOK, Publish, Promised
    <3> QED
      BY <2>1, <3>1
  <2>5. CASE Reader \/ UNCHANGED vars
    <3>1. UNCHANGED slots /\ Promised' = Promised
      BY <2>5 DEF Reader, Search, TestIndex, LoadArray, DerefSlot, Return, vars, managerVars,
                  loaderVars, Promised
    <3> QED
      BY <2>1, <3>1
  <2> QED
    BY <1>2, <2>2, <2>3, <2>4, <2>5 DEF Next, Loader
<1> QED
  BY <1>1, <1>2, Inductive, PTL DEF Spec, List!Spec, ImplementsList
=============================================================================
