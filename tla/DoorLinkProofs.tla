--------------------------- MODULE DoorLinkProofs ---------------------------
(***************************************************************************)
(* The door topic keeps its order, for any number of runs and doors and    *)
(* any number of lost connections.                                         *)
(***************************************************************************)
EXTENDS DoorLink, SequenceTheorems, TLAPS

\* A connection holds a run's packets only while the broker has that run's
\* session, and a run that has yet to publish has no number.
RunInv ==
  /\ \A i \in Runs : stamp[i] <= sent
  /\ \A i \in Runs : run[i] # "gone" => stamp[i] = 0
  /\ \A i \in Runs : "CONNECT" \in unread[i] => run[i] = "connecting"
  /\ \A i \in Runs : "PUBLISH" \in unread[i] \/ "DISCONNECT" \in unread[i]
                       => session = i /\ run[i] = "gone"

\* Numbers grow from what was acted on, over what is on its way, to what the
\* broker has yet to read.
OrderInv ==
  /\ \A i \in Runs : "PUBLISH" \in unread[i] =>
       /\ last < stamp[i]
       /\ \A k \in 1..Len(relayed) : stamp[relayed[k]] < stamp[i]
  /\ \A k \in 1..Len(relayed) : run[relayed[k]] = "gone" /\ last < stamp[relayed[k]]
  /\ \A j, k \in 1..Len(relayed) : j < k => stamp[relayed[j]] < stamp[relayed[k]]

\* The doors against what was acted on, of which the last has the highest number.
ActedInv ==
  /\ \A i \in acted : run[i] = "gone" /\ stamp[i] <= last
  /\ DoorsAsTold

Inv == TypeOK /\ RunInv /\ OrderInv /\ ActedInv

-----------------------------------------------------------------------------

\* Before anything has connected there is nothing on its way.
LEMMA Initially == Init => Inv
<1> SUFFICES ASSUME Init PROVE Inv
  OBVIOUS
<1> USE LinkAssumption DEF Init
<1>1. TypeOK
  <2>1. relayed \in Seq(Runs) /\ acted \subseteq Runs /\ last \in 0..sent /\ losses \in 0..MaxLosses
    OBVIOUS
  <2>2. unread \in [Runs -> SUBSET {"CONNECT", "PUBLISH", "DISCONNECT"}] /\ session = Nobody
    OBVIOUS
  <2> QED
    BY <2>1, <2>2 DEF TypeOK
<1>2. RunInv /\ OrderInv
  BY DEF RunInv, OrderInv
<1>3. ActedInv
  BY DEF ActedInv, DoorsAsTold
<1> QED
  BY <1>1, <1>2, <1>3 DEF Inv

\* The doors stay as told where nothing is acted on and no stamp of what was
\* acted on changes.
LEMMA ActedStep ==
  ASSUME ActedInv, UNCHANGED <<acted, last, is_open>>,
         \A i \in acted : run'[i] = run[i] /\ stamp'[i] = stamp[i]
  PROVE  ActedInv'
BY DEF ActedInv, DoorsAsTold

\* What client.c does.
LEMMA GuestStep ==
  ASSUME Inv, NEW i \in Runs, Guest(i)
  PROVE  Inv'
<1> USE LinkAssumption DEF Inv, TypeOK, watchVars, gameVars
<1>1. CASE Connect(i) \/ ConnectFails(i)
  <2>1. /\ run[i] # "gone"
        /\ stamp' = stamp /\ sent' = sent /\ session' = session
        /\ UNCHANGED <<watchVars, gameVars>>
    BY <1>1 DEF Connect, ConnectFails
  <2>2. /\ \A j \in Runs : j # i => run'[j] = run[j] /\ unread'[j] = unread[j]
        /\ unread'[i] \subseteq {"CONNECT"}
        /\ "CONNECT" \in unread'[i] => run'[i] = "connecting"
        /\ run' \in [Runs -> {"shell", "connecting", "connected", "gone"}]
        /\ unread' \in [Runs -> SUBSET {"CONNECT", "PUBLISH", "DISCONNECT"}]
    <3>1. CASE Connect(i)
      BY <3>1 DEF Connect
    <3>2. CASE ConnectFails(i)
      BY <3>2 DEF ConnectFails
    <3> QED
      BY <1>1, <3>1, <3>2
  <2>3. TypeOK'
    BY <2>1, <2>2
  <2>4. RunInv'
    <3>1. \A j \in Runs : "PUBLISH" \in unread'[j] \/ "DISCONNECT" \in unread'[j]
                           => session' = j /\ run'[j] = "gone"
      <4> SUFFICES ASSUME NEW j \in Runs, "PUBLISH" \in unread'[j] \/ "DISCONNECT" \in unread'[j]
                   PROVE  session = j /\ run'[j] = "gone"
        BY <2>1
      <4>1. j # i
        BY <2>2
      <4> QED
        BY <2>2, <4>1 DEF RunInv
    <3>2. \A j \in Runs : run'[j] # "gone" => stamp'[j] = 0
      <4> SUFFICES ASSUME NEW j \in Runs, run'[j] # "gone" PROVE stamp[j] = 0
        BY <2>1
      <4>1. run[j] # "gone"
        BY <2>1, <2>2
      <4> QED
        BY <4>1 DEF RunInv
    <3>3. \A j \in Runs : "CONNECT" \in unread'[j] => run'[j] = "connecting"
      BY <2>2 DEF RunInv
    <3> QED
      BY <2>1, <3>1, <3>2, <3>3 DEF RunInv
  <2>5. OrderInv'
    BY <2>1, <2>2 DEF OrderInv
  <2>6. ActedInv'
    BY <2>1, <2>2, ActedStep DEF ActedInv
  <2> QED
    BY <2>3, <2>4, <2>5, <2>6
<1>2. CASE Publish(i)
  <2>1. /\ run[i] = "connected" /\ run' = [run EXCEPT ![i] = "gone"]
        /\ sent' = sent + 1 /\ stamp' = [stamp EXCEPT ![i] = sent + 1]
        /\ session' = session /\ UNCHANGED <<watchVars, gameVars>>
    BY <1>2 DEF Publish
  <2>2. /\ \A j \in Runs : j # i => unread'[j] = unread[j]
        /\ unread'[i] \subseteq {"PUBLISH", "DISCONNECT"}
        /\ unread'[i] # {} => session = i
        /\ unread' \in [Runs -> SUBSET {"CONNECT", "PUBLISH", "DISCONNECT"}]
    BY <1>2 DEF Publish
  <2>9. /\ \A j \in Runs : run'[j] = IF j = i THEN "gone" ELSE run[j]
        /\ \A j \in Runs : stamp'[j] = IF j = i THEN sent + 1 ELSE stamp[j]
        /\ run' \in [Runs -> {"shell", "connecting", "connected", "gone"}]
        /\ stamp' \in [Runs -> Nat] /\ sent' \in Nat /\ last \in 0..sent'
    BY <2>1
  <2>3. TypeOK'
    BY <2>1, <2>2, <2>9
  <2>4. RunInv'
    <3>1. \A j \in Runs : "PUBLISH" \in unread'[j] \/ "DISCONNECT" \in unread'[j]
                           => session' = j /\ run'[j] = "gone"
      BY <2>1, <2>2, <2>9 DEF RunInv
    <3>2. \A j \in Runs : "CONNECT" \in unread'[j] => run'[j] = "connecting"
      <4> SUFFICES ASSUME NEW j \in Runs, "CONNECT" \in unread'[j] PROVE run'[j] = "connecting"
        OBVIOUS
      <4>1. j # i
        BY <2>2
      <4> QED
        BY <2>2, <2>9, <4>1 DEF RunInv
    <3> QED
      BY <2>1, <2>9, <3>1, <3>2 DEF RunInv
  <2>5. \A k \in 1..Len(relayed) : relayed[k] \in Runs /\ relayed[k] # i
    BY <2>1 DEF OrderInv
  <2>6. OrderInv'
    <3>1. \A j \in Runs : "PUBLISH" \in unread'[j] =>
            /\ last < stamp'[j]
            /\ \A k \in 1..Len(relayed) : stamp[relayed[k]] < stamp'[j]
      <4>1. /\ last < sent + 1
            /\ \A k \in 1..Len(relayed) : stamp[relayed[k]] < sent + 1
        BY <2>5 DEF RunInv
      <4>2. \A j \in Runs : j # i => unread'[j] = unread[j] /\ stamp'[j] = stamp[j]
        BY <2>2, <2>9
      <4>3. stamp'[i] = sent + 1
        BY <2>9
      <4> SUFFICES ASSUME NEW j \in Runs, "PUBLISH" \in unread'[j]
                   PROVE  /\ last < stamp'[j]
                          /\ \A k \in 1..Len(relayed) : stamp[relayed[k]] < stamp'[j]
        OBVIOUS
      <4>4. CASE j = i
        BY <4>1, <4>3, <4>4
      <4>5. CASE j # i
        BY <4>2, <4>5 DEF OrderInv
      <4> QED
        BY <4>4, <4>5
    <3>2. \A k \in 1..Len(relayed) :
            run'[relayed[k]] = run[relayed[k]] /\ stamp'[relayed[k]] = stamp[relayed[k]]
      BY <2>5, <2>9
    <3>3. relayed' = relayed /\ last' = last
      BY <2>1
    <3> QED
      BY <3>1, <3>2, <3>3, <2>5 DEF OrderInv
  <2>7. ActedInv'
    <3>1. i \notin acted
      BY <2>1 DEF ActedInv
    <3> QED
      BY <2>1, <3>1, ActedStep
  <2> QED
    BY <2>3, <2>4, <2>6, <2>7
<1> QED
  BY <1>1, <1>2 DEF Guest

\* What the broker does with the runs' connections, and the file task.
LEMMA BrokerStep ==
  ASSUME Inv, FileTask \/ \E i \in Runs : AcceptRun(i) \/ CloseRun(i)
  PROVE  Inv'
<1> USE LinkAssumption DEF Inv, TypeOK, guestVars, watchVars, gameVars, Watcher, Nobody
<1>1. /\ \A i \in Runs : unread'[i] \subseteq unread[i]
      /\ \A i \in Runs : "CONNECT" \in unread'[i] => run'[i] = run[i]
      /\ \A i \in Runs : "PUBLISH" \in unread'[i] \/ "DISCONNECT" \in unread'[i] => session' = i
      /\ \A i \in Runs : run'[i] = run[i] \/ (run[i] # "gone" /\ run'[i] # "gone")
      /\ UNCHANGED <<stamp, sent, gameVars>>
      /\ TypeOK'
  <2>1. CASE StartWatcher \/ CreateFile \/ FindFile
    BY <2>1 DEF StartWatcher, CreateFile, FindFile, RunInv
  <2>2. CASE WatcherDisconnects \/ DropWatcher
    BY <2>2 DEF WatcherDisconnects, DropWatcher, RunInv
  <2>3. CASE AcceptWatcher
    BY <2>3 DEF AcceptWatcher, TakeOver, RunInv
  <2>4. CASE \E i \in Runs : AcceptRun(i)
    BY <2>4 DEF AcceptRun, TakeOver, RunInv
  <2>5. CASE \E i \in Runs : CloseRun(i)
    BY <2>5 DEF CloseRun, RunInv
  <2> QED
    BY <2>1, <2>2, <2>3, <2>4, <2>5 DEF FileTask
<1>2. RunInv'
  BY <1>1 DEF RunInv
<1>3. OrderInv'
  BY <1>1 DEF OrderInv
<1>4. ActedInv'
  BY <1>1, ActedStep DEF ActedInv
<1> QED
  BY <1>1, <1>2, <1>3, <1>4

\* The broker relays a message, or finds nobody to relay it to.
LEMMA RelayStep ==
  ASSUME Inv, NEW i \in Runs, Relay(i)
  PROVE  Inv'
<1> USE LinkAssumption DEF Inv, TypeOK, guestVars, watchVars, Relay
<1>1. /\ "PUBLISH" \in unread[i] /\ session = i /\ run[i] = "gone"
      /\ \A j \in Runs : j # i => unread'[j] = unread[j]
      /\ unread'[i] \subseteq unread[i] /\ "PUBLISH" \notin unread'[i]
      /\ unread' \in [Runs -> SUBSET {"CONNECT", "PUBLISH", "DISCONNECT"}]
  BY DEF RunInv
<1>2. UNCHANGED <<run, stamp, sent, session, watch, file, link, topic, acted, last, is_open, losses>>
  OBVIOUS
<1>3. /\ relayed' \in Seq(Runs)
      /\ \A k \in 1..Len(relayed') :
           \/ k \in 1..Len(relayed) /\ relayed'[k] = relayed[k]
           \/ k = Len(relayed) + 1 /\ relayed'[k] = i
  <2>1. CASE topic
    <3>1. relayed' = Append(relayed, i)
      BY <2>1
    <3> QED
      BY <3>1, AppendProperties
  <2>2. CASE ~topic
    BY <2>2
  <2> QED
    BY <2>1, <2>2
<1>4. TypeOK'
  BY <1>1, <1>2, <1>3
<1>5. RunInv'
  BY <1>1, <1>2 DEF RunInv
<1>6. OrderInv'
  <2>1. \A j \in Runs : "PUBLISH" \notin unread'[j]
    BY <1>1 DEF RunInv
  <2>2. \A k \in 1..Len(relayed') : run[relayed'[k]] = "gone" /\ last < stamp[relayed'[k]]
    BY <1>1, <1>3 DEF OrderInv
  <2>3. \A j, k \in 1..Len(relayed') : j < k => stamp[relayed'[j]] < stamp[relayed'[k]]
    <3> SUFFICES ASSUME NEW j \in 1..Len(relayed'), NEW k \in 1..Len(relayed'), j < k
                 PROVE  stamp[relayed'[j]] < stamp[relayed'[k]]
      OBVIOUS
    <3>1. Len(relayed) \in Nat /\ j \in 1..Len(relayed) /\ relayed'[j] = relayed[j]
      BY <1>3
    <3>2. CASE k \in 1..Len(relayed) /\ relayed'[k] = relayed[k]
      BY <3>1, <3>2 DEF OrderInv
    <3>3. CASE relayed'[k] = i
      BY <1>1, <3>1, <3>3 DEF OrderInv
    <3> QED
      BY <1>3, <3>2, <3>3
  <2>4. run' = run /\ stamp' = stamp /\ last' = last
    BY <1>2
  <2>5. /\ \A j \in Runs : "PUBLISH" \in unread'[j] =>
             /\ last' < stamp'[j]
             /\ \A k \in 1..Len(relayed') : stamp'[relayed'[k]] < stamp'[j]
        /\ \A k \in 1..Len(relayed') :
             run'[relayed'[k]] = "gone" /\ last' < stamp'[relayed'[k]]
        /\ \A j, k \in 1..Len(relayed') :
             j < k => stamp'[relayed'[j]] < stamp'[relayed'[k]]
    BY ONLY <2>1, <2>2, <2>3, <2>4
  <2> QED
    BY ONLY <2>5 DEF OrderInv
<1>7. ActedInv'
  BY <1>2, ActedStep DEF ActedInv
<1> QED
  BY <1>4, <1>5, <1>6, <1>7

\* What the MQTT client's threads do, the delivery of a message apart.
LEMMA LinkStep ==
  ASSUME Inv,
         GameConnects \/ GameRefused \/ Subscribe \/ LoseConnection
           \/ \E accepted \in BOOLEAN : Reconnect(accepted)
  PROVE  Inv'
<1> USE LinkAssumption DEF Inv, TypeOK, guestVars, watchVars
<1>1. /\ UNCHANGED <<guestVars, unread, session, watchVars, acted, last, is_open>>
      /\ relayed' = relayed \/ relayed' = <<>>
      /\ link' \in {"connecting", "subscribing", "up", "lost", "exit"}
      /\ topic' \in BOOLEAN /\ losses' \in 0..MaxLosses
  <2>1. CASE GameConnects \/ GameRefused \/ Subscribe
    BY <2>1 DEF GameConnects, GameRefused, Subscribe, GameLink
  <2>2. CASE LoseConnection
    <3>1. losses + 1 \in 0..MaxLosses
      BY <2>2 DEF LoseConnection
    <3> QED
      BY <2>2, <3>1 DEF LoseConnection, GameLink
  <2>3. CASE \E accepted \in BOOLEAN : Reconnect(accepted)
    BY <2>3 DEF Reconnect, GameLink
  <2> QED
    BY <2>1, <2>2, <2>3
<1>2. TypeOK'
  <2>1. relayed' \in Seq(Runs)
    <3>1. <<>> \in Seq(Runs)
      BY ONLY EmptySeq
    <3>2. relayed \in Seq(Runs)
      OBVIOUS
    <3> QED
      BY ONLY <1>1, <3>1, <3>2
  <2> QED
    BY <1>1, <2>1
<1>5. RunInv'
  BY <1>1 DEF RunInv
<1>3. OrderInv'
  <2>1. OrderInv /\ UNCHANGED <<run, stamp, unread, last>>
    BY <1>1
  <2>2. CASE relayed' = relayed
    BY ONLY <2>1, <2>2 DEF OrderInv
  <2>3. CASE relayed' = <<>>
    <3>1. 1..Len(relayed') = {}
      BY ONLY <2>3
    <3> QED
      BY ONLY <2>1, <3>1 DEF OrderInv
  <2> QED
    BY <1>1, <2>2, <2>3
<1>4. ActedInv'
  BY <1>1, ActedStep DEF ActedInv
<1> QED
  BY <1>2, <1>3, <1>4, <1>5

\* What a delivery takes: the first of the messages on their way, whose
\* number is the lowest of those that are left.
LEMMA Delivery ==
  ASSUME Inv, MessageArrived
  PROVE  LET i == Head(relayed)
         IN /\ i \in Runs /\ run[i] = "gone"
            /\ last < stamp[i] /\ stamp[i] <= sent
            /\ relayed' \in Seq(Runs)
            /\ \A k \in 1..Len(relayed') :
                 /\ k + 1 \in 1..Len(relayed) /\ relayed'[k] = relayed[k + 1]
                 /\ stamp[i] < stamp[relayed'[k]]
            /\ \A j \in Runs : "PUBLISH" \in unread[j] => stamp[i] < stamp[j]
<1> USE DEF Inv, TypeOK
<1>1. /\ relayed # <<>> /\ Len(relayed) \in Nat /\ Len(relayed) >= 1
      /\ Head(relayed) = relayed[1] /\ Head(relayed) \in Runs
  BY HeadTailProperties, EmptySeq DEF MessageArrived
<1>2. /\ relayed' = Tail(relayed) /\ relayed' \in Seq(Runs)
      /\ Len(relayed') = Len(relayed) - 1
      /\ \A k \in 1..Len(relayed') : relayed'[k] = relayed[k + 1]
  BY <1>1, HeadTailProperties DEF MessageArrived
<1>3. 1 \in 1..Len(relayed)
  BY <1>1
<1>4. \A k \in 1..Len(relayed') : k + 1 \in 1..Len(relayed) /\ 1 < k + 1
  BY <1>1, <1>2
<1>5. \A k \in 1..Len(relayed') : stamp[relayed[1]] < stamp[relayed[k + 1]]
  BY <1>3, <1>4 DEF OrderInv
<1>6. /\ run[relayed[1]] = "gone" /\ last < stamp[relayed[1]]
      /\ \A j \in Runs : "PUBLISH" \in unread[j] => stamp[relayed[1]] < stamp[j]
  BY <1>3 DEF OrderInv
<1> QED
  BY <1>1, <1>2, <1>4, <1>5, <1>6 DEF RunInv

\* Acting on the first message on its way: it has the lowest number there, and
\* a higher one than any acted on before.
LEMMA ArrivedStep ==
  ASSUME Inv, MessageArrived
  PROVE  Inv'
<1> DEFINE i == Head(relayed)
<1> USE LinkAssumption DEF Inv, TypeOK, guestVars, watchVars
<1>1. /\ i \in Runs /\ run[i] = "gone"
      /\ last < stamp[i] /\ stamp[i] <= sent
      /\ relayed' \in Seq(Runs)
      /\ \A k \in 1..Len(relayed') :
           /\ k + 1 \in 1..Len(relayed) /\ relayed'[k] = relayed[k + 1]
           /\ stamp[i] < stamp[relayed'[k]]
      /\ \A j \in Runs : "PUBLISH" \in unread[j] => stamp[i] < stamp[j]
  BY Delivery
<1>2. PICK reading \in Readings(i) :
        is_open' = IF reading.door \in Doors
                   THEN [is_open EXCEPT ![reading.door] = reading.open]
                   ELSE is_open
  BY DEF MessageArrived
<1>3. /\ acted' = acted \cup {i} /\ last' = stamp[i]
      /\ UNCHANGED <<run, stamp, sent, unread, session, watch, file, link, topic, losses>>
  BY DEF MessageArrived, GameLink
<1>4. Command[i].door \in Int /\ Command[i].open \in BOOLEAN
  BY <1>1
<1>5. /\ reading.open \in BOOLEAN
      /\ i \notin Garbled => /\ reading.door = Command[i].door
                             /\ Command[i].open => reading.open
  <2>1. CASE i \in Garbled
    BY <1>1, <1>2, <1>4, <2>1 DEF Readings
  <2>2. CASE i \notin Garbled
    <3>1. reading = Command[i] \/ reading = [Command[i] EXCEPT !.open = TRUE]
      BY <2>2 DEF Readings
    <3>2. Command[i] \in [door : Int, open : BOOLEAN]
      BY <1>1
    <3> QED
      BY <1>1, <3>1, <3>2
  <2> QED
    BY <2>1, <2>2
<1>6. TypeOK'
  <2>1. is_open' \in [Doors -> BOOLEAN]
    BY <1>2, <1>5
  <2> QED
    BY <1>1, <1>3, <2>1
<1>7. RunInv'
  BY <1>3 DEF RunInv
<1>8. OrderInv'
  <2>1. \A k \in 1..Len(relayed') : run[relayed'[k]] = "gone"
    <3> SUFFICES ASSUME NEW k \in 1..Len(relayed') PROVE run[relayed'[k]] = "gone"
      OBVIOUS
    <3>1. k + 1 \in 1..Len(relayed) /\ relayed'[k] = relayed[k + 1]
      BY ONLY <1>1
    <3>2. \A n \in 1..Len(relayed) : run[relayed[n]] = "gone"
      BY DEF OrderInv
    <3> QED
      BY ONLY <3>1, <3>2
  <2>2. \A j \in Runs : "PUBLISH" \in unread[j] =>
          \A k \in 1..Len(relayed') : stamp[relayed'[k]] < stamp[j]
    BY <1>1 DEF OrderInv
  <2>3. \A j, k \in 1..Len(relayed') : j < k => stamp[relayed'[j]] < stamp[relayed'[k]]
    <3> SUFFICES ASSUME NEW j \in 1..Len(relayed'), NEW k \in 1..Len(relayed'), j < k
                 PROVE  stamp[relayed'[j]] < stamp[relayed'[k]]
      OBVIOUS
    <3>1. /\ j + 1 \in 1..Len(relayed) /\ k + 1 \in 1..Len(relayed)
          /\ relayed'[j] = relayed[j + 1] /\ relayed'[k] = relayed[k + 1]
      BY ONLY <1>1
    <3>2. j + 1 < k + 1
      OBVIOUS
    <3>3. \A m, n \in 1..Len(relayed) : m < n => stamp[relayed[m]] < stamp[relayed[n]]
      BY DEF OrderInv
    <3> QED
      BY ONLY <3>1, <3>2, <3>3
  <2> QED
    BY <1>1, <1>3, <2>1, <2>2, <2>3 DEF OrderInv
<1>9. ActedInv'
  <2>1. \A j \in acted' : run[j] = "gone" /\ stamp[j] <= stamp[i]
    BY <1>1, <1>3 DEF ActedInv
  <2>2. DoorsAsTold'
    <3> SUFFICES ASSUME acted' \cap Garbled = {}, NEW d \in Doors
                 PROVE  LET told == {j \in acted' : Command[j].door = d}
                        IN /\ told = {} => ~is_open'[d]
                           /\ \A j \in told : /\ Command[j].open
                                              /\ \A k \in told : stamp[k] <= stamp[j]
                                              => is_open'[d]
      BY <1>3 DEF DoorsAsTold
    <3> DEFINE before == {j \in acted : Command[j].door = d}
               told == {j \in acted' : Command[j].door = d}
    <3>1. /\ i \notin Garbled /\ acted \cap Garbled = {}
          /\ reading.door = Command[i].door
      BY <1>3, <1>5
    <3>2. /\ before = {} => ~is_open[d]
          /\ \A j \in before : /\ Command[j].open
                               /\ \A k \in before : stamp[k] <= stamp[j]
                               => is_open[d]
      BY <3>1 DEF ActedInv, DoorsAsTold
    <3>3. CASE Command[i].door = d
      <4>1. is_open'[d] = reading.open
        BY <1>2, <3>1, <3>3
      <4>2. i \in told
        BY <1>3, <3>3
      <4>3. ASSUME NEW j \in told, Command[j].open, \A k \in told : stamp[k] <= stamp[j]
            PROVE  j = i
        <5>1. stamp[i] <= stamp[j] /\ (j \in acted \/ j = i)
          BY <1>3, <4>2, <4>3
        <5>2. j \in acted => stamp[j] <= last /\ j \in Runs
          BY DEF ActedInv
        <5> QED
          BY <1>1, <5>1, <5>2
      <4> QED
        BY <1>5, <3>1, <4>1, <4>2, <4>3
    <3>4. CASE Command[i].door # d
      <4>1. told = before /\ is_open'[d] = is_open[d]
        BY <1>2, <1>3, <3>1, <3>4
      <4> QED
        BY <3>2, <4>1
    <3> QED
      BY <3>3, <3>4
  <2> QED
    BY <1>3, <2>1, <2>2 DEF ActedInv
<1> QED
  BY <1>6, <1>7, <1>8, <1>9

-----------------------------------------------------------------------------

\* Every step of guest, broker, file task and game keeps the invariant.
LEMMA NextStep == Inv /\ [Next]_vars => Inv'
<1> SUFFICES ASSUME Inv, [Next]_vars PROVE Inv'
  OBVIOUS
<1>1. CASE \E i \in Runs : Guest(i)
  BY <1>1, GuestStep
<1>2. CASE \E i \in Runs : AcceptRun(i) \/ CloseRun(i)
  BY <1>2, BrokerStep
<1>3. CASE \E i \in Runs : Relay(i)
  BY <1>3, RelayStep
<1>4. CASE FileTask
  BY <1>4, BrokerStep
<1>5. CASE Game
  BY <1>5, LinkStep, ArrivedStep DEF Game
<1>6. CASE UNCHANGED vars
  <2>1. UNCHANGED <<run, stamp, sent, unread, session, watch, file, link, topic, relayed,
                    acted, last, is_open, losses>>
    BY <1>6 DEF vars, guestVars, watchVars, gameVars
  <2>2. TypeOK'
    BY <2>1 DEF Inv, TypeOK
  <2>3. RunInv' /\ OrderInv'
    BY <2>1 DEF Inv, RunInv, OrderInv
  <2>4. ActedInv'
    BY <2>1, ActedStep DEF Inv
  <2> QED
    BY <2>2, <2>3, <2>4 DEF Inv
<1> QED
  BY <1>1, <1>2, <1>3, <1>4, <1>5, <1>6 DEF Next, Broker

\* What the theorems below are read from.
LEMMA Inductive == Spec => []Inv
BY Initially, NextStep, PTL DEF Spec

\* The variables keep their types; the number of the message acted on last is
\* that of a message that was published.
THEOREM TypeCorrect == Spec => []TypeOK
<1>1. Inv => TypeOK
  BY DEF Inv
<1> QED
  BY <1>1, Inductive, PTL

\* The doors follow the commands that were acted on, however many runs of
\* client.c there were and whichever of their messages were lost.
THEOREM DoorsFollow == Spec => []DoorsAsTold
<1>1. Inv => DoorsAsTold
  BY DEF Inv, ActedInv
<1> QED
  BY <1>1, Inductive, PTL

\* Every step of the runs, the broker and the game is a step of the channel
\* that loses messages, and never repeats or reorders them, or none at all.
THEOREM Refines == Spec => ImplementsMessages
<1>1. Init => Messages!Init
  BY DEF Init, Messages!Init
<1>2. ASSUME Inv, [Next]_vars
      PROVE  [Messages!Next]_<<sent, last>>
  <2> USE DEF guestVars, watchVars, gameVars
  <2>1. CASE \E i \in Runs : Connect(i) \/ ConnectFails(i) \/ Broker(i)
    BY <2>1 DEF Connect, ConnectFails, Broker, AcceptRun, Relay, CloseRun
  <2>2. CASE \E i \in Runs : Publish(i)
    BY <2>2 DEF Publish, Messages!Next, Messages!Publish
  <2>3. CASE FileTask
    BY <2>3 DEF FileTask, StartWatcher, CreateFile, FindFile, WatcherDisconnects,
                AcceptWatcher, DropWatcher
  <2>4. CASE Game /\ ~MessageArrived
    BY <2>4 DEF Game, GameLink, GameConnects, GameRefused, Subscribe, LoseConnection, Reconnect
  <2>5. CASE MessageArrived
    <3>1. last' = stamp[Head(relayed)] /\ sent' = sent
      BY <2>5 DEF MessageArrived, GameLink
    <3>2. /\ Head(relayed) \in Runs
          /\ last < stamp[Head(relayed)] /\ stamp[Head(relayed)] <= sent
      BY <1>2, <2>5, Delivery
    <3>3. last \in Nat /\ sent \in Nat /\ stamp[Head(relayed)] \in Nat
      BY <1>2, <3>2 DEF Inv, TypeOK
    <3>4. last' \in (last + 1)..sent
      BY <3>1, <3>2, <3>3
    <3> QED
      BY <3>1, <3>4 DEF Messages!Next, Messages!Arrive
  <2>6. CASE UNCHANGED vars
    BY <2>6 DEF vars
  <2> QED
    BY <1>2, <2>1, <2>2, <2>3, <2>4, <2>5, <2>6 DEF Next, Guest, Broker
<1> QED
  BY <1>1, <1>2, Inductive, PTL DEF Spec, Messages!Spec, ImplementsMessages
=============================================================================
