------------------------------ MODULE DoorLink ------------------------------
(***************************************************************************)
(* The door topic, from a command in the emulator's console to the door:   *)
(* runs of the guest program client.c, each with a connection of its own,  *)
(* the broker, and the game's MQTT callbacks.  The tutorial's background   *)
(* program, client-copy.c, connects under the same client id.              *)
(*                                                                         *)
(* Every connection keeps its order; nothing orders one connection against *)
(* another.  What the broker does is external: it closes the connection    *)
(* whose client id connects again, unread packets included, and relays a   *)
(* QoS 0 message to a subscriber of the moment or to nobody.               *)
(***************************************************************************)
EXTENDS Integers, Sequences

CONSTANTS Runs,       \* the runs of client.c
          Doors,      \* the doors of the level, by id
          Command,    \* the two arguments of each run: a door and 1 or 0
          Garbled,    \* the runs whose arguments are not two numbers
          MaxLosses   \* bound: how often the game's connection breaks

ASSUME LinkAssumption ==
  /\ Command \in [Runs -> [door : Int, open : BOOLEAN]]
  /\ Garbled \subseteq Runs
  /\ Doors \subseteq Int
  /\ MaxLosses \in Nat
  /\ 0 \notin Runs /\ -1 \notin Runs

Nobody == 0
Watcher == -1  \* client-copy.c

VARIABLES run,      \* where each run is in client.c's main
          unread,   \* what the broker has yet to read of each connection
          session,  \* whose connection the broker has for "SimplePub"
          stamp,    \* the number of each run's publication, 0 for none
          sent,     \* how many runs have published
          watch,    \* where client-copy.c is
          file,     \* "file_to_create" exists
          link,     \* the game's connection
          topic,    \* the broker relays the door topic to it
          relayed,  \* the runs whose messages are on their way to msgarrvd
          acted,    \* the runs whose messages it has handled
          last,     \* the number of the last one
          is_open,  \* the doors
          losses

guestVars == <<run, stamp, sent>>
watchVars == <<watch, file>>
gameVars  == <<link, topic, relayed, acted, last, is_open, losses>>
vars == <<guestVars, unread, session, watchVars, gameVars>>

Init ==
  /\ run = [i \in Runs |-> "shell"]
  /\ unread = [i \in Runs |-> {}]
  /\ session = Nobody
  /\ stamp = [i \in Runs |-> 0]
  /\ sent = 0
  /\ watch = "shell" /\ file = FALSE
  /\ link = "connecting" /\ topic = FALSE
  /\ relayed = <<>>
  /\ acted = {} /\ last = 0
  /\ is_open = [d \in Doors |-> FALSE]
  /\ losses = 0

-----------------------------------------------------------------------------
(* client.c                                                                *)

\* MQTTClient_connect sends its CONNECT and waits for the answer.
Connect(i) ==
  /\ run[i] = "shell"
  /\ run' = [run EXCEPT ![i] = "connecting"]
  /\ unread' = [unread EXCEPT ![i] = {"CONNECT"}]
  /\ UNCHANGED <<stamp, sent, session, watchVars, gameVars>>

\* rc is an error: the program returns without publishing.
ConnectFails(i) ==
  /\ run[i] = "connecting"
  /\ run' = [run EXCEPT ![i] = "gone"]
  /\ unread' = [unread EXCEPT ![i] = {}]
  /\ UNCHANGED <<stamp, sent, session, watchVars, gameVars>>

\* The program leaves before it has published.
PublishForgotten(i) ==
  /\ run[i] = "connected"
  /\ run' = [run EXCEPT ![i] = "gone"]
  /\ unread' = [unread EXCEPT ![i] = IF session = i THEN {"DISCONNECT"} ELSE {}]
  /\ UNCHANGED <<stamp, sent, session, watchVars, gameVars>>

\* The message, then MQTTClient_disconnect: on a connection that the broker
\* has closed both go nowhere.
Publish(i) ==
  /\ run[i] = "connected"
  /\ run' = [run EXCEPT ![i] = "gone"]
  /\ sent' = sent + 1
  /\ stamp' = [stamp EXCEPT ![i] = sent + 1]
  /\ unread' = [unread EXCEPT ![i] = IF session = i THEN {"PUBLISH", "DISCONNECT"} ELSE {}]
  /\ UNCHANGED <<session, watchVars, gameVars>>

-----------------------------------------------------------------------------
(* client-copy.c                                                           *)

StartWatcher ==
  /\ watch = "shell"
  /\ watch' = "connecting"
  /\ UNCHANGED <<file, guestVars, unread, session, gameVars>>

\* The player's "touch file_to_create".
CreateFile ==
  /\ ~file
  /\ file' = TRUE
  /\ UNCHANGED <<watch, guestVars, unread, session, gameVars>>

\* The loop finds a regular file and breaks; what it was to publish stands
\* behind the break.
FindFile ==
  /\ watch = "watching" /\ file
  /\ watch' = "disconnecting"
  /\ UNCHANGED <<file, guestVars, unread, session, gameVars>>

WatcherDisconnects ==
  /\ watch = "disconnecting"
  /\ watch' = "gone"
  /\ session' = IF session = Watcher THEN Nobody ELSE session
  /\ UNCHANGED <<file, guestVars, unread, gameVars>>

-----------------------------------------------------------------------------
(* The broker (external)                                                   *)

\* The connection that had the client id is closed with all it holds.
TakeOver(client) ==
  /\ session' = client
  /\ unread' = [i \in Runs |-> IF i = client THEN {}
                               ELSE IF i = session THEN {}
                               ELSE unread[i]]

\* Every run has a client id of its own.
AcceptBeside(i) ==
  /\ "CONNECT" \in unread[i]
  /\ run' = [run EXCEPT ![i] = "connected"]
  /\ session' = i
  /\ unread' = [unread EXCEPT ![i] = {}]
  /\ UNCHANGED <<stamp, sent, watchVars, gameVars>>

AcceptRun(i) ==
  /\ "CONNECT" \in unread[i]
  /\ run' = [run EXCEPT ![i] = "connected"]
  /\ TakeOver(i)
  /\ UNCHANGED <<stamp, sent, watchVars, gameVars>>

AcceptWatcher ==
  /\ watch = "connecting"
  /\ watch' = "watching"
  /\ TakeOver(Watcher)
  /\ UNCHANGED <<file, guestVars, gameVars>>

\* client-copy.c sleeps in its loop and never answers for its connection, so
\* the keep-alive interval runs out.
DropWatcher ==
  /\ session = Watcher
  /\ session' = Nobody
  /\ UNCHANGED <<guestVars, unread, watchVars, gameVars>>

Relay(i) ==
  /\ "PUBLISH" \in unread[i]
  /\ unread' = [unread EXCEPT ![i] = @ \ {"PUBLISH"}]
  /\ relayed' = IF topic THEN Append(relayed, i) ELSE relayed
  /\ UNCHANGED <<guestVars, session, watchVars, link, topic, acted, last, is_open, losses>>

CloseRun(i) ==
  /\ unread[i] = {"DISCONNECT"}
  /\ unread' = [unread EXCEPT ![i] = {}]
  /\ session' = Nobody
  /\ UNCHANGED <<guestVars, watchVars, gameVars>>

-----------------------------------------------------------------------------
(* The game's callbacks                                                    *)

GameLink == UNCHANGED <<guestVars, unread, session, watchVars>>

\* onConnectSuccess sends the subscriptions.
GameConnects ==
  /\ link = "connecting"
  /\ link' = "subscribing"
  /\ GameLink /\ UNCHANGED <<topic, relayed, acted, last, is_open, losses>>

\* onConnectFailure: GAME_EXIT.
GameRefused ==
  /\ link = "connecting"
  /\ link' = "exit"
  /\ GameLink /\ UNCHANGED <<topic, relayed, acted, last, is_open, losses>>

\* The broker reads them: a clean session had none before.
Subscribe ==
  /\ link = "subscribing"
  /\ link' = "up"
  /\ topic' = TRUE
  /\ GameLink /\ UNCHANGED <<relayed, acted, last, is_open, losses>>

\* The network fails, or serv.c connects with the game's client id.
LoseConnection ==
  /\ link \in {"subscribing", "up"}
  /\ losses < MaxLosses
  /\ losses' = losses + 1
  /\ link' = "lost"
  /\ topic' = FALSE
  /\ relayed' = <<>>
  /\ GameLink /\ UNCHANGED <<acted, last, is_open>>

\* connlost connects again, or ends the game when MQTTAsync_connect refuses.
Reconnect(accepted) ==
  /\ link = "lost"
  /\ link' = IF accepted THEN "connecting" ELSE "exit"
  /\ GameLink /\ UNCHANGED <<topic, relayed, acted, last, is_open, losses>>

\* sscanf leaves door_n and state as they were when it finds no number, and
\* reads on behind the payload, which ends without a zero byte: digits found
\* there make another number of "0", and of "1" a number that opens as well.
Readings(i) ==
  IF i \in Garbled
  THEN [door : Doors, open : BOOLEAN] \cup {Command[i]}
  ELSE {Command[i], [Command[i] EXCEPT !.open = TRUE]}

\* The search takes the first door there is.
MessageForAnyDoor ==
  /\ relayed # <<>>
  /\ \E reading \in Readings(Head(relayed)), d \in Doors :
       is_open' = [is_open EXCEPT ![d] = reading.open]
  /\ relayed' = Tail(relayed)
  /\ acted' = acted \cup {Head(relayed)}
  /\ last' = stamp[Head(relayed)]
  /\ GameLink /\ UNCHANGED <<link, topic, losses>>

MessageArrived ==
  /\ relayed # <<>>
  /\ \E reading \in Readings(Head(relayed)) :
       is_open' = IF reading.door \in Doors
                  THEN [is_open EXCEPT ![reading.door] = reading.open]
                  ELSE is_open
  /\ relayed' = Tail(relayed)
  /\ acted' = acted \cup {Head(relayed)}
  /\ last' = stamp[Head(relayed)]
  /\ GameLink /\ UNCHANGED <<link, topic, losses>>

-----------------------------------------------------------------------------
Guest(i) == Connect(i) \/ ConnectFails(i) \/ Publish(i)
Broker(i) == AcceptRun(i) \/ Relay(i) \/ CloseRun(i)
FileTask == StartWatcher \/ CreateFile \/ FindFile \/ WatcherDisconnects
              \/ AcceptWatcher \/ DropWatcher
Game == GameConnects \/ GameRefused \/ Subscribe \/ LoseConnection
          \/ (\E accepted \in BOOLEAN : Reconnect(accepted)) \/ MessageArrived

Next == \/ \E i \in Runs : Guest(i) \/ Broker(i)
        \/ FileTask
        \/ Game

\* Programs that run, the broker and the MQTT client's threads go on; which
\* commands are typed and when a network fails is anybody's choice.
Fairness ==
  /\ \A i \in Runs : /\ WF_vars(Publish(i)) /\ WF_vars(Relay(i)) /\ WF_vars(CloseRun(i))
  /\ WF_vars(FindFile) /\ WF_vars(WatcherDisconnects) /\ WF_vars(AcceptWatcher)
  /\ WF_vars(GameConnects \/ GameRefused) /\ WF_vars(Subscribe)
  /\ WF_vars(\E accepted \in BOOLEAN : Reconnect(accepted))
  /\ WF_vars(MessageArrived)

Spec == Init /\ [][Next]_vars /\ Fairness

-----------------------------------------------------------------------------
(* Properties                                                              *)

\* Type correctness of the model.
TypeOK ==
  /\ run \in [Runs -> {"shell", "connecting", "connected", "gone"}]
  /\ unread \in [Runs -> SUBSET {"CONNECT", "PUBLISH", "DISCONNECT"}]
  /\ session \in Runs \cup {Nobody, Watcher}
  /\ stamp \in [Runs -> Nat] /\ sent \in Nat
  /\ watch \in {"shell", "connecting", "watching", "disconnecting", "gone"}
  /\ file \in BOOLEAN
  /\ link \in {"connecting", "subscribing", "up", "lost", "exit"}
  /\ topic \in BOOLEAN
  /\ relayed \in Seq(Runs)
  /\ acted \subseteq Runs /\ last \in 0..sent
  /\ is_open \in [Doors -> BOOLEAN]
  /\ losses \in 0..MaxLosses

\* Commands take effect at most once and in the order of their publication,
\* whatever connection each of them came by.
Messages == INSTANCE DoorMessages
ImplementsMessages == Messages!Spec

\* Unless a garbled command was acted on, no door moves that no command
\* named, and a door whose last command says open is open.
DoorsAsTold ==
  acted \cap Garbled = {} =>
    \A d \in Doors :
      LET told == {i \in acted : Command[i].door = d}
      IN /\ told = {} => ~is_open[d]
         /\ \A i \in told : /\ Command[i].open
                            /\ \A j \in told : stamp[j] <= stamp[i]
                            => is_open[d]

\* A command published on a connection the broker has, while the game is
\* subscribed, reaches the game, unless the game's connection is lost or
\* another program takes the client id over before the broker has read it.
CommandArrives ==
  \A i \in Runs :
    run[i] = "connected" /\ session = i /\ link = "up" ~>
      i \in acted \/ link # "up" \/ session \notin {i, Nobody}

\* client-copy.c:43-51 is to publish that the door opens once the file is there
\* ("sending", "Task completed"); console.c:46 sends the tutorial's player to
\* create it.
FileOpensDoor == watch = "watching" /\ file ~> sent > 0
=============================================================================
