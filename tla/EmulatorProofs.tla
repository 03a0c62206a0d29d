--------------------------- MODULE EmulatorProofs ---------------------------
(***************************************************************************)
(* What holds of the emulator's pipes for every number of descriptors,     *)
(* every pipe capacity and every length of frame.                          *)
(***************************************************************************)
EXTENDS Emulator, TLAPS

Closed(step) == step \in {"disconnect", "done"}

\* engine_shutdown has closed stdin_pipe[0], stdin_pipe[1], stdout_pipe[0].
ShutInR == pc \in {"close2", "close3", "close4"} \/ Closed(pc)
ShutInW == pc \in {"close3", "close4"} \/ Closed(pc)
ShutOutR == pc = "close4" \/ Closed(pc)

\* The steps of the main thread against the process and what they count.
PhaseInv ==
  /\ pc = "write" => writes > 0
  /\ pc \in {"pipe1", "pipe2", "fork"} => temu_pid = 0
  /\ pc \in {"closeIn", "closeOut", "wait"} => temu_pid = 1
  /\ (temu_pid = 1) <=> (temu # "absent")
  /\ pc \in Closing \/ Closed(pc) => temu \in {"absent", "reaped"}

\* The numbers the game keeps: none yet, or two of its own beyond the
\* standard streams.
NumberInv ==
  /\ pc = "pipe1" => stdin_pipe = <<0, 0>>
  /\ pc \in {"pipe1", "pipe2"} => stdout_pipe = <<0, 0>>
  /\ (stdin_pipe[1] > 2 /\ stdin_pipe[2] > 2) \/ stdin_pipe = <<0, 0>>
  /\ (stdout_pipe[1] > 2 /\ stdout_pipe[2] > 2) \/ stdout_pipe = <<0, 0>>
  /\ stdin_pipe[1] > 2 => /\ stdin_pipe[1] # stdin_pipe[2]
                          /\ stdout_pipe[1] \notin {stdin_pipe[1], stdin_pipe[2]}
                          /\ stdout_pipe[2] \notin {stdin_pipe[1], stdin_pipe[2]}
  /\ stdout_pipe[1] > 2 => stdout_pipe[1] # stdout_pipe[2]
  /\ pc = "pipe2" => stdin_pipe[1] > 2
  /\ pc = "fork" \/ temu_pid = 1 => stdin_pipe[1] > 2 /\ stdout_pipe[1] > 2

\* What is open is where the game, or the MQTT client, says it is.
PlaceInv ==
  /\ \A n \in Fds : (fds[n] = Terminal) <=> (n <= 2)
  /\ \A n \in Fds : fds[n] = InR => n = stdin_pipe[1]
  /\ \A n \in Fds : fds[n] = InW => n = stdin_pipe[2]
  /\ \A n \in Fds : fds[n] = OutR => n = stdout_pipe[1]
  /\ \A n \in Fds : fds[n] = OutW => n = stdout_pipe[2]
  /\ \A n \in Fds : fds[n] = Socket => n = socket
  /\ socket # 0 => \/ fds[socket] = Socket
                   \/ (ShutInR /\ socket > 2 /\ fds[socket] = Nothing)

\* What the game still holds at its numbers.
OpenInv ==
  /\ stdin_pipe[1] > 2 /\ ~ShutInR /\ (temu_pid # 1 \/ pc = "closeIn")
       => fds[stdin_pipe[1]] = InR
  /\ stdin_pipe[2] > 2 /\ ~ShutInW => fds[stdin_pipe[2]] = InW
  /\ stdout_pipe[1] > 2 /\ ~ShutOutR => fds[stdout_pipe[1]] = OutR
  /\ stdout_pipe[2] > 2 /\ ~Closed(pc) /\ (temu_pid # 1 \/ pc \in {"closeIn", "closeOut"})
       => fds[stdout_pipe[2]] = OutW

\* What it no longer holds.
GoneInv ==
  /\ ShutInR \/ (temu_pid = 1 /\ pc # "closeIn") => \A n \in Fds : fds[n] # InR
  /\ ShutInW => \A n \in Fds : fds[n] # InW
  /\ ShutOutR => \A n \in Fds : fds[n] # OutR
  /\ Closed(pc) \/ (temu_pid = 1 /\ pc \notin {"closeIn", "closeOut"})
       => \A n \in Fds : fds[n] # OutW

ForeignInv ==
  /\ StrayCloseIsSocket
  /\ ~ShutInR => \A n \in Fds : foreign[n] = Nothing

Inv == TypeOK /\ PhaseInv /\ NumberInv /\ PlaceInv /\ OpenInv /\ GoneInv /\ ForeignInv
-----------------------------------------------------------------------------

\* With no emulator and no connection only the standard streams are open.
LEMMA Initially == Init => Inv
<1> SUFFICES ASSUME Init PROVE Inv
  OBVIOUS
<1> USE EmulatorAssumption DEF Init, Fds, Terminal, Socket, Nothing
<1>1. TypeOK
  <2>1. fds \in [Fds -> Objects] /\ foreign \in [Fds -> Objects]
    BY DEF Objects
  <2>2. 0 \in Fds /\ 0 \in 0..PipeCap /\ 0 \in 0..FrameWrites
    BY DEF EmulatorAssumption
  <2> QED
    BY <2>1, <2>2 DEF TypeOK
<1>2. PhaseInv /\ NumberInv
  BY DEF PhaseInv, NumberInv, Closing, Closed
<1>3. PlaceInv
  BY DEF PlaceInv, InR, InW, OutR, OutW
<1>4. OpenInv
  BY DEF OpenInv
<1>5. GoneInv /\ ForeignInv
  BY DEF GoneInv, ForeignInv, StrayCloseIsSocket, ShutInR, ShutInW, ShutOutR, Closed
<1> QED
  BY <1>1, <1>2, <1>3, <1>4, <1>5 DEF Inv

\* What a step that touches no descriptor keeps: it stays on its side of each
\* of engine_shutdown's closes and of the parent's two.
LEMMA QuietStep ==
  ASSUME Inv, UNCHANGED <<fds, gameVars, socket, foreign>>,
         pc \in Closing \/ Closed(pc) \/ pc \in {"closeIn", "closeOut"} => pc' = pc,
         pc' \in Closing \ {"close1"} \/ Closed(pc') => pc' = pc,
         pc' \in {"pipe1", "pipe2", "fork", "closeIn", "closeOut"} => pc' = pc
  PROVE  NumberInv' /\ PlaceInv' /\ OpenInv' /\ GoneInv' /\ ForeignInv'
<1> USE DEF Inv, gameVars, Closing, Closed
<1>1. NumberInv'
  BY DEF NumberInv, PhaseInv, TypeOK
<1>2. PlaceInv'
  BY DEF PlaceInv, ShutInR
<1>3. OpenInv'
  BY DEF OpenInv, ShutInR, ShutInW, ShutOutR
<1>4. GoneInv'
  BY DEF GoneInv, PhaseInv, ShutInR, ShutInW, ShutOutR
<1>5. ForeignInv'
  BY DEF ForeignInv, StrayCloseIsSocket, ShutInR
<1> QED
  BY <1>1, <1>2, <1>3, <1>4, <1>5

\* The frames, the emulator and main's way out, none of which opens or closes.
LEMMA FrameStep ==
  ASSUME Inv,
         \/ OpenConsole \/ Console \/ Write \/ Read \/ LeaveLoop \/ KillAndWait \/ Temu
         \/ \E atEnd \in BOOLEAN : ReadTerminal(atEnd)
         \/ Done \/ UNCHANGED vars
  PROVE  Inv'
<1> USE EmulatorAssumption DEF Closing, Closed, gameVars
<1>1. TypeOK' /\ PhaseInv'
  <2> USE DEF Inv, TypeOK, PhaseInv
  <2>1. CASE OpenConsole \/ Console
    <3>1. temu_run' \in BOOLEAN
      BY <2>1, Zenon DEF OpenConsole, Console, BeginFrame
    <3>2. /\ writes' \in 0..FrameWrites /\ pc' \in {"frame", "read", "write"}
          /\ pc' = "write" => writes' > 0
          /\ UNCHANGED <<fds, gameVars, temu, socket, foreign, in_data, out_data>>
      BY <2>1 DEF OpenConsole, Console, BeginFrame, Frame
    <3> QED
      BY <3>1, <3>2
  <2>2. CASE Write
    <3>1. /\ in_data' \in 0..PipeCap /\ writes' \in 0..FrameWrites
          /\ pc' = "write" => writes' > 0
      BY <2>2 DEF Write
    <3> QED
      BY <2>2, <3>1 DEF Write, Frame
  <2>3. CASE Read \/ \E atEnd \in BOOLEAN : ReadTerminal(atEnd)
    <3>1. temu_run' \in BOOLEAN
      BY <2>3, Zenon DEF Read, ReadTerminal
    <3>2. /\ out_data' \in 0..PipeCap
          /\ pc' = "frame"
          /\ UNCHANGED <<fds, gameVars, temu, socket, foreign, in_data, writes>>
      BY <2>3 DEF Read, ReadTerminal, Frame
    <3> QED
      BY <3>1, <3>2
  <2>4. CASE LeaveLoop \/ KillAndWait
    BY <2>4 DEF LeaveLoop, KillAndWait, Stops
  <2>5. CASE Temu
    <3>1. in_data' \in 0..PipeCap /\ out_data' \in 0..PipeCap
      BY <2>5 DEF Temu, TemuReads, TemuPrints, TemuResumes, TemuExits
    <3> QED
      BY <2>5, <3>1 DEF Temu, TemuReads, TemuPrints, TemuResumes, TemuExits, Guest
  <2>6. CASE Done \/ UNCHANGED vars
    BY <2>6 DEF Done, vars
  <2> QED
    BY <2>1, <2>2, <2>3, <2>4, <2>5, <2>6
<1>2. UNCHANGED <<fds, gameVars, socket, foreign>>
  BY DEF OpenConsole, Console, BeginFrame, Write, Read, ReadTerminal, LeaveLoop, KillAndWait,
         Frame, Stops, Temu, TemuReads, TemuPrints, TemuResumes, TemuExits, Guest, Done, vars
<1>3. \/ pc' = pc
      \/ pc \in {"frame", "write", "read", "wait"} /\ pc' \in {"frame", "write", "read", "wait", "close1"}
  BY DEF OpenConsole, Console, BeginFrame, Write, Read, ReadTerminal, LeaveLoop, KillAndWait,
         Frame, Stops, Temu, TemuReads, TemuPrints, TemuResumes, TemuExits, Guest, Done, vars
<1>4. NumberInv' /\ PlaceInv' /\ OpenInv' /\ GoneInv' /\ ForeignInv'
  BY <1>2, <1>3, QuietStep
<1> QED
  BY <1>1, <1>4 DEF Inv

-----------------------------------------------------------------------------

\* Where a step of engine_start_temu finds a free number, nothing is kept yet.
LEMMA FreeNumber ==
  ASSUME Inv, NEW n \in Free
  PROVE  n \in Fds /\ n > 2 /\ fds[n] = Nothing
BY DEF Inv, TypeOK, PlaceInv, Free, Fds, Terminal, Nothing

\* The two calls of pipe, and their failures.
LEMMA PipeStep ==
  ASSUME Inv, PipeFails \/ MakeStdinPipe \/ MakeStdoutPipe
  PROVE  Inv'
<1> USE EmulatorAssumption DEF Inv, PhaseInv, Closing, Closed, gameVars
<1>1. CASE PipeFails
  <2>1. TypeOK' /\ PhaseInv'
    BY <1>1 DEF PipeFails, Started, TypeOK
  <2>2. NumberInv' /\ PlaceInv' /\ OpenInv' /\ GoneInv' /\ ForeignInv'
    BY <1>1, QuietStep DEF PipeFails, Started
  <2> QED
    BY <2>1, <2>2
<1>2. CASE MakeStdinPipe
  <2>1. PICK r, w \in Free : /\ w # r
                             /\ stdin_pipe' = <<r, w>>
                             /\ fds' = [fds EXCEPT ![r] = InR, ![w] = InW]
    BY <1>2 DEF MakeStdinPipe, Lowest
  <2>2. /\ r \in Fds /\ r > 2 /\ fds[r] = Nothing
        /\ w \in Fds /\ w > 2 /\ fds[w] = Nothing
    BY FreeNumber
  <2>3. /\ pc = "pipe1" /\ pc' = "pipe2"
        /\ UNCHANGED <<stdout_pipe, temu_pid, temu, temu_run, in_data, out_data, writes,
                       socket, foreign>>
    BY <1>2 DEF MakeStdinPipe, Started
  <2>4. TypeOK' /\ PhaseInv'
    BY <2>1, <2>2, <2>3 DEF TypeOK, Objects, PipeEnds
  <2>5. NumberInv'
    BY <2>1, <2>2, <2>3 DEF NumberInv
  <2>6. PlaceInv'
    <3>1. \A n \in Fds : fds'[n] = IF n = r THEN InR ELSE IF n = w THEN InW ELSE fds[n]
      BY <2>1, <2>2 DEF TypeOK
    <3>2. stdin_pipe'[1] = r /\ stdin_pipe'[2] = w /\ stdin_pipe = <<0, 0>>
      BY <2>1, <2>3 DEF NumberInv
    <3>3. \A n \in Fds : fds[n] # InR /\ fds[n] # InW
      BY <3>2 DEF PlaceInv, Fds, Terminal, InR, InW
    <3> QED
      BY <2>2, <2>3, <3>1, <3>2, <3>3
      DEF PlaceInv, ShutInR, InR, InW, OutR, OutW, Terminal, Socket, Nothing, TypeOK
  <2>8. OpenInv'
    BY <2>1, <2>2, <2>3 DEF OpenInv, NumberInv, ShutInR, ShutInW, ShutOutR, TypeOK,
       Nothing, InR, InW, OutR, OutW
  <2>7. GoneInv' /\ ForeignInv'
    BY <2>1, <2>2, <2>3 DEF GoneInv, ForeignInv, StrayCloseIsSocket, ShutInR, ShutInW, ShutOutR
  <2> QED
    BY <2>4, <2>5, <2>6, <2>7, <2>8
<1>3. CASE MakeStdoutPipe
  <2>1. PICK r, w \in Free : /\ w # r
                             /\ stdout_pipe' = <<r, w>>
                             /\ fds' = [fds EXCEPT ![r] = OutR, ![w] = OutW]
    BY <1>3 DEF MakeStdoutPipe, Lowest
  <2>2. /\ r \in Fds /\ r > 2 /\ fds[r] = Nothing
        /\ w \in Fds /\ w > 2 /\ fds[w] = Nothing
    BY FreeNumber
  <2>3. /\ pc = "pipe2" /\ pc' = "fork"
        /\ UNCHANGED <<stdin_pipe, temu_pid, temu, temu_run, in_data, out_data, writes,
                       socket, foreign>>
    BY <1>3 DEF MakeStdoutPipe, Started
  <2>4. TypeOK' /\ PhaseInv'
    BY <2>1, <2>2, <2>3 DEF TypeOK, Objects, PipeEnds
  <2>5. NumberInv'
    <3>1. stdin_pipe[1] > 2 => /\ fds[stdin_pipe[1]] # Nothing
                               /\ fds[stdin_pipe[2]] # Nothing
      BY <2>3 DEF NumberInv, OpenInv, ShutInR, ShutInW, TypeOK, InR, InW, Nothing
    <3> QED
      BY <2>1, <2>2, <2>3, <3>1 DEF NumberInv, TypeOK
  <2>6. PlaceInv'
    <3>1. \A n \in Fds : fds'[n] = IF n = r THEN OutR ELSE IF n = w THEN OutW ELSE fds[n]
      BY <2>1, <2>2 DEF TypeOK
    <3>2. stdout_pipe'[1] = r /\ stdout_pipe'[2] = w /\ stdout_pipe = <<0, 0>>
      BY <2>1, <2>3 DEF NumberInv
    <3>3. \A n \in Fds : fds[n] # OutR /\ fds[n] # OutW
      BY <3>2 DEF PlaceInv, Fds, Terminal, OutR, OutW
    <3> QED
      BY <2>2, <2>3, <3>1, <3>2, <3>3
      DEF PlaceInv, ShutInR, InR, InW, OutR, OutW, Terminal, Socket, Nothing, TypeOK
  <2>8. OpenInv'
    BY <2>1, <2>2, <2>3 DEF OpenInv, NumberInv, ShutInR, ShutInW, ShutOutR, TypeOK,
       Nothing, InR, InW, OutR, OutW
  <2>7. GoneInv' /\ ForeignInv'
    BY <2>1, <2>2, <2>3 DEF GoneInv, ForeignInv, StrayCloseIsSocket, ShutInR, ShutInW, ShutOutR
  <2> QED
    BY <2>4, <2>5, <2>6, <2>7, <2>8
<1> QED
  BY <1>1, <1>2, <1>3

\* The fork, and the parent's two closes after it.
LEMMA ForkStep ==
  ASSUME Inv, Fork \/ ForkFails \/ ParentClosesStdin \/ ParentClosesStdout
  PROVE  Inv'
<1> USE EmulatorAssumption DEF Inv, PhaseInv, NumberInv, Closing, Closed, gameVars,
        ShutInR, ShutInW, ShutOutR
<1>1. CASE Fork \/ ForkFails
  <2>1. /\ pc = "fork"
        /\ \/ temu_pid' = 1 /\ temu' = "running" /\ pc' = "closeIn"
           \/ temu_pid' = -1 /\ temu' = temu /\ pc' = "frame"
        /\ UNCHANGED <<fds, stdin_pipe, stdout_pipe, temu_run, in_data, out_data, writes,
                       socket, foreign>>
    BY <1>1 DEF Fork, ForkFails, Started
  <2>2. TypeOK' /\ PhaseInv' /\ NumberInv'
    BY <2>1 DEF TypeOK
  <2>3. PlaceInv'
    BY <2>1 DEF PlaceInv
  <2>5. OpenInv' /\ GoneInv'
    BY <2>1 DEF OpenInv, GoneInv
  <2>4. ForeignInv'
    BY <2>1 DEF ForeignInv, StrayCloseIsSocket
  <2> QED
    BY <2>2, <2>3, <2>4, <2>5
<1>2. CASE ParentClosesStdin
  <2>1. /\ pc = "closeIn" /\ pc' = "closeOut" /\ temu_pid = 1
        /\ stdin_pipe[1] \in Fds /\ fds[stdin_pipe[1]] = InR
        /\ fds' = [fds EXCEPT ![stdin_pipe[1]] = Nothing]
        /\ UNCHANGED <<gameVars, temu, temu_run, in_data, out_data, writes, socket, foreign>>
    BY <1>2 DEF ParentClosesStdin, Started, OpenInv, TypeOK
  <2>2. \A n \in Fds : fds'[n] = IF n = stdin_pipe[1] THEN Nothing ELSE fds[n]
    BY <2>1 DEF TypeOK
  <2>3. TypeOK' /\ PhaseInv' /\ NumberInv'
    BY <2>1 DEF TypeOK, Objects
  <2>4. PlaceInv' /\ OpenInv' /\ GoneInv'
    BY <2>1, <2>2 DEF PlaceInv, OpenInv, GoneInv, TypeOK, InR, InW, OutR, OutW, Terminal,
       Socket, Nothing
  <2>5. ForeignInv'
    BY <2>1 DEF ForeignInv, StrayCloseIsSocket
  <2> QED
    BY <2>3, <2>4, <2>5
<1>3. CASE ParentClosesStdout
  <2>1. /\ pc = "closeOut" /\ pc' = "frame" /\ temu_pid = 1
        /\ stdout_pipe[2] \in Fds /\ stdout_pipe[2] > 2 /\ fds[stdout_pipe[2]] = OutW
        /\ fds' = [fds EXCEPT ![stdout_pipe[2]] = Nothing]
        /\ UNCHANGED <<gameVars, temu, temu_run, in_data, out_data, writes, socket, foreign>>
    BY <1>3 DEF ParentClosesStdout, Started, OpenInv, TypeOK
  <2>2. \A n \in Fds : fds'[n] = IF n = stdout_pipe[2] THEN Nothing ELSE fds[n]
    BY <2>1 DEF TypeOK
  <2>3. TypeOK' /\ PhaseInv' /\ NumberInv'
    BY <2>1 DEF TypeOK, Objects
  <2>4. PlaceInv' /\ OpenInv' /\ GoneInv'
    BY <2>1, <2>2 DEF PlaceInv, OpenInv, GoneInv, TypeOK, InR, InW, OutR, OutW, Terminal,
       Socket, Nothing
  <2>5. ForeignInv'
    BY <2>1 DEF ForeignInv, StrayCloseIsSocket
  <2> QED
    BY <2>3, <2>4, <2>5
<1> QED
  BY <1>1, <1>2, <1>3

\* The MQTT client takes a free number and gives back its own.
LEMMA MqttStep ==
  ASSUME Inv, Mqtt
  PROVE  Inv'
<1> USE EmulatorAssumption DEF Inv, PhaseInv, NumberInv, Closing, Closed, gameVars,
        ShutInR, ShutInW, ShutOutR
<1>1. PICK n \in Fds, object \in {Socket, Nothing} :
        /\ n > 2 /\ fds[n] \in {Socket, Nothing}
        /\ fds' = [fds EXCEPT ![n] = object]
        /\ IF object = Socket THEN socket = 0 /\ socket' = n ELSE socket = n /\ socket' = 0
  <2>1. CASE MqttConnects
    BY <2>1, FreeNumber DEF Mqtt, MqttConnects, Lowest
  <2>2. CASE MqttLosesConnection
    <3>1. socket \in Fds /\ socket > 2 /\ fds[socket] \in {Socket, Nothing}
      BY <2>2 DEF MqttLosesConnection, TypeOK, PlaceInv, Socket, Terminal, Fds
    <3> QED
      BY <2>2, <3>1 DEF MqttLosesConnection, Socket, Nothing
  <2> QED
    BY <2>1, <2>2 DEF Mqtt
<1>2. UNCHANGED <<gameVars, temu, temu_run, in_data, out_data, pc, writes, foreign>>
  BY DEF Mqtt, MqttConnects, MqttLosesConnection, Network
<1>3. \A k \in Fds : fds'[k] = IF k = n THEN object ELSE fds[k]
  BY <1>1 DEF TypeOK
<1>4. TypeOK' /\ PhaseInv' /\ NumberInv'
  <2>1. socket' \in Fds
    BY <1>1 DEF Fds
  <2> QED
    BY <1>1, <1>2, <2>1 DEF TypeOK, Objects
<1>5. PlaceInv'
  BY <1>1, <1>2, <1>3 DEF PlaceInv, TypeOK, InR, InW, OutR, OutW, Terminal, Socket, Nothing
<1>6. OpenInv' /\ GoneInv'
  BY <1>1, <1>2, <1>3 DEF OpenInv, GoneInv, TypeOK, InR, InW, OutR, OutW, Socket, Nothing
<1>7. ForeignInv'
  BY <1>2 DEF ForeignInv, StrayCloseIsSocket
<1> QED
  BY <1>4, <1>5, <1>6, <1>7

\* What one of engine_shutdown's four closes does at its number.
LEMMA CloseAt ==
  ASSUME Inv, Close
  PROVE  LET n == ToClose(pc)
         IN /\ n \in Fds
            /\ n > 2 =>
                 /\ \A k \in Fds : fds'[k] = IF k = n THEN Nothing ELSE fds[k]
                 /\ fds' \in [Fds -> Objects]
                 /\ fds[n] = Socket \/ foreign' = foreign
                 /\ fds[n] = Socket => foreign' = [foreign EXCEPT ![n] = Socket]
            /\ n <= 2 => n = 0 /\ UNCHANGED <<fds, foreign>>
            /\ pc \in Closing /\ pc' = AfterClose(pc)
            /\ UNCHANGED <<gameVars, temu, temu_run, in_data, out_data, writes, socket>>
<1> DEFINE n == ToClose(pc)
<1>1. pc \in Closing /\ n \in Fds /\ (n > 2 \/ n = 0)
  BY DEF Close, ToClose, Closing, Inv, TypeOK, NumberInv
<1>2. n > 2 => n > 0 /\ ~(n <= 2)
  BY <1>1 DEF Fds
<1>3. n <= 2 => n = 0 /\ ~(n > 0)
  BY <1>1, EmulatorAssumption DEF Fds
<1> QED
  BY <1>1, <1>2, <1>3 DEF Close, Stops, Inv, TypeOK, Objects, gameVars

\* The four calls of close, in engine_shutdown: each number is its own, the
\* MQTT socket's, or nobody's.
LEMMA CloseStep ==
  ASSUME Inv, Close
  PROVE  Inv'
<1> DEFINE n == ToClose(pc)
<1>1. /\ n \in Fds
      /\ n > 2 => /\ \A k \in Fds : fds'[k] = IF k = n THEN Nothing ELSE fds[k]
                  /\ fds' \in [Fds -> Objects]
                  /\ fds[n] = Socket \/ foreign' = foreign
                  /\ fds[n] = Socket => foreign' = [foreign EXCEPT ![n] = Socket]
      /\ n <= 2 => n = 0 /\ UNCHANGED <<fds, foreign>>
      /\ pc \in Closing /\ pc' = AfterClose(pc)
      /\ UNCHANGED <<gameVars, temu, temu_run, in_data, out_data, writes, socket>>
  BY CloseAt
<1>2. \/ pc = "close1" /\ pc' = "close2" /\ n = stdin_pipe[1]
      \/ pc = "close2" /\ pc' = "close3" /\ n = stdin_pipe[2]
      \/ pc = "close3" /\ pc' = "close4" /\ n = stdout_pipe[1]
      \/ pc = "close4" /\ pc' = "disconnect" /\ n = stdout_pipe[2]
  BY <1>1 DEF ToClose, AfterClose, Closing
<1> HIDE DEF n
<1> USE EmulatorAssumption DEF Inv, Closing, Closed, gameVars, ShutInR, ShutInW, ShutOutR
<1>3. TypeOK' /\ PhaseInv' /\ NumberInv'
  <2>1. fds' \in [Fds -> Objects] /\ foreign' \in [Fds -> Objects]
    BY <1>1 DEF TypeOK, Objects, Fds
  <2> QED
    BY <1>1, <1>2, <2>1 DEF TypeOK, PhaseInv, NumberInv
<1>8. \A k \in Fds : \/ fds'[k] = fds[k] /\ (k # n \/ k <= 2)
                     \/ fds'[k] = Nothing /\ k = n /\ k > 2
  BY <1>1 DEF TypeOK, Fds
<1>9. ShutInR' /\ pc' # "close1" /\ UNCHANGED <<stdin_pipe, stdout_pipe, temu_pid, socket>>
  BY <1>1, <1>2
<1>4. PlaceInv'
  <2>1. \A k \in Fds : (fds'[k] = Terminal) <=> (k <= 2)
    BY <1>8 DEF PlaceInv, Fds, Terminal, Nothing
  <2>2. \A k \in Fds : fds'[k] # Nothing => fds'[k] = fds[k]
    BY <1>8
  <2>3. socket # 0 => fds'[socket] = Socket \/ (socket > 2 /\ fds'[socket] = Nothing)
    BY <1>8 DEF PlaceInv, TypeOK, Fds, Terminal, Socket
  <2> QED
    BY <1>9, <2>1, <2>2, <2>3
    DEF PlaceInv, InR, InW, OutR, OutW, Socket, Nothing
<1>5. OpenInv'
  <2>1. stdin_pipe \in Fds \X Fds /\ stdout_pipe \in Fds \X Fds
    BY DEF TypeOK
  <2>2. stdin_pipe[2] > 2 /\ ~ShutInW' => fds'[stdin_pipe[2]] = InW
    BY <1>2, <1>8, <2>1 DEF OpenInv, NumberInv
  <2>3. stdout_pipe[1] > 2 /\ ~ShutOutR' => fds'[stdout_pipe[1]] = OutR
    BY <1>2, <1>8, <2>1 DEF OpenInv, NumberInv
  <2>4. stdout_pipe[2] > 2 /\ ~Closed(pc') /\ temu_pid # 1 => fds'[stdout_pipe[2]] = OutW
    BY <1>2, <1>8, <2>1 DEF OpenInv, NumberInv
  <2> QED
    BY <1>2, <1>9, <2>2, <2>3, <2>4 DEF OpenInv
<1>6. GoneInv'
  BY <1>1, <1>2 DEF GoneInv, NumberInv, PlaceInv, TypeOK, Fds, InR, InW, OutR, OutW, Terminal,
     Socket, Nothing
<1>7. ForeignInv'
  BY <1>1, <1>2 DEF ForeignInv, StrayCloseIsSocket, OpenInv, NumberInv, PhaseInv, TypeOK, Fds,
     InR, InW, OutR, OutW, Socket, Nothing
<1> QED
  BY <1>3, <1>4, <1>5, <1>6, <1>7

\* The client gives its socket back, and nothing else.
LEMMA DisconnectStep ==
  ASSUME Inv, Disconnect
  PROVE  Inv'
<1> USE EmulatorAssumption DEF Inv, Closing, Closed, gameVars, ShutInR, ShutInW, ShutOutR
<1>1. /\ pc = "disconnect" /\ pc' = "done" /\ socket' = 0
      /\ UNCHANGED <<gameVars, temu, temu_run, in_data, out_data, writes, foreign>>
  BY DEF Disconnect
<1>2. /\ fds' \in [Fds -> Objects]
      /\ \A k \in Fds : \/ fds'[k] = fds[k] /\ (k # socket \/ socket = 0)
                        \/ fds'[k] = Nothing /\ k = socket /\ k > 2
  BY DEF Disconnect, TypeOK, PlaceInv, Objects, Fds, Socket, Terminal, Nothing
<1>3. TypeOK' /\ PhaseInv' /\ NumberInv'
  BY <1>1, <1>2 DEF TypeOK, PhaseInv, NumberInv, Fds
<1>4. PlaceInv'
  BY <1>1, <1>2 DEF PlaceInv, TypeOK, Fds, InR, InW, OutR, OutW, Terminal, Socket, Nothing
<1>5. OpenInv' /\ GoneInv' /\ ForeignInv'
  BY <1>1, <1>2 DEF OpenInv, GoneInv, ForeignInv, StrayCloseIsSocket, TypeOK,
     InR, InW, OutR, OutW, Nothing
<1> QED
  BY <1>3, <1>4, <1>5

\* Every step keeps the invariant.
LEMMA NextStep == Inv /\ [Next]_vars => Inv'
  BY FrameStep, PipeStep, ForkStep, MqttStep, CloseStep, DisconnectStep
  DEF Next, StartTemu, Shutdown

\* What the theorems below are read from.
LEMMA Inductive == Spec => []Inv
  BY Initially, NextStep, PTL DEF Spec

-----------------------------------------------------------------------------

\* The types of the descriptor table, the pipes, the process and the frame.
THEOREM TypeCorrect == Spec => []TypeOK
<1>1. Inv => TypeOK
  BY DEF Inv
<1> QED
  BY <1>1, Inductive, PTL

\* The game ends with nothing of engine_start_temu left.
THEOREM EndsClean == Spec => []NothingLeft
<1>1. Inv => NothingLeft
  BY EmulatorAssumption
  DEF Inv, NothingLeft, GoneInv, PhaseInv, PlaceInv, Held, Closed, ShutInR, ShutInW, ShutOutR,
      PipeEnds, Fds
<1> QED
  BY <1>1, Inductive, PTL

\* engine_shutdown closes nothing but its pipes and, by accident, the socket.
THEOREM StrayCloses == Spec => []StrayCloseIsSocket
<1>1. Inv => StrayCloseIsSocket
  BY DEF Inv, ForeignInv
<1> QED
  BY <1>1, Inductive, PTL

\* The game plays with its own two pipe ends and no other.
THEOREM OwnEnds == Spec => []PlaysWithOwnEnds
<1>1. Inv => PlaysWithOwnEnds
  BY DEF Inv, PlaysWithOwnEnds, NumberInv, OpenInv, GoneInv, Held, Closed, ShutInW, ShutOutR,
     ShutInR
<1> QED
  BY <1>1, Inductive, PTL
=============================================================================
