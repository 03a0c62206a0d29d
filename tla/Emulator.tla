------------------------------ MODULE Emulator ------------------------------
(***************************************************************************)
(* The game and its RISC-V emulator: a child process at the other end of   *)
(* two pipes.  engine_start_temu makes the pipes and the process, the      *)
(* console's frames write to one pipe and read from the other, and         *)
(* engine_shutdown ends the process and closes the pipes.                  *)
(*                                                                         *)
(* Descriptors are numbers, and close takes a number: fds is what each     *)
(* number of the game's table refers to.  The MQTT client's thread shares  *)
(* that table and opens its socket at the lowest free number, before,      *)
(* during or after any of these steps.  The console's own state is the     *)
(* Console module's; here a frame is only what it writes and whether it    *)
(* closes the console.                                                     *)
(***************************************************************************)
EXTENDS Integers

CONSTANTS Numbers,     \* bound: the descriptor numbers of the game
          PipeCap,     \* what a pipe holds, counted in writes of the console
          ReadMax,     \* what one frame reads, in the same unit
          FrameWrites  \* what one frame can write: the script's lines and Enter

ASSUME EmulatorAssumption ==
  /\ Numbers \in Nat /\ Numbers >= 3  \* the standard streams
  /\ PipeCap \in Nat \ {0}
  /\ ReadMax \in Nat \ {0}
  /\ FrameWrites \in Nat

Terminal == "terminal"
Socket == "socket"
InR == "in_r"     \* stdin_pipe, the emulator's end
InW == "in_w"     \* and the game's
OutR == "out_r"   \* stdout_pipe, the game's end
OutW == "out_w"   \* and the emulator's
PipeEnds == {InR, InW, OutR, OutW}
Nothing == "closed"
Objects == {Terminal, Socket, Nothing} \cup PipeEnds

VARIABLES fds,          \* what each descriptor number of the game refers to
          stdin_pipe,   \* engine->stdin_pipe: two numbers, 0 from main's memset
          stdout_pipe,  \* engine->stdout_pipe
          temu_pid,     \* engine->temu_pid: 0 not forked, 1 the child, -1 failed
          temu,         \* the child: absent, running, blocked, zombie or reaped
          temu_run,     \* engine->temu_run: the console is open
          in_data,      \* what the two pipes hold
          out_data,
          pc,           \* where the game's main thread is
          writes,       \* the writes left in this frame
          socket,       \* the MQTT client's own number for its socket, 0 for none
          foreign       \* history: what engine_shutdown closed at each number

gameVars == <<stdin_pipe, stdout_pipe, temu_pid>>
vars == <<fds, gameVars, temu, temu_run, in_data, out_data, pc, writes, socket, foreign>>

Fds == 0..(Numbers - 1)
Free == {n \in Fds : fds[n] = Nothing}
Lowest(n, S) == n \in S /\ \A k \in S : n <= k
Held(object) == \E n \in Fds : fds[n] = object

\* The child keeps one end of each pipe, for as long as it lives.
TemuLives == temu \in {"running", "blocked"}
HasReader == TemuLives \/ Held(InR)
HasWriter == TemuLives \/ Held(OutW)

Init ==
  /\ fds = [n \in Fds |-> IF n <= 2 THEN Terminal ELSE Nothing]
  /\ stdin_pipe = <<0, 0>>
  /\ stdout_pipe = <<0, 0>>
  /\ temu_pid = 0
  /\ temu = "absent"
  /\ temu_run = FALSE
  /\ in_data = 0 /\ out_data = 0
  /\ pc = "pipe1"
  /\ writes = 0
  /\ socket = 0
  /\ foreign = [n \in Fds |-> Nothing]

-----------------------------------------------------------------------------
(* engine_start_temu                                                       *)

Started == UNCHANGED <<temu, temu_run, in_data, out_data, writes, socket, foreign>>

PipeFails ==
  /\ pc \in {"pipe1", "pipe2"}
  /\ pc' = "frame"
  /\ Started
  /\ UNCHANGED <<fds, gameVars>>

\* The ends of a pipe get the two lowest numbers that are free.
MakeStdinPipe ==
  /\ pc = "pipe1"
  /\ \E r, w \in Free :
       /\ Lowest(r, Free) /\ Lowest(w, Free \ {r})
       /\ stdin_pipe' = <<r, w>>
       /\ fds' = [fds EXCEPT ![r] = InR, ![w] = InW]
  /\ pc' = "pipe2"
  /\ Started
  /\ UNCHANGED <<stdout_pipe, temu_pid>>

MakeStdoutPipe ==
  /\ pc = "pipe2"
  /\ \E r, w \in Free :
       /\ Lowest(r, Free) /\ Lowest(w, Free \ {r})
       /\ stdout_pipe' = <<r, w>>
       /\ fds' = [fds EXCEPT ![r] = OutR, ![w] = OutW]
  /\ pc' = "fork"
  /\ Started
  /\ UNCHANGED <<stdin_pipe, temu_pid>>

\* The child closes the ends it does not use; its two dup2 and its two other
\* closes leave it one end of each pipe.
Fork ==
  /\ pc = "fork"
  /\ temu_pid' = 1
  /\ temu' = "running"
  /\ pc' = "closeIn"
  /\ UNCHANGED <<fds, stdin_pipe, stdout_pipe, temu_run, in_data, out_data,
                 writes, socket, foreign>>

\* engine_init ignores the 1 that says so: the game goes on with both ends of
\* both pipes.
ForkFails ==
  /\ pc = "fork"
  /\ temu_pid' = -1
  /\ pc' = "frame"
  /\ Started
  /\ UNCHANGED <<fds, stdin_pipe, stdout_pipe>>

\* The parent keeps the emulator's end of a pipe.
ParentKeepsStdin == pc = "closeIn" /\ pc' = "closeOut" /\ Started /\ UNCHANGED <<fds, gameVars>>

ParentClosesStdin ==
  /\ pc = "closeIn"
  /\ fds' = [fds EXCEPT ![stdin_pipe[1]] = Nothing]
  /\ pc' = "closeOut"
  /\ Started
  /\ UNCHANGED gameVars

\* The parent closes the end it reads from.
ParentClosesWrongEnd ==
  /\ pc = "closeOut"
  /\ fds' = [fds EXCEPT ![stdout_pipe[1]] = Nothing]
  /\ pc' = "frame"
  /\ Started
  /\ UNCHANGED gameVars

\* The parent keeps the emulator's end of the other pipe.
ParentKeepsStdout == pc = "closeOut" /\ pc' = "frame" /\ Started /\ UNCHANGED <<fds, gameVars>>

ParentClosesStdout ==
  /\ pc = "closeOut"
  /\ fds' = [fds EXCEPT ![stdout_pipe[2]] = Nothing]
  /\ pc' = "frame"
  /\ Started
  /\ UNCHANGED gameVars

-----------------------------------------------------------------------------
(* A frame: update_input's writes, then engine_update_console's read.      *)

Frame == UNCHANGED <<fds, gameVars, temu, socket, foreign>>

OpenConsole ==
  /\ pc = "frame"
  /\ ~temu_run
  /\ temu_run' = TRUE
  /\ Frame
  /\ UNCHANGED <<in_data, out_data, pc, writes>>

\* F4 and "exit" close the console, and the frame still writes and reads.
BeginFrame(n, closes) ==
  /\ pc = "frame"
  /\ temu_run
  /\ writes' = n
  /\ temu_run' = ~closes
  /\ pc' = IF n = 0 THEN "read" ELSE "write"
  /\ Frame
  /\ UNCHANGED <<in_data, out_data>>

\* write blocks while the pipe is full and somebody holds its read end; with
\* no reader it fails (SIGPIPE is ignored), on the terminal it succeeds.
Write ==
  LET object == fds[stdin_pipe[2]]
      piped == object = InW /\ HasReader
  IN /\ pc = "write"
     /\ piped => in_data < PipeCap
     /\ in_data' = IF piped THEN in_data + 1 ELSE in_data
     /\ writes' = writes - 1
     /\ pc' = IF writes = 1 THEN "read" ELSE "write"
     /\ Frame
     /\ UNCHANGED <<temu_run, out_data>>

\* A read for as many bytes as the buffer holds already: none.
ReadNothing ==
  /\ pc = "read"
  /\ fds[stdout_pipe[1]] = OutR
  /\ temu_run' = (temu_run /\ (out_data > 0 \/ HasWriter))
  /\ pc' = "frame"
  /\ Frame
  /\ UNCHANGED <<in_data, out_data, writes>>

\* The read end is O_NONBLOCK: an empty pipe is EAGAIN, and 0 bytes once
\* nobody holds a write end.
Read ==
  /\ pc = "read"
  /\ fds[stdout_pipe[1]] = OutR
  /\ out_data' = IF out_data > ReadMax THEN out_data - ReadMax ELSE 0
  /\ temu_run' = (temu_run /\ (out_data > 0 \/ HasWriter))
  /\ pc' = "frame"
  /\ Frame
  /\ UNCHANGED <<in_data, writes>>

\* Without a stdout_pipe the number is 0: the frame waits for a line, or the
\* end of file, typed at the terminal the game was started from.
ReadTerminal(atEnd) ==
  /\ pc = "read"
  /\ fds[stdout_pipe[1]] = Terminal
  /\ temu_run' = (temu_run /\ ~atEnd)
  /\ pc' = "frame"
  /\ Frame
  /\ UNCHANGED <<in_data, out_data, writes>>

-----------------------------------------------------------------------------
(* engine_shutdown                                                         *)

Stops == UNCHANGED <<gameVars, temu_run, in_data, out_data, writes, socket>>

\* main's loop ends between two frames.
LeaveLoop ==
  /\ pc = "frame"
  /\ pc' = IF temu_pid > 0 THEN "wait" ELSE "close1"
  /\ Stops
  /\ UNCHANGED <<fds, temu, foreign>>

\* kill and waitpid: SIGTERM ends the emulator wherever it waits.
KillAndWait ==
  /\ pc = "wait"
  /\ temu' = "reaped"
  /\ pc' = "close1"
  /\ Stops
  /\ UNCHANGED <<fds, foreign>>

\* engine_shutdown closes the wrong number of the first pair.
ToCloseTwice(step) ==
  CASE step \in {"close1", "close2"} -> stdin_pipe[1]
    [] step = "close3" -> stdout_pipe[1]
    [] step = "close4" -> stdout_pipe[2]

\* The four "if (descriptor > 0) close(descriptor)", one after the other.
ToClose(step) ==
  CASE step = "close1" -> stdin_pipe[1]
    [] step = "close2" -> stdin_pipe[2]
    [] step = "close3" -> stdout_pipe[1]
    [] step = "close4" -> stdout_pipe[2]

Closing == {"close1", "close2", "close3", "close4"}

AfterClose(step) ==
  CASE step = "close1" -> "close2"
    [] step = "close2" -> "close3"
    [] step = "close3" -> "close4"
    [] step = "close4" -> "disconnect"

\* engine_shutdown closes without testing the number.
CloseUnguarded ==
  /\ pc \in Closing
  /\ fds' = [fds EXCEPT ![ToClose(pc)] = Nothing]
  /\ foreign' = IF fds[ToClose(pc)] \in {Socket, Terminal}
                THEN [foreign EXCEPT ![ToClose(pc)] = fds[ToClose(pc)]] ELSE foreign
  /\ pc' = AfterClose(pc)
  /\ Stops
  /\ UNCHANGED temu

Close ==
  /\ pc \in Closing
  /\ LET n == ToClose(pc) IN
       IF n > 0
       THEN /\ fds' = [fds EXCEPT ![n] = Nothing]
            /\ foreign' = IF fds[n] = Socket \/ n <= 2 THEN [foreign EXCEPT ![n] = fds[n]]
                          ELSE foreign
       ELSE UNCHANGED <<fds, foreign>>
  /\ pc' = AfterClose(pc)
  /\ Stops
  /\ UNCHANGED temu

\* MQTTAsync_disconnect and MQTTAsync_destroy close the client's socket.
Disconnect ==
  /\ pc = "disconnect"
  /\ fds' = IF socket = 0 THEN fds ELSE [fds EXCEPT ![socket] = Nothing]
  /\ socket' = 0
  /\ pc' = "done"
  /\ UNCHANGED <<gameVars, temu, temu_run, in_data, out_data, writes, foreign>>

-----------------------------------------------------------------------------
(* The MQTT client's thread (external)                                     *)

Network == UNCHANGED <<gameVars, temu, temu_run, in_data, out_data, pc, writes, foreign>>

\* MQTTAsync_connect, and again after a lost connection.
MqttConnects ==
  /\ pc # "done" /\ socket = 0
  /\ \E n \in Free :
       /\ Lowest(n, Free)
       /\ socket' = n
       /\ fds' = [fds EXCEPT ![n] = Socket]
  /\ Network

MqttLosesConnection ==
  /\ pc # "done" /\ socket # 0
  /\ fds' = [fds EXCEPT ![socket] = Nothing]
  /\ socket' = 0
  /\ Network

-----------------------------------------------------------------------------
(* The emulator (external): temu.c's console_read and console_write, which  *)
(* blocks the whole virtual machine while the pipe is full.                *)

Guest == UNCHANGED <<fds, gameVars, temu_run, pc, writes, socket, foreign>>

TemuReads ==
  /\ temu = "running"
  /\ in_data > 0
  /\ in_data' = in_data - 1
  /\ UNCHANGED <<temu, out_data>>
  /\ Guest

TemuPrints ==
  /\ temu = "running"
  /\ IF out_data < PipeCap
     THEN /\ out_data' = out_data + 1
          /\ UNCHANGED temu
     ELSE /\ temu' = "blocked"
          /\ UNCHANGED out_data
  /\ UNCHANGED in_data
  /\ Guest

TemuResumes ==
  /\ temu = "blocked"
  /\ out_data < PipeCap
  /\ out_data' = out_data + 1
  /\ temu' = "running"
  /\ UNCHANGED in_data
  /\ Guest

\* A failed execl, poweroff in the guest.
TemuExits ==
  /\ temu = "running"
  /\ temu' = "zombie"
  /\ UNCHANGED <<in_data, out_data>>
  /\ Guest

-----------------------------------------------------------------------------
StartTemu == PipeFails \/ MakeStdinPipe \/ MakeStdoutPipe \/ Fork \/ ForkFails
               \/ ParentClosesStdin \/ ParentClosesStdout
Console == \E n \in 0..FrameWrites, closes \in BOOLEAN : BeginFrame(n, closes)
Shutdown == KillAndWait \/ Close \/ Disconnect
Mqtt == MqttConnects \/ MqttLosesConnection
Temu == TemuReads \/ TemuPrints \/ TemuResumes \/ TemuExits
Done == pc = "done" /\ UNCHANGED vars

Next == \/ StartTemu \/ OpenConsole \/ Console \/ Write \/ Read
        \/ \E atEnd \in BOOLEAN : ReadTerminal(atEnd)
        \/ LeaveLoop \/ Shutdown \/ Mqtt \/ Temu \/ Done

\* The main thread runs while it is not blocked, and so does the emulator.
\* Fairness of TemuReads is an assumption about the guest: temu's loop selects
\* stdin only while the guest's virtio console takes data (temu.c:537-554), so
\* what is claimed with it holds of a guest that goes on taking its input.
\* What the player types, what the guest prints and when the network fails is
\* anybody's choice.
Fairness ==
  /\ WF_vars(StartTemu) /\ WF_vars(Console) /\ WF_vars(Write) /\ WF_vars(Read)
  /\ WF_vars(Shutdown)
  /\ WF_vars(TemuReads) /\ WF_vars(TemuResumes)

Spec == Init /\ [][Next]_vars /\ Fairness
-----------------------------------------------------------------------------
(* Properties                                                              *)

\* Type correctness of the model.
TypeOK ==
  /\ fds \in [Fds -> Objects]
  /\ stdin_pipe \in Fds \X Fds /\ stdout_pipe \in Fds \X Fds
  /\ temu_pid \in {-1, 0, 1}
  /\ temu \in {"absent", "running", "blocked", "zombie", "reaped"}
  /\ temu_run \in BOOLEAN
  /\ in_data \in 0..PipeCap /\ out_data \in 0..PipeCap
  /\ pc \in {"pipe1", "pipe2", "fork", "closeIn", "closeOut", "frame", "write",
             "read", "wait", "disconnect", "done"} \cup Closing
  /\ writes \in 0..FrameWrites
  /\ socket \in Fds
  /\ foreign \in [Fds -> Objects]

\* However engine_start_temu failed and wherever the emulator was, the game
\* ends with no pipe end of its own, no child left running or unreaped, and
\* the standard streams still open.
NothingLeft ==
  pc = "done" => /\ \A object \in PipeEnds : ~Held(object)
                 /\ temu \in {"absent", "reaped"}
                 /\ \A n \in 0..2 : fds[n] = Terminal

\* engine_shutdown closes again the two numbers the parent closed after the
\* fork; what it may hit there is the MQTT client's socket, when that was
\* opened after the fork, and never anything else.
StrayCloseIsSocket ==
  \A n \in Fds : foreign[n] # Nothing =>
    /\ foreign[n] = Socket
    /\ temu_pid = 1
    /\ n \in {stdin_pipe[1], stdout_pipe[2]}

\* While the game plays with an emulator its two numbers are the two pipe
\* ends it uses, and it holds neither of the others: it would never see the
\* end of the emulator's output, nor have a write fail once the emulator is gone.
PlaysWithOwnEnds ==
  temu_pid = 1 /\ pc \in {"frame", "write", "read"} =>
    /\ fds[stdin_pipe[2]] = InW /\ fds[stdout_pipe[1]] = OutR
    /\ ~Held(InR) /\ ~Held(OutW)

\* The game waits to write to the emulator and the emulator to write to the
\* game, each for the other to read.
MutualWait ==
  /\ pc = "write" /\ in_data = PipeCap
  /\ temu = "blocked" /\ out_data = PipeCap

\* A write to the emulator returns, unless each waits for the other or there
\* is no emulator and nobody will ever read the pipe.  A third way to block for
\* ever, a guest that takes no input, is excluded by the fairness of TemuReads.
WriteReturns == pc = "write" ~> pc # "write" \/ MutualWait \/ temu_pid # 1

\* An emulator that waits for its output to be read gets to go on while the
\* console is open, whether or not the player types anything (again for a guest
\* that takes its input: else the game may block in a write).
OpenConsoleDrains ==
  temu = "blocked" /\ temu_run ~> temu # "blocked" \/ ~temu_run \/ MutualWait

\* The console of an emulator that has exited closes, once what it printed
\* has been read.
ExitClosesConsole == temu = "zombie" /\ temu_run ~> temu = "reaped" \/ ~temu_run

=============================================================================
