------------------------------- MODULE Console -------------------------------
(***************************************************************************)
(* The emulator's console: the command line, the output buffer and the     *)
(* tutorial script of src/engine/console.c, and the part of the frame that *)
(* feeds the buffer, engine_update_console.  One frame of an open console  *)
(* is GetChar, function keys, Backspace, read, draw, in that order.        *)
(*                                                                         *)
(* The command line is kept cell by cell, because F4 clears only its first *)
(* cell.  typed is what the user has done to the line, in no variable of   *)
(* the program.  Of the output buffer only the length of its text is kept, *)
(* beside output_len, the length the engine believes it has.               *)
(***************************************************************************)
EXTENDS Integers, Sequences, FiniteSets

CONSTANTS Chars,       \* the bytes other than zero that a key can leave in the line
          NUL,         \* the zero byte
          CmdSize,     \* sizeof(command), 256
          BufSize,     \* sizeof(output_buf), BUFSIZ
          ReadMax,     \* the most one read returns, 1023
          LevelNames, Tutorial,
          ExitWord,    \* "exit"
          WaitLimit    \* frames the script waits between two lines

ASSUME ConsoleAssumption ==
  /\ NUL \notin Chars
  /\ CmdSize \in Nat \ {0, 1}
  /\ BufSize \in Nat \ {0, 1}
  /\ ReadMax \in Nat
  /\ Tutorial \in LevelNames
  /\ ExitWord \in Seq(Chars) /\ Len(ExitWord) < CmdSize
  /\ WaitLimit \in Nat

VARIABLES command,           \* console.command
          cmd_pos,           \* console.cmd_pos
          typed,             \* the bytes of the keys typed since Enter, less those taken back
          last_len,          \* strlen(console.last_command)
          output,            \* strlen(console.output_buf)
          output_len,        \* console.output_len
          just_opened, start_tick_count, waitParameter,  \* globals of console.c
          temu_run,          \* engine->temu_run
          behind,            \* a menu is drawn over the open console
          level,             \* engine->current_map->name
          eof,               \* the emulator is gone and its output is read
          pc                 \* where the frame is

lineVars   == <<command, cmd_pos, typed>>
outputVars == <<output, output_len, last_len>>
scriptVars == <<just_opened, start_tick_count, waitParameter>>
levelVars  == <<level, behind>>
vars == <<lineVars, outputVars, scriptVars, temu_run, levelVars, eof, pc>>

Cells == 0..(CmdSize - 1)
EmptyLine == [i \in Cells |-> NUL]

\* start_tick_count > 0 && start_tick_count < max_start_ticks
Scripting == start_tick_count \in 1..3

\* strlen of the command line: the cells before the first zero
LineLength == Cardinality({n \in Cells : \A i \in 0..n : command[i] # NUL})

\* strcmp(command, "exit") == 0
IsExit ==
  /\ command[Len(ExitWord)] = NUL
  /\ \A i \in 1..Len(ExitWord) : command[i - 1] = ExitWord[i]

Front(s) == SubSeq(s, 1, Len(s) - 1)

Goto(label) == pc' = label

-----------------------------------------------------------------------------
(* Wrong forms of some of the definitions below: each breaks a property *)

\* ... the script's clock stands still while it waits.
TutorialTickWithoutClock ==
  \/ start_tick_count = 0 /\ start_tick_count' = 1 /\ UNCHANGED <<waitParameter, just_opened>>
  \/ /\ start_tick_count \in {1, 2}
     /\ waitParameter > WaitLimit
     /\ waitParameter' = 1 /\ start_tick_count' = start_tick_count + 1
     /\ UNCHANGED just_opened
  \/ start_tick_count \in {1, 2} /\ waitParameter <= WaitLimit /\ UNCHANGED scriptVars
  \/ start_tick_count = 3 /\ start_tick_count' = 5 /\ just_opened' = FALSE /\ UNCHANGED waitParameter

\* ... Enter empties the line and forgets cmd_pos.
PressEnterKeepsPos ==
  /\ pc = "keys"
  /\ last_len' = LineLength
  /\ output' = 0
  /\ command' = EmptyLine
  /\ typed' = <<>>
  /\ Goto("read")
  /\ UNCHANGED <<cmd_pos, output_len, scriptVars, temu_run, levelVars, eof>>

\* ... Backspace moves back and leaves the cell.
PressBackspaceKeepsCell ==
  /\ pc = "keys"
  /\ cmd_pos > 0
  /\ cmd_pos' = cmd_pos - 1
  /\ typed' = Front(typed)
  /\ Goto("read")
  /\ UNCHANGED <<command, outputVars, scriptVars, temu_run, levelVars, eof>>

\* ... the text is appended and output_len is not.
ReadOutputKeepsLength ==
  /\ pc = "read"
  /\ ~eof
  /\ \E clean_len \in 0..ReadMax :
       IF output_len + clean_len < BufSize - 1 THEN output' = output + clean_len ELSE output' = 0
  /\ Goto("draw")
  /\ UNCHANGED <<lineVars, output_len, last_len, scriptVars, temu_run, levelVars, eof>>

-----------------------------------------------------------------------------

\* cmd_pos < sizeof(command) - 1
Room == cmd_pos < CmdSize - 1

Init ==
  /\ command = EmptyLine
  /\ cmd_pos = 0
  /\ typed = <<>>
  /\ last_len = 0
  /\ output = 0
  /\ output_len = 0
  /\ just_opened = TRUE
  /\ start_tick_count = 0
  /\ waitParameter = 0
  /\ temu_run = FALSE
  /\ behind = FALSE
  /\ level \in LevelNames
  /\ eof = FALSE
  /\ pc = "closed"

-----------------------------------------------------------------------------

\* P in the game; the same frame already draws the console, or a menu over it
\* when Q is pressed in that frame too, or the level ends in it.
Open ==
  /\ pc = "closed"
  /\ temu_run' = TRUE
  /\ behind' \in BOOLEAN
  /\ Goto("draw")
  /\ UNCHANGED <<lineVars, outputVars, scriptVars, level, eof>>

\* Another level is chosen while the console is closed.
ChangeLevel ==
  /\ pc = "closed"
  /\ level' \in LevelNames
  /\ UNCHANGED <<lineVars, outputVars, scriptVars, temu_run, behind, eof, pc>>

\* A key goes to the command line, or rather the lowest byte of its code point:
\* one that is a multiple of 256 leaves a zero.
AcceptKey ==
  /\ pc = "key"
  /\ Room
  /\ ~just_opened
  /\ \E byte \in Chars \cup {NUL} :
       command' = [command EXCEPT ![cmd_pos] = byte] /\ typed' = Append(typed, byte)
  /\ cmd_pos' = cmd_pos + 1
  /\ Goto("keys")
  /\ UNCHANGED <<outputVars, scriptVars, temu_run, levelVars, eof>>

\* switch (start_tick_count) of the tutorial
TutorialTick ==
  \/ start_tick_count = 0 /\ start_tick_count' = 1 /\ UNCHANGED <<waitParameter, just_opened>>
  \/ /\ start_tick_count \in {1, 2}
     /\ IF waitParameter > WaitLimit
        THEN waitParameter' = 1 /\ start_tick_count' = start_tick_count + 1
        ELSE waitParameter' = waitParameter + 1 /\ UNCHANGED start_tick_count
     /\ UNCHANGED just_opened
  \/ /\ start_tick_count = 3
     /\ start_tick_count' = 5
     /\ just_opened' = FALSE
     /\ UNCHANGED waitParameter

\* The first key of a session, or a script under way: the output is wiped and
\* the level's script goes on.  Without a key only a script under way does so.
RunScript ==
  /\ pc = "key"
  /\ Scripting \/ (Room /\ just_opened)
  /\ output' = 0
  /\ IF level = Tutorial THEN TutorialTick ELSE UNCHANGED scriptVars
  /\ Goto("keys")
  /\ UNCHANGED <<lineVars, output_len, last_len, temu_run, levelVars, eof>>

\* No key, or a key there is no room for.
NoKey ==
  /\ pc = "key"
  /\ ~Scripting
  /\ Goto("keys")
  /\ UNCHANGED <<lineVars, outputVars, scriptVars, temu_run, levelVars, eof>>

\* F4 closes the console and returns: nothing else is looked at in this frame.
PressF4 ==
  /\ pc = "keys"
  /\ temu_run' = FALSE
  /\ just_opened' = TRUE
  /\ start_tick_count' = 0
  /\ command' = [command EXCEPT ![0] = NUL]
  /\ Goto("read")
  /\ UNCHANGED <<cmd_pos, typed, outputVars, waitParameter, levelVars, eof>>

\* Enter sends the line, and closes the console on "exit".
PressEnter ==
  /\ pc = "keys"
  /\ IF IsExit
     THEN temu_run' = FALSE /\ just_opened' = TRUE /\ start_tick_count' = 0
     ELSE UNCHANGED <<temu_run, just_opened, start_tick_count>>
  /\ last_len' = LineLength
  /\ output' = 0
  /\ command' = EmptyLine
  /\ cmd_pos' = 0
  /\ typed' = <<>>
  /\ Goto("read")
  /\ UNCHANGED <<output_len, waitParameter, levelVars, eof>>

PressBackspace ==
  /\ pc = "keys"
  /\ cmd_pos > 0
  /\ cmd_pos' = cmd_pos - 1
  /\ typed' = Front(typed)
  /\ command' = [command EXCEPT ![cmd_pos - 1] = NUL]
  /\ Goto("read")
  /\ UNCHANGED <<outputVars, scriptVars, temu_run, levelVars, eof>>

NoFunctionKey ==
  /\ pc = "keys"
  /\ Goto("read")
  /\ UNCHANGED <<lineVars, outputVars, scriptVars, temu_run, levelVars, eof>>

\* output_len + clean_len < sizeof(output_buf) - 1
Fits(clean_len) == output_len + clean_len < BufSize - 1

\* A chunk of output, cleaned, is appended; when it does not fit, the buffer is
\* emptied and the chunk dropped.
ReadOutput ==
  /\ pc = "read"
  /\ ~eof
  /\ \E clean_len \in 0..ReadMax :
       IF Fits(clean_len)
       THEN output' = output + clean_len /\ output_len' = output_len + clean_len
       ELSE output' = 0 /\ output_len' = 0
  /\ Goto("draw")
  /\ UNCHANGED <<lineVars, last_len, scriptVars, temu_run, levelVars, eof>>

\* EAGAIN
ReadNothing ==
  /\ pc = "read"
  /\ ~eof
  /\ Goto("draw")
  /\ UNCHANGED <<lineVars, outputVars, scriptVars, temu_run, levelVars, eof>>

\* The end of the emulator's output, or a read error, closes the console.
ReadEnd ==
  /\ pc = "read"
  /\ temu_run' = FALSE
  /\ eof' \in {eof, TRUE}
  /\ Goto("draw")
  /\ UNCHANGED <<lineVars, outputVars, scriptVars, levelVars>>

\* draw_console cuts the output behind the first copy of the last command.
DrawConsole ==
  /\ pc = "draw"
  /\ temu_run /\ ~behind
  /\ output' \in {output} \cup (IF last_len = 0 THEN {} ELSE 0..(output - last_len))
  /\ Goto("key")
  /\ UNCHANGED <<lineVars, output_len, last_len, scriptVars, temu_run, levelVars, eof>>

\* A menu hides the console, which keeps the keyboard: it is left for the game,
\* as it was or with another level.  (A level that cannot be loaded is not
\* followed further here: GameLoop has what becomes of the console then.)
DrawMenu ==
  /\ pc = "draw"
  /\ temu_run /\ behind
  /\ \/ UNCHANGED levelVars
     \/ behind' = FALSE /\ level' \in LevelNames
  /\ Goto("key")
  /\ UNCHANGED <<lineVars, outputVars, scriptVars, temu_run, eof>>

\* The console is closed: the frame draws the game, or the menus.
DrawGame ==
  /\ pc = "draw"
  /\ ~temu_run
  /\ behind' = FALSE
  /\ Goto("closed")
  /\ UNCHANGED <<lineVars, outputVars, scriptVars, temu_run, level, eof>>

Frame ==
  \/ AcceptKey \/ RunScript \/ NoKey \/ PressF4 \/ PressEnter \/ PressBackspace \/ NoFunctionKey
  \/ ReadOutput \/ ReadNothing \/ ReadEnd \/ DrawConsole \/ DrawMenu \/ DrawGame

Next == Open \/ ChangeLevel \/ Frame

Spec == Init /\ [][Next]_vars

\* An open console is computed frame after frame.
FairSpec == Spec /\ WF_vars(Frame)

-----------------------------------------------------------------------------
(* Properties *)

TypeOK ==
  /\ command \in [Cells -> Chars \cup {NUL}]
  /\ cmd_pos \in Cells
  /\ typed \in Seq(Chars \cup {NUL})
  /\ last_len \in Cells
  /\ output \in Nat
  /\ output_len \in Nat
  /\ just_opened \in BOOLEAN
  /\ start_tick_count \in {0, 1, 2, 3, 5}
  /\ waitParameter \in 0..(WaitLimit + 1)
  /\ temu_run \in BOOLEAN
  /\ behind \in BOOLEAN
  /\ level \in LevelNames
  /\ eof \in BOOLEAN
  /\ pc \in {"closed", "key", "keys", "read", "draw"}

\* strcat never writes past output_buf: the text is never longer than
\* output_len says, although four places shorten one without the other.
OutputFits == output <= output_len /\ output_len < BufSize - 1

\* The command line always ends inside its buffer: strcmp, strcpy and DrawText
\* stop, and strcpy to last_command fits.
CommandTerminated == \A i \in cmd_pos..(CmdSize - 1) : command[i] = NUL

\* Through every closing and opening of the console, script and Backspace, the
\* line stands for what was typed: as many cells before cmd_pos as keys not
\* taken back, each with its key's byte.  Only the first can have lost it, to
\* the zero F4 stores.
LineIsTyped ==
  /\ Len(typed) = cmd_pos
  /\ \A i \in 0..(cmd_pos - 1) : command[i] = typed[i + 1] \/ (i = 0 /\ command[i] = NUL)

\* A key is typed into the line only after the session's script has run: a
\* console the user closed starts the script again.
TypingAfterScript == ~just_opened => start_tick_count = 5

\* A script under way on the tutorial is run to its end, unless the console is
\* closed meanwhile or, open behind a menu, gets another level under it: that
\* level has no such script, and start_tick_count then stays where it is.
ScriptEnds ==
  (Scripting /\ level = Tutorial /\ pc = "key") ~>
    (start_tick_count = 5 \/ ~temu_run \/ level # Tutorial)

\* doc/sequence.puml: the command the user enters is the command sent, so the
\* bytes Enter sends are those of the keys that were typed.
SentIsTyped == [][PressEnter => \A i \in 0..(cmd_pos - 1) : command[i] = typed[i + 1]]_vars
=============================================================================
