---------------------------- MODULE ConsoleProofs ----------------------------
(***************************************************************************)
(* Theorems about Console, for every size of its buffers, every key and    *)
(* every way output arrives: no write of update_input, of                  *)
(* engine_update_console or of draw_console leaves its buffer.             *)
(***************************************************************************)
EXTENDS Console, FiniteSetTheorems, SequenceTheorems, TLAPS

LineInv == CommandTerminated /\ LineIsTyped

\* Backspace takes the last key back.
LEMMA FrontType ==
  ASSUME NEW S, NEW s \in Seq(S), s # <<>>
  PROVE  /\ Front(s) \in Seq(S)
         /\ Len(Front(s)) = Len(s) - 1
         /\ \A i \in 1..(Len(s) - 1) : Front(s)[i] = s[i]
<1> DEFINE n == Len(s) - 1
<1>1. n \in Nat /\ \A i \in 1..n : s[i] \in S
  BY EmptySeq, LenProperties
<1>2. /\ SubSeq(s, 1, n) \in Seq(S)
      /\ Len(SubSeq(s, 1, n)) = IF 1 <= n THEN n - 1 + 1 ELSE 0
      /\ \A i \in 1..(n - 1 + 1) : SubSeq(s, 1, n)[i] = s[1 + i - 1]
  <2> HIDE DEF n
  <2> QED
    BY <1>1, SubSeqProperties
<1>3. \A i \in 1..n : i \in 1..(n - 1 + 1) /\ s[1 + i - 1] = s[i]
  BY <1>1
<1> HIDE DEF n
<1>4. Front(s) = SubSeq(s, 1, n)
  BY DEF Front, n
<1>5. Len(Front(s)) = n /\ \A i \in 1..n : Front(s)[i] = s[i]
  BY <1>1, <1>2, <1>3, <1>4
<1> QED
  BY <1>2, <1>4, <1>5 DEF n

\* strlen of a terminated line is an index of the line, so that strcpy of
\* command to last_command, of the same size, fits.
LEMMA LineLengthType ==
  ASSUME TypeOK, CommandTerminated
  PROVE  LineLength \in Cells
<1> DEFINE S == {n \in Cells : \A i \in 0..n : command[i] # NUL}
<1>1. S \subseteq 0..(CmdSize - 2)
  <2> SUFFICES ASSUME NEW n \in S PROVE n \in 0..(CmdSize - 2)
    OBVIOUS
  <2>1. command[CmdSize - 1] = NUL
    BY ConsoleAssumption DEF CommandTerminated, TypeOK, Cells
  <2> QED
    BY <2>1, ConsoleAssumption DEF Cells
<1>2. IsFiniteSet(0..(CmdSize - 2)) /\ Cardinality(0..(CmdSize - 2)) = CmdSize - 1
  <2> DEFINE k == CmdSize - 2
  <2>1. k \in Int /\ ~(0 > k) /\ k - 0 + 1 = CmdSize - 1
    BY ConsoleAssumption
  <2> HIDE DEF k
  <2>2. IsFiniteSet(0..k) /\ Cardinality(0..k) = k - 0 + 1
    BY <2>1, FS_Interval
  <2>3. QED
    BY <2>1, <2>2 DEF k
<1>3. IsFiniteSet(S) /\ Cardinality(S) <= CmdSize - 1
  BY <1>1, <1>2, FS_Subset
<1>4. Cardinality(S) \in Nat
  BY <1>3, FS_CardinalityType
<1> QED
  BY <1>3, <1>4, ConsoleAssumption DEF LineLength, Cells

\* Every step of the frame keeps the types.
LEMMA TypeStep == TypeOK /\ LineInv /\ [Next]_vars => TypeOK'
<1> SUFFICES ASSUME TypeOK, LineInv, [Next]_vars PROVE TypeOK'
  OBVIOUS
<1> USE ConsoleAssumption DEF TypeOK, Cells, Goto, lineVars, outputVars, scriptVars, levelVars
<1>1. CASE Open
  BY <1>1 DEF Open
<1>2. CASE ChangeLevel
  BY <1>2 DEF ChangeLevel
<1>3. CASE AcceptKey
  BY <1>3 DEF AcceptKey, Room
<1>4. CASE RunScript
  <2>1. CASE level # Tutorial
    BY <1>4, <2>1 DEF RunScript
  <2>2. CASE level = Tutorial /\ TutorialTick
    <3>1. start_tick_count' \in {0, 1, 2, 3, 5}
      BY <2>2 DEF TutorialTick
    <3>2. waitParameter' \in 0..(WaitLimit + 1)
      BY <2>2 DEF TutorialTick
    <3>3. just_opened' \in BOOLEAN
      BY <2>2 DEF TutorialTick
    <3> QED
      BY <3>1, <3>2, <3>3, <1>4 DEF RunScript
  <2> QED
    BY <2>1, <2>2, <1>4 DEF RunScript
<1>5. CASE NoKey
  BY <1>5 DEF NoKey
<1>6. CASE PressF4
  BY <1>6 DEF PressF4
<1>7. CASE PressEnter
  <2>1. LineLength \in Cells
    BY LineLengthType DEF LineInv
  <2>2. typed' \in Seq(Chars \cup {NUL})
    BY <1>7 DEF PressEnter
  <2>3. command' \in [Cells -> Chars \cup {NUL}] /\ cmd_pos' \in Cells
    BY <1>7 DEF PressEnter, EmptyLine
  <2>4. just_opened' \in BOOLEAN /\ start_tick_count' \in {0, 1, 2, 3, 5} /\ temu_run' \in BOOLEAN
    BY <1>7 DEF PressEnter
  <2>5. /\ last_len' \in Cells /\ output' \in Nat /\ pc' = "read"
        /\ UNCHANGED <<output_len, waitParameter, level, behind, eof>>
    BY <1>7, <2>1 DEF PressEnter
  <2> HIDE DEF Cells
  <2> QED
    BY <2>2, <2>3, <2>4, <2>5
<1>8. CASE PressBackspace
  <2>1. typed # <<>>
    BY <1>8 DEF PressBackspace, LineInv, LineIsTyped
  <2>2. typed' \in Seq(Chars \cup {NUL})
    BY <1>8, <2>1, FrontType DEF PressBackspace
  <2> QED
    BY <1>8, <2>2 DEF PressBackspace
<1>9. CASE NoFunctionKey
  BY <1>9 DEF NoFunctionKey
<1>10. CASE ReadOutput
  BY <1>10 DEF ReadOutput, Fits
<1>11. CASE ReadNothing
  BY <1>11 DEF ReadNothing
<1>12. CASE ReadEnd
  BY <1>12 DEF ReadEnd
<1>13. CASE DrawConsole
  BY <1>13 DEF DrawConsole
<1>14. CASE DrawGame
  BY <1>14 DEF DrawGame
<1>14a. CASE DrawMenu
  BY <1>14a DEF DrawMenu
<1>15. CASE UNCHANGED vars
  BY <1>15 DEF vars
<1> QED
  BY <1>1, <1>2, <1>3, <1>4, <1>5, <1>6, <1>7, <1>8, <1>9, <1>10, <1>11, <1>12, <1>13, <1>14, <1>14a,
     <1>15
     DEF Next, Frame

\* Every step keeps the zero behind the line and, before it, the keys typed: only
\* F4 changes a cell that is not the last, and it clears the first.
LEMMA LineStep == TypeOK /\ LineInv /\ [Next]_vars => LineInv'
<1> SUFFICES ASSUME TypeOK, LineInv, [Next]_vars PROVE LineInv'
  OBVIOUS
<1> USE ConsoleAssumption DEF TypeOK, LineInv, CommandTerminated, LineIsTyped, Cells, lineVars
<1>1. CASE AcceptKey
  <2>1. PICK byte \in Chars \cup {NUL} :
          command' = [command EXCEPT ![cmd_pos] = byte] /\ typed' = Append(typed, byte)
    BY <1>1 DEF AcceptKey
  <2>2. cmd_pos' = cmd_pos + 1 /\ cmd_pos < CmdSize - 1
    BY <1>1 DEF AcceptKey, Room
  <2>3. /\ Len(typed') = cmd_pos + 1 /\ typed'[cmd_pos + 1] = byte
        /\ \A n \in 1..cmd_pos : typed'[n] = typed[n]
    BY <2>1
  <2>4. command'[cmd_pos] = byte /\ \A i \in Cells : i # cmd_pos => command'[i] = command[i]
    BY <2>1
  <2>5. CommandTerminated'
    BY <2>2, <2>4
  <2>6. LineIsTyped'
    BY <2>2, <2>3, <2>4
  <2> QED
    BY <2>5, <2>6
<1>2. CASE PressF4
  BY <1>2 DEF PressF4
<1>3. CASE PressEnter
  BY <1>3 DEF PressEnter, EmptyLine
<1>4. CASE PressBackspace
  <2>1. typed # <<>> /\ cmd_pos' = cmd_pos - 1 /\ cmd_pos > 0
    BY <1>4 DEF PressBackspace
  <2>2. Len(typed') = Len(typed) - 1 /\ \A n \in 1..(Len(typed) - 1) : typed'[n] = typed[n]
    BY <1>4, <2>1, FrontType DEF PressBackspace
  <2>3. command' = [command EXCEPT ![cmd_pos - 1] = NUL]
    BY <1>4 DEF PressBackspace
  <2>4. CommandTerminated'
    BY <2>1, <2>3
  <2>5. LineIsTyped'
    BY <2>1, <2>2, <2>3
  <2> QED
    BY <2>4, <2>5
<1>5. CASE UNCHANGED <<command, cmd_pos, typed>>
  BY <1>5
<1> QED
  BY <1>1, <1>2, <1>3, <1>4, <1>5
     DEF Next, Frame, Open, ChangeLevel, RunScript, NoKey, NoFunctionKey, ReadOutput, ReadNothing,
         ReadEnd, DrawConsole, DrawMenu, DrawGame, vars

\* Every step keeps output_len at or above the length of the text: whatever
\* shortens the text leaves output_len, and what appends adds to both.
LEMMA OutputStep == TypeOK /\ OutputFits /\ [Next]_vars => OutputFits'
<1> SUFFICES ASSUME TypeOK, OutputFits, [Next]_vars PROVE OutputFits'
  OBVIOUS
<1> USE ConsoleAssumption DEF TypeOK, OutputFits, Cells, outputVars
<1>1. CASE RunScript
  BY <1>1 DEF RunScript, TutorialTick
<1>2. CASE PressEnter
  BY <1>2 DEF PressEnter, EmptyLine
<1>3. CASE ReadOutput
  BY <1>3 DEF ReadOutput, Fits
<1>4. CASE DrawConsole
  BY <1>4 DEF DrawConsole
<1>5. CASE UNCHANGED <<output, output_len>>
  BY <1>5
<1> QED
  BY <1>1, <1>2, <1>3, <1>4, <1>5
     DEF Next, Frame, Open, ChangeLevel, AcceptKey, NoKey, PressF4, PressBackspace, NoFunctionKey,
         ReadNothing, ReadEnd, DrawMenu, DrawGame, vars

\* The empty console satisfies all three, whichever the level.
LEMMA Initially == Init => TypeOK /\ LineInv /\ OutputFits
<1> SUFFICES ASSUME Init PROVE TypeOK /\ LineInv /\ OutputFits
  OBVIOUS
<1>1. 0 \in Cells /\ EmptyLine \in [Cells -> Chars \cup {NUL}]
  BY ConsoleAssumption DEF Cells, EmptyLine
<1>2. TypeOK
  BY <1>1, ConsoleAssumption DEF Init, TypeOK
<1>3. LineInv
  BY ConsoleAssumption
     DEF Init, LineInv, CommandTerminated, LineIsTyped, EmptyLine, Cells
<1>4. OutputFits
  BY ConsoleAssumption DEF Init, OutputFits
<1> QED
  BY <1>2, <1>3, <1>4

\* What the theorems below are read from.
LEMMA Inductive == Spec => [](TypeOK /\ LineInv /\ OutputFits)
<1>1. TypeOK /\ LineInv /\ OutputFits /\ [Next]_vars => (TypeOK /\ LineInv /\ OutputFits)'
  BY TypeStep, LineStep, OutputStep DEF LineInv
<1> QED
  BY Initially, <1>1, PTL DEF Spec

-----------------------------------------------------------------------------

\* The console keeps its types; in particular cmd_pos is always an index of
\* the command line.
THEOREM TypeCorrect == Spec => []TypeOK
  BY Inductive, PTL

\* strcat in engine_update_console never writes past the output buffer.
THEOREM OutputSafe == Spec => []OutputFits
  BY Inductive, PTL

\* The command line always holds its final zero.
THEOREM LineSafe == Spec => []CommandTerminated
  BY Inductive, PTL DEF LineInv

\* The line always stands for the keys typed and not taken back: however often
\* the console is closed and opened, only its first cell can be lost.
THEOREM LineKept == Spec => []LineIsTyped
  BY Inductive, PTL DEF LineInv

\* No key reaches the line before the session's script has run: what sets
\* just_opened back also sets start_tick_count back.
THEOREM ScriptFirst == Spec => []TypingAfterScript
<1>1. Init => TypingAfterScript
  BY DEF Init, TypingAfterScript
<1>2. TypeOK /\ TypingAfterScript /\ [Next]_vars => TypingAfterScript'
  <2> SUFFICES ASSUME TypeOK, TypingAfterScript, [Next]_vars PROVE TypingAfterScript'
    OBVIOUS
  <2> USE DEF TypeOK, TypingAfterScript
  <2>1. CASE RunScript
    BY <2>1 DEF RunScript, Scripting, TutorialTick, scriptVars
  <2>2. CASE PressF4
    BY <2>2 DEF PressF4
  <2>3. CASE PressEnter
    BY <2>3 DEF PressEnter
  <2>4. CASE UNCHANGED <<just_opened, start_tick_count>>
    BY <2>4
  <2> QED
    BY <2>1, <2>2, <2>3, <2>4
       DEF Next, Frame, scriptVars, Open, ChangeLevel, AcceptKey, NoKey, PressBackspace,
           NoFunctionKey, ReadOutput, ReadNothing, ReadEnd, DrawConsole, DrawMenu, DrawGame, vars
<1> QED
  BY <1>1, <1>2, Inductive, PTL DEF Spec
=============================================================================
