------------------------------- MODULE ClearStr -------------------------------
(***************************************************************************)
(* clear_str of src/engine/console.c, iteration by iteration, and the      *)
(* chunks engine_update_console feeds it: the emulator's output is read    *)
(* piece by piece into a buffer on the stack, cleaned in place, and        *)
(* appended to what the console shows, or dropped with all of that when it *)
(* does not fit.  Between two reads the rest of the console shortens what  *)
(* is shown.                                                               *)
(*                                                                         *)
(* A character stands for its class: what the function tells apart.  The   *)
(* cells of the buffer behind a chunk hold what the stack held before.     *)
(***************************************************************************)
EXTENDS Integers, Sequences, FiniteSets, SequencesExt

CONSTANTS TEXT,        \* anything printable, and the bytes from 128 on
          NL,          \* \n
          CTL,         \* a control character, neither \n nor escape
          ESC, LB, M,  \* \033, [ and m
          TILDE, HASH,
          NUL,
          ReadMax,     \* the most one read returns: 1023
          OutSize,     \* sizeof(output_buf): BUFSIZ
          StreamMax,   \* bound: characters the emulator writes
          OutStarts    \* bound: what output_len may start with

Chars == {TEXT, NL, CTL, ESC, LB, M, TILDE, HASH}

ASSUME ClearStrAssumption ==
  /\ NUL \notin Chars
  /\ {CTL, ESC} \cap {TEXT, NL, LB, M, TILDE, HASH} = {} /\ CTL # ESC /\ LB # M
  /\ ReadMax \in Nat \ {0} /\ StreamMax \in Nat
  /\ OutSize \in Nat /\ ReadMax + 1 < OutSize /\ OutStarts \subseteq 0..(OutSize - 2)

VARIABLES rest,       \* what the emulator has written and nobody has read
          stream,     \* all it has written
          chunk,      \* the last chunk read
          buffer,     \* buffer[1024] of engine_update_console
          src, dst, in_escape,
          shown,      \* the text in output_buf
          output_len, \* console.output_len: it counts what was cut off, too
          begun,      \* characters read when output_buf was last empty
          pc

shownVars == <<shown, output_len, begun>>
ioVars == <<rest, stream, chunk, shownVars>>
vars == <<ioVars, buffer, src, dst, in_escape, pc>>

Cells == 0..ReadMax

\* *src >= 0 && *src < 32 && *src != '\n'
Controls == {CTL, ESC}

\* The string that starts a buffer
Length(b) == Cardinality({c \in Cells : \A d \in 0..c : b[d] # NUL})
String(b) == [c \in 1..Length(b) |-> b[c - 1]]

\* strchr, strstr: the first one becomes the end of the string.
CutAt(mark, b) ==
  [c \in Cells |-> IF c < Length(b) /\ b[c] = mark /\ (\A d \in 0..(c - 1) : b[d] # mark)
                   THEN NUL ELSE b[c]]

Init ==
  /\ stream \in BoundedSeq(Chars, StreamMax)
  /\ rest = stream
  /\ chunk = <<>>
  /\ buffer \in {[c \in Cells |-> s] : s \in {NUL, TEXT}}
  /\ src = 0 /\ dst = 0 /\ in_escape = FALSE
  \* output_buf was wiped, output_len may still count what it held
  /\ shown = <<>> /\ output_len \in OutStarts /\ begun = 0
  /\ pc = "read"

-----------------------------------------------------------------------------
(* Wrong forms of some of the steps below: each breaks a property *)

\* ... a control character is shown as two, like ^G.
SkipControlCaret ==
  /\ pc = "loop" /\ src + 1 \in Cells
  /\ ~in_escape
  /\ buffer[src] = CTL \/ (buffer[src] = ESC /\ buffer[src + 1] # LB)
  /\ buffer' = [c \in Cells |-> IF c \in {dst, dst + 1} THEN TEXT ELSE buffer[c]]
  /\ src' = src + 1 /\ dst' = dst + 2
  /\ UNCHANGED <<ioVars, in_escape, pc>>

\* ... the character behind the bracket ends the sequence.
InEscapeOneCharacter ==
  /\ pc = "loop" /\ src \in Cells /\ buffer[src] # NUL
  /\ in_escape
  /\ in_escape' = FALSE
  /\ src' = src + 1
  /\ UNCHANGED <<ioVars, buffer, dst, pc>>

\* ... src += 3: there is always a digit behind the bracket.
BeginEscapeWithDigit ==
  /\ pc = "loop" /\ src + 1 \in Cells
  /\ ~in_escape
  /\ buffer[src] = ESC /\ buffer[src + 1] = LB
  /\ in_escape' = TRUE
  /\ src' = src + 3
  /\ UNCHANGED <<ioVars, buffer, dst, pc>>

-----------------------------------------------------------------------------

\* read() returns some of what is there, engine_update_console ends it.
ReadChunk ==
  /\ pc = "read"
  /\ \E n \in 1..ReadMax :
       /\ n <= Len(rest)
       /\ chunk' = SubSeq(rest, 1, n)
       /\ rest' = SubSeq(rest, n + 1, Len(rest))
       /\ buffer' = [c \in Cells |-> IF c < n THEN rest[c + 1] ELSE IF c = n THEN NUL ELSE buffer[c]]
  /\ pc' = "cut"
  /\ UNCHANGED <<stream, shownVars, src, dst, in_escape>>

\* The shell's prompt, user@host:~#, ends what is shown.
CutPrompt ==
  /\ pc = "cut"
  /\ buffer' = CutAt(HASH, CutAt(TILDE, buffer))
  /\ src' = 0 /\ dst' = 0 /\ in_escape' = FALSE
  /\ pc' = "loop"
  /\ UNCHANGED ioVars

\* while (*src), inside an escape sequence
InEscape ==
  /\ pc = "loop" /\ src \in Cells /\ buffer[src] # NUL
  /\ in_escape
  /\ in_escape' = (buffer[src] # M)
  /\ src' = src + 1
  /\ UNCHANGED <<ioVars, buffer, dst, pc>>

BeginEscape ==
  /\ pc = "loop" /\ src + 1 \in Cells
  /\ ~in_escape
  /\ buffer[src] = ESC /\ buffer[src + 1] = LB
  /\ in_escape' = TRUE
  /\ src' = src + 2
  /\ UNCHANGED <<ioVars, buffer, dst, pc>>

\* A control character is skipped, and whatever is behind it copied: also
\* another one, also the final zero.
SkipControl ==
  /\ pc = "loop" /\ src + 1 \in Cells
  /\ ~in_escape
  /\ buffer[src] = CTL \/ (buffer[src] = ESC /\ buffer[src + 1] # LB)
  /\ buffer' = [buffer EXCEPT ![dst] = buffer[src + 1]]
  /\ src' = src + 2 /\ dst' = dst + 1
  /\ UNCHANGED <<ioVars, in_escape, pc>>

Copy ==
  /\ pc = "loop" /\ src \in Cells
  /\ ~in_escape
  /\ buffer[src] \notin Controls \cup {NUL}
  /\ buffer' = [buffer EXCEPT ![dst] = buffer[src]]
  /\ src' = src + 1 /\ dst' = dst + 1
  /\ UNCHANGED <<ioVars, in_escape, pc>>

Finish ==
  /\ pc = "loop" /\ src \in Cells
  /\ buffer[src] = NUL
  /\ buffer' = [buffer EXCEPT ![dst] = NUL]
  /\ pc' = "append"
  /\ UNCHANGED <<ioVars, src, dst, in_escape>>

\* src or src + 1 is behind the buffer: anything may follow.
Overrun ==
  /\ pc = "loop"
  /\ \/ src \notin Cells
     \/ src = ReadMax /\ ~in_escape /\ buffer[src] \in Controls
  /\ pc' = "overrun"
  /\ UNCHANGED <<ioVars, buffer, src, dst, in_escape>>

HasRead == Len(stream) - Len(rest)

\* output_len + clean_len < sizeof(output_buf) - 1
Fits == output_len + Length(buffer) < OutSize - 1

\* AppendCleaned wrong: what does not fit is dropped, what is shown stays.
AppendDropsOnlyChunk ==
  /\ pc = "append"
  /\ \/ /\ Fits
        /\ shown' = shown \o String(buffer) /\ output_len' = output_len + Length(buffer)
        /\ UNCHANGED begun
     \/ ~Fits /\ output_len' = 0 /\ begun' = HasRead /\ UNCHANGED shown
  /\ pc' = "read"
  /\ UNCHANGED <<rest, stream, chunk, buffer, src, dst, in_escape>>

\* strcat(output_buf, cleaned), or the chunk is dropped and all that is shown.
AppendCleaned ==
  /\ pc = "append"
  /\ \/ /\ Fits
        /\ shown' = shown \o String(buffer) /\ output_len' = output_len + Length(buffer)
        /\ UNCHANGED begun
     \/ ~Fits /\ shown' = <<>> /\ output_len' = 0 /\ begun' = HasRead
  /\ pc' = "read"
  /\ UNCHANGED <<rest, stream, chunk, buffer, src, dst, in_escape>>

\* Between two reads a key or Enter empties output_buf, and draw_console cuts
\* off its beginning; output_len stays.
Wipe ==
  /\ pc = "read"
  /\ \E n \in 1..Len(shown) :
       /\ shown' = SubSeq(shown, n + 1, Len(shown))
       /\ begun' = IF n = Len(shown) THEN HasRead ELSE begun
  /\ UNCHANGED <<rest, stream, chunk, output_len, buffer, src, dst, in_escape, pc>>

\* The emulator has no more to say, or nothing can be said of the process.
Ended ==
  /\ (pc = "read" /\ rest = <<>>) \/ pc = "overrun"
  /\ UNCHANGED vars

Next ==
  \/ ReadChunk \/ CutPrompt \/ InEscape \/ BeginEscape \/ SkipControl \/ Copy \/ Finish \/ Overrun
  \/ AppendCleaned \/ Wipe \/ Ended

Spec == Init /\ [][Next]_vars

-----------------------------------------------------------------------------
(* What clear_str is for: the text before the prompt, without its escape    *)
(* sequences and control characters.                                        *)

BeforePrompt(s) ==
  SubSeq(s, 1, Cardinality({i \in DOMAIN s : \A k \in 1..i : s[k] \notin {TILDE, HASH}}))

\* The i-th character is part of an escape sequence.
Escaped(s, i) ==
  \E b \in 1..i : /\ b < Len(s) /\ s[b] = ESC /\ s[b + 1] = LB
                 /\ \A k \in (b + 2)..(i - 1) : s[k] # M

Kept(s) == {i \in DOMAIN s : ~Escaped(s, i) /\ s[i] \notin Controls}
KeptUpTo(s, i) == Cardinality({k \in Kept(s) : k <= i})

\* The kept characters, in their order
Filtered(s) ==
  [n \in 1..Cardinality(Kept(s)) |-> s[CHOOSE i \in Kept(s) : KeptUpTo(s, i) = n]]

\* No control character follows another one.
Orderly(s) ==
  \A i \in 1..(Len(s) - 1) : s[i] \in Controls /\ ~Escaped(s, i) => s[i + 1] \notin Controls

-----------------------------------------------------------------------------
(* Properties *)

TypeOK ==
  /\ stream \in Seq(Chars) /\ rest \in Seq(Chars) /\ chunk \in Seq(Chars)
  /\ Len(rest) <= Len(stream)
  /\ buffer \in [Cells -> Chars \cup {NUL}]
  /\ src \in 0..(ReadMax + 1) /\ dst \in 0..(ReadMax + 1)
  /\ in_escape \in BOOLEAN
  /\ shown \in Seq(Chars \cup {NUL}) /\ output_len \in Nat /\ begun \in Nat
  /\ pc \in {"read", "cut", "loop", "append", "overrun"}

\* Cleaning in place never writes a cell it has yet to read.
InPlace == dst <= src

\* A chunk in which no control character follows another is shown without its
\* escape sequences and control characters, up to the prompt.
CleansOrderlyText ==
  pc = "append" /\ Orderly(BeforePrompt(chunk)) => String(buffer) = Filtered(BeforePrompt(chunk))

\* Only a chunk whose text ends in a control character takes src behind the
\* terminator, and from there out of the buffer.
OverrunNeedsControl ==
  pc = "overrun" => /\ BeforePrompt(chunk) # <<>>
                    /\ Last(BeforePrompt(chunk)) \in Controls

\* Plain output: no prompt, no control characters in a row, no sequence left open.
Plain(s) ==
  /\ Orderly(s) /\ BeforePrompt(s) = s
  /\ s # <<>> /\ Escaped(s, Len(s)) => Last(s) = M

\* What was read before the last chunk, since nothing was shown.
Earlier == SubSeq(stream, begun + 1, HasRead - Len(chunk))

\* No sequence is cut between that and the last chunk.
Uncut ==
  /\ Plain(Earlier) /\ Plain(chunk)
  /\ ~(Earlier # <<>> /\ Last(Earlier) = ESC /\ chunk[1] = LB)

\* Each chunk is cleaned for itself, and that is only right for a cut between
\* sequences: then what is shown goes on as if it had been cleaned in one piece,
\* and when the chunk does not fit the engine shows nothing any more.
CutBetweenSequences ==
  [][pc = "append" /\ Uncut /\ shown = Filtered(Earlier) =>
       shown' = IF output_len + Len(Filtered(chunk)) < OutSize - 1
                THEN Filtered(Earlier \o chunk) ELSE <<>>]_vars
=============================================================================
