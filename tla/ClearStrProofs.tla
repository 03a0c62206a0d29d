--------------------------- MODULE ClearStrProofs ---------------------------
(***************************************************************************)
(* Theorems about ClearStr, for chunks and streams of any length.          *)
(***************************************************************************)
EXTENDS ClearStr, FiniteSetTheorems, SequenceTheorems, TLAPS

Buffers == [Cells -> Chars \cup {NUL}]

\* The string that starts a buffer is a sequence of characters.
LEMMA StringType ==
  ASSUME NEW b \in Buffers
  PROVE  String(b) \in Seq(Chars \cup {NUL})
<1> DEFINE S == {c \in Cells : \A d \in 0..c : b[d] # NUL}
<1> USE ClearStrAssumption
<1>1. IsFiniteSet(Cells) /\ Cardinality(Cells) = ReadMax + 1
  BY FS_Interval DEF Cells
<1>2. S \subseteq Cells
  OBVIOUS
<1>3. Cardinality(S) \in Nat /\ Cardinality(S) <= ReadMax + 1
  BY <1>1, <1>2, FS_Subset, FS_CardinalityType
<1>4. Length(b) = Cardinality(S)
  BY DEF Length
<1>5. \A c \in 1..Length(b) : b[c - 1] \in Chars \cup {NUL}
  BY <1>3, <1>4 DEF Buffers, Cells
<1> QED
  BY <1>3, <1>4, <1>5, IsASeq DEF String

\* The length of the string that starts a buffer is a number.
LEMMA LengthType ==
  ASSUME NEW b \in Buffers
  PROVE  Length(b) \in Nat
<1> DEFINE S == {c \in Cells : \A d \in 0..c : b[d] # NUL}
<1>1. IsFiniteSet(Cells)
  BY ClearStrAssumption, FS_Interval DEF Cells
<1>2. IsFiniteSet(S)
  BY <1>1, FS_Subset
<1> QED
  BY <1>2, FS_CardinalityType DEF Length

\* Ending a string at a mark keeps the buffer's type.
LEMMA CutType ==
  ASSUME NEW b \in Buffers, NEW mark
  PROVE  CutAt(mark, b) \in Buffers
  BY DEF CutAt, Buffers

\* Before the first read both hold.
LEMMA Initially == Init => TypeOK /\ InPlace
<1> SUFFICES ASSUME Init PROVE TypeOK /\ InPlace
  OBVIOUS
<1> USE ClearStrAssumption DEF Init
<1>1. stream \in Seq(Chars)
  BY DEF BoundedSeq, SeqOf
<1>2. buffer \in [Cells -> Chars \cup {NUL}]
  BY DEF Chars
<1>3. shown \in Seq(Chars \cup {NUL}) /\ chunk \in Seq(Chars)
  OBVIOUS
<1> QED
  <2>1. rest \in Seq(Chars) /\ src = 0 /\ dst = 0 /\ in_escape \in BOOLEAN /\ pc = "read"
    BY <1>1
  <2>3. Len(rest) <= Len(stream)
    <3>1. rest = stream /\ Len(stream) \in Nat
      BY ONLY Init, <1>1 DEF Init
    <3> QED
      BY ONLY <3>1
  <2>2. output_len \in Nat /\ begun \in Nat
    BY ONLY Init, ClearStrAssumption DEF Init
  <2> QED
    BY ONLY <1>1, <1>2, <1>3, <2>1, <2>2, <2>3, ClearStrAssumption DEF TypeOK, InPlace

\* Every step keeps the types and stays behind what it has read.
LEMMA Step == TypeOK /\ InPlace /\ [Next]_vars => TypeOK' /\ InPlace'
<1> SUFFICES ASSUME TypeOK, InPlace, [Next]_vars PROVE TypeOK' /\ InPlace'
  OBVIOUS
<1> USE ClearStrAssumption DEF TypeOK, InPlace
<1>1. CASE ReadChunk
  <2>1. PICK n \in 1..ReadMax :
          /\ n <= Len(rest)
          /\ chunk' = SubSeq(rest, 1, n)
          /\ rest' = SubSeq(rest, n + 1, Len(rest))
          /\ buffer' = [c \in Cells |-> IF c < n THEN rest[c + 1]
                                        ELSE IF c = n THEN NUL ELSE buffer[c]]
    BY <1>1 DEF ReadChunk
  <2>2. chunk' \in Seq(Chars) /\ rest' \in Seq(Chars) /\ Len(rest') <= Len(stream)
    BY <2>1, SubSeqProperties
  <2>3. \A c \in Cells : c < n => rest[c + 1] \in Chars
    BY <2>1 DEF Cells
  <2>4. buffer' \in [Cells -> Chars \cup {NUL}]
    BY <2>1, <2>3
  <2> QED
    BY <1>1, <2>2, <2>4 DEF ReadChunk, shownVars
<1>2. CASE CutPrompt
  <2>1. CutAt(TILDE, buffer) \in Buffers
    BY CutType DEF Buffers
  <2>2. buffer' \in Buffers
    BY <1>2, <2>1, CutType DEF CutPrompt
  <2>3. src' = 0 /\ dst' = 0 /\ in_escape' \in BOOLEAN /\ pc' = "loop" /\ UNCHANGED ioVars
    BY <1>2 DEF CutPrompt
  <2> QED
    BY <2>2, <2>3 DEF ioVars, shownVars, Buffers
<1>3. CASE InEscape
  <2>1. in_escape' \in BOOLEAN
    BY <1>3 DEF InEscape
  <2> QED
    BY <1>3, <2>1 DEF InEscape, ioVars, shownVars, Cells
<1>4. CASE BeginEscape
  BY <1>4 DEF BeginEscape, ioVars, shownVars, Cells
<1>5. CASE SkipControl
  <2>1. buffer' \in [Cells -> Chars \cup {NUL}]
    BY <1>5 DEF SkipControl
  <2> QED
    BY <1>5, <2>1 DEF SkipControl, ioVars, shownVars, Cells
<1>6. CASE Copy
  <2>1. buffer' \in [Cells -> Chars \cup {NUL}]
    BY <1>6 DEF Copy
  <2> QED
    BY <1>6, <2>1 DEF Copy, ioVars, shownVars, Cells
<1>7. CASE Finish
  <2>1. buffer' \in [Cells -> Chars \cup {NUL}]
    BY <1>7 DEF Finish
  <2> QED
    BY <1>7, <2>1 DEF Finish, ioVars, shownVars
<1>8. CASE Overrun
  BY <1>8 DEF Overrun, ioVars, shownVars
<1>9. CASE AppendCleaned
  <2>1. String(buffer) \in Seq(Chars \cup {NUL}) /\ Length(buffer) \in Nat
    BY StringType, LengthType DEF Buffers
  <2>2. HasRead \in Nat
    BY DEF HasRead
  <2>3. shown' \in Seq(Chars \cup {NUL}) /\ output_len' \in Nat /\ begun' \in Nat
    <3>1. CASE /\ shown' = shown \o String(buffer)
               /\ output_len' = output_len + Length(buffer) /\ begun' = begun
      <4>1. shown \o String(buffer) \in Seq(Chars \cup {NUL})
        BY ONLY TypeOK, <2>1, ConcatProperties DEF TypeOK
      <4> QED
        BY ONLY TypeOK, <2>1, <3>1, <4>1 DEF TypeOK
    <3>2. CASE shown' = <<>> /\ output_len' = 0 /\ begun' = HasRead
      BY ONLY <2>2, <3>2
    <3> QED
      BY ONLY <1>9, <3>1, <3>2 DEF AppendCleaned
  <2> QED
    BY <1>9, <2>3 DEF AppendCleaned
<1>12. CASE Wipe
  <2>1. shown' \in Seq(Chars \cup {NUL}) /\ begun' \in Nat
    <3>1. HasRead \in Nat
      BY DEF HasRead
    <3>2. PICK n \in 1..Len(shown) : /\ shown' = SubSeq(shown, n + 1, Len(shown))
                                     /\ begun' = IF n = Len(shown) THEN HasRead ELSE begun
      BY <1>12 DEF Wipe
    <3> QED
      BY <3>1, <3>2, SubSeqProperties
  <2> QED
    BY <1>12, <2>1 DEF Wipe
<1>10. CASE Ended
  BY <1>10 DEF Ended, vars, ioVars, shownVars
<1>11. CASE UNCHANGED vars
  BY <1>11 DEF vars, ioVars, shownVars
<1> QED
  BY <1>1, <1>2, <1>3, <1>4, <1>5, <1>6, <1>7, <1>8, <1>9, <1>10, <1>11, <1>12 DEF Next

-----------------------------------------------------------------------------

\* The buffer, its indices and what is shown keep their types.
THEOREM TypeCorrect == Spec => []TypeOK
  BY Initially, Step, PTL DEF Spec

\* clear_str never writes over a character it has yet to read.
THEOREM CleansInPlace == Spec => []InPlace
  BY Initially, Step, PTL DEF Spec

-----------------------------------------------------------------------------

\* A set that reaches from a without a gap is as long as it has members.
LEMMA Gapless ==
  ASSUME NEW a \in Nat, NEW b \in Nat, NEW T \in SUBSET (a..b),
         \A c \in T : a..c \subseteq T
  PROVE  Cardinality(T) \in Nat /\ T = a..(a + Cardinality(T) - 1)
<1> DEFINE k == Cardinality(T)
<1>1. IsFiniteSet(a..b) /\ Cardinality(a..b) = IF a > b THEN 0 ELSE b - a + 1
  BY FS_Interval
<1>2. IsFiniteSet(T) /\ k \in Nat /\ k <= Cardinality(a..b)
  BY <1>1, FS_Subset, FS_CardinalityType
<1>3. ASSUME NEW c \in T PROVE c \in a..(a + k - 1)
  <2>1. c \in Nat /\ a <= c
    OBVIOUS
  <2>2. Cardinality(a..c) = c - a + 1
    BY <2>1, FS_Interval
  <2>3. Cardinality(a..c) <= k
    BY <1>2, FS_Subset
  <2> QED
    BY <1>2, <2>1, <2>2, <2>3
<1>4. IsFiniteSet(a..(a + k - 1)) /\ Cardinality(a..(a + k - 1)) = k
  <2> DEFINE e == a + k - 1
  <2>1. k \in Nat
    BY <1>2
  <2> HIDE DEF k
  <2>2. /\ a \in Int /\ e \in Int
        /\ (IF a > e THEN 0 ELSE e - a + 1) = k
    BY <2>1
  <2> HIDE DEF e
  <2>3. IsFiniteSet(a..e) /\ Cardinality(a..e) = (IF a > e THEN 0 ELSE e - a + 1)
    BY <2>2, FS_Interval
  <2> QED
    BY <2>2, <2>3 DEF e
<1>5. T \in SUBSET (a..(a + k - 1))
  BY <1>3
<1>6. T = a..(a + k - 1)
  <2> HIDE DEF k
  <2>1. Cardinality(a..(a + k - 1)) = Cardinality(T)
    BY <1>4 DEF k
  <2> QED
    BY <1>4, <1>5, <2>1, FS_Subset
<1> QED
  BY <1>2, <1>6

\* A string ends at its first zero, or fills the buffer.
LEMMA LengthIs ==
  ASSUME NEW b \in Buffers
  PROVE  /\ Length(b) \in 0..(ReadMax + 1)
         /\ \A c \in 0..(Length(b) - 1) : b[c] # NUL
         /\ Length(b) <= ReadMax => b[Length(b)] = NUL
<1> DEFINE T == {c \in Cells : \A d \in 0..c : b[d] # NUL}
           n == Length(b)
<1>1. /\ ReadMax \in Nat /\ T \in SUBSET (0..ReadMax) /\ (\A c \in T : 0..c \subseteq T)
      /\ \A c \in Cells : (c \in T <=> \A d \in 0..c : b[d] # NUL)
  BY ClearStrAssumption DEF Cells
<1>2. n = Cardinality(T)
  BY DEF Length
<1> HIDE DEF T, n
<1>3. n \in Nat /\ n <= ReadMax + 1
  <2>1. IsFiniteSet(0..ReadMax) /\ Cardinality(0..ReadMax) = ReadMax + 1
    BY <1>1, FS_Interval
  <2>2. T \in SUBSET (0..ReadMax)
    BY <1>1
  <2>3. IsFiniteSet(T) /\ Cardinality(T) <= Cardinality(0..ReadMax)
    BY ONLY <2>1, <2>2, FS_Subset
  <2>4. Cardinality(T) \in Nat
    BY ONLY <2>3, FS_CardinalityType
  <2> QED
    BY ONLY <1>2, <2>1, <2>3, <2>4
<1>4. T = 0..(n - 1)
  <2>1. T = 0..(0 + Cardinality(T) - 1)
    BY <1>1, Gapless
  <2> QED
    BY <1>2, <1>3, <2>1
<1>5. \A c \in 0..(n - 1) : b[c] # NUL
  BY <1>1, <1>3, <1>4 DEF Cells
<1>6. n <= ReadMax => b[n] = NUL
  <2> SUFFICES ASSUME n <= ReadMax, b[n] # NUL PROVE FALSE
    OBVIOUS
  <2>1. \A d \in 0..n : b[d] # NUL
    BY <1>3, <1>5
  <2>2. n \in Cells
    BY <1>3 DEF Cells
  <2>3. n \in T
    BY <1>1, <2>1, <2>2
  <2> QED
    BY <1>3, <1>4, <2>3
<1> QED
  BY <1>1, <1>3, <1>5, <1>6 DEF n

\* What is shown of a text ends before its first mark, or with the text.
LEMMA BeforePromptIs ==
  ASSUME NEW s \in Seq(Chars)
  PROVE  /\ BeforePrompt(s) \in Seq(Chars) /\ Len(BeforePrompt(s)) \in 0..Len(s)
         /\ \A k \in 1..Len(BeforePrompt(s)) :
              BeforePrompt(s)[k] = s[k] /\ s[k] \notin {TILDE, HASH}
         /\ Len(BeforePrompt(s)) < Len(s) => s[Len(BeforePrompt(s)) + 1] \in {TILDE, HASH}
<1> DEFINE T == {i \in DOMAIN s : \A k \in 1..i : s[k] \notin {TILDE, HASH}}
           n == Cardinality(T)
           m == Len(s)
<1>1. /\ m \in Nat /\ T \in SUBSET (1..m) /\ (\A c \in T : 1..c \subseteq T)
      /\ \A c \in 1..m : (c \in T <=> \A k \in 1..c : s[k] \notin {TILDE, HASH})
  OBVIOUS
<1>2. BeforePrompt(s) = SubSeq(s, 1, n)
  BY DEF BeforePrompt
<1> HIDE DEF T, m
<1>3. n \in Nat /\ n <= m
  <2>1. IsFiniteSet(1..m) /\ Cardinality(1..m) = m
    BY <1>1, FS_Interval
  <2>2. T \in SUBSET (1..m)
    BY <1>1
  <2>3. IsFiniteSet(T) /\ Cardinality(T) <= Cardinality(1..m)
    BY ONLY <2>1, <2>2, FS_Subset
  <2>4. Cardinality(T) \in Nat
    BY ONLY <2>3, FS_CardinalityType
  <2> QED
    BY ONLY <2>1, <2>3, <2>4
<1>4. T = 1..(1 + n - 1)
  BY <1>1, Gapless
<1> HIDE DEF n
<1>5. T = 1..n
  BY <1>3, <1>4
<1>6. /\ BeforePrompt(s) \in Seq(Chars) /\ Len(BeforePrompt(s)) = n
      /\ \A k \in 1..n : BeforePrompt(s)[k] = s[k]
  <2>1. \A k \in 1..n : s[k] \in Chars
    BY <1>1, <1>3 DEF m
  <2>2. /\ SubSeq(s, 1, n) \in Seq(Chars) /\ Len(SubSeq(s, 1, n)) = n
        /\ \A k \in 1..n : SubSeq(s, 1, n)[k] = s[k]
    BY <1>3, <2>1, SubSeqProperties
  <2> QED
    BY <1>2, <2>2
<1>7. \A k \in 1..n : s[k] \notin {TILDE, HASH}
  BY <1>1, <1>3, <1>5
<1>8. n < m => s[n + 1] \in {TILDE, HASH}
  <2> SUFFICES ASSUME n < m, s[n + 1] \notin {TILDE, HASH} PROVE FALSE
    OBVIOUS
  <2>1. \A k \in 1..(n + 1) : s[k] \notin {TILDE, HASH}
    BY <1>3, <1>7
  <2>2. n + 1 \in T
    BY <1>1, <1>3, <2>1
  <2> QED
    BY <1>3, <1>5, <2>2
<1> QED
  BY <1>3, <1>6, <1>7, <1>8 DEF m

-----------------------------------------------------------------------------

\* Where the text of the chunk ends, as cells are counted.
End == Len(BeforePrompt(chunk))

EndsInControl == End > 0 /\ chunk[End] \in Controls

\* A chunk ready to be cut is in the buffer, with its terminator; from then on
\* what src has yet to pass is untouched, and src passes the terminator only
\* by way of a control character in front of it.
TextInv ==
  /\ pc = "cut" => /\ Len(chunk) \in 1..ReadMax
                   /\ \A c \in 0..(Len(chunk) - 1) : buffer[c] = chunk[c + 1]
                   /\ buffer[Len(chunk)] = NUL
  /\ pc = "loop" => /\ End \in 0..ReadMax
                    /\ \A c \in src..(End - 1) : buffer[c] = chunk[c + 1]
                    /\ src <= End => buffer[End] = NUL
                    /\ src > End => EndsInControl
  /\ pc = "overrun" => EndsInControl

\* Cutting the prompt leaves the text that BeforePrompt names.
LEMMA CutLeaves ==
  ASSUME TypeOK, TextInv, CutPrompt
  PROVE  /\ End \in 0..ReadMax
         /\ \A c \in 0..(End - 1) : buffer'[c] = chunk[c + 1]
         /\ buffer'[End] = NUL
<1> DEFINE n == Len(chunk)
           t == End
           b1 == CutAt(TILDE, buffer)
<1>1. /\ n \in 1..ReadMax /\ chunk \in Seq(Chars) /\ buffer \in Buffers /\ ReadMax \in Nat
      /\ \A c \in 0..(n - 1) : buffer[c] = chunk[c + 1] /\ chunk[c + 1] \in Chars
      /\ buffer[n] = NUL /\ NUL \notin Chars
      /\ buffer' = CutAt(HASH, b1)
  BY ClearStrAssumption DEF TypeOK, TextInv, CutPrompt, Buffers
<1>2. /\ t \in 0..n
      /\ \A k \in 1..t : chunk[k] \notin {TILDE, HASH}
      /\ t < n => chunk[t + 1] \in {TILDE, HASH}
  BY <1>1, BeforePromptIs DEF End
<1>3. b1 \in Buffers
  BY <1>1, CutType
<1> DEFINE L == Length(buffer)
           L1 == Length(b1)
<1>4. /\ \A c \in Cells : b1[c] = IF c < L /\ buffer[c] = TILDE /\ (\A d \in 0..(c - 1) : buffer[d] # TILDE)
                                  THEN NUL ELSE buffer[c]
      /\ \A c \in Cells : buffer'[c] = IF c < L1 /\ b1[c] = HASH /\ (\A d \in 0..(c - 1) : b1[d] # HASH)
                                       THEN NUL ELSE b1[c]
  BY <1>1 DEF CutAt
<1>5. /\ L \in 0..(ReadMax + 1) /\ (L <= ReadMax => buffer[L] = NUL)
      /\ L1 \in 0..(ReadMax + 1) /\ (L1 <= ReadMax => b1[L1] = NUL)
  BY <1>1, <1>3, LengthIs
<1> HIDE DEF n, t, b1, L, L1
<1>6. \A c \in 0..(t - 1) : buffer[c] = chunk[c + 1] /\ buffer[c] \notin {TILDE, HASH} /\ c \in Cells
  BY <1>1, <1>2 DEF Cells
<1>7. \A c \in 0..(t - 1) : b1[c] = buffer[c] /\ buffer'[c] = buffer[c]
  BY <1>4, <1>6
<1>8. t \in Cells
  BY <1>1, <1>2 DEF Cells
<1>9. buffer'[t] = NUL
  <2>1. CASE t = n
    BY <1>1, <1>4, <1>8, <2>1
  <2>2. CASE t < n /\ chunk[t + 1] = TILDE
    <3>1. buffer[t] = TILDE /\ \A d \in 0..(t - 1) : buffer[d] # TILDE
      BY <1>1, <1>2, <1>6, <2>2
    <3>2. t < L
      <4>1. \A d \in 0..t : buffer[d] # NUL
        BY <1>1, <1>2, <2>2
      <4> QED
        BY <1>1, <1>2, <1>5, <4>1
    <3>3. b1[t] = NUL
      BY <1>4, <1>8, <3>1, <3>2
    <3> QED
      BY <1>4, <1>8, <3>3
  <2>3. CASE t < n /\ chunk[t + 1] # TILDE
    <3>1. buffer[t] = HASH /\ HASH # TILDE /\ HASH \in Chars
      BY <1>1, <1>2, <2>3
    <3>2. b1[t] = HASH
      BY <1>4, <1>8, <3>1
    <3>3. \A d \in 0..(t - 1) : b1[d] # HASH
      BY <1>6, <1>7
    <3>4. t < L1
      <4>1. \A d \in 0..t : b1[d] # NUL
        BY <1>1, <1>2, <1>7, <2>3, <3>1, <3>2
      <4> QED
        BY <1>1, <1>2, <1>5, <4>1
    <3> QED
      BY <1>4, <1>8, <3>2, <3>3, <3>4
  <2> QED
    BY <1>1, <1>2, <2>1, <2>2, <2>3
<1> QED
  BY <1>1, <1>2, <1>6, <1>7, <1>8, <1>9 DEF t, Cells

\* Every step keeps the text where it is and src before its end, unless a
\* control character ends it.
LEMMA TextStep == TypeOK /\ InPlace /\ TextInv /\ [Next]_vars => TextInv'
<1> SUFFICES ASSUME TypeOK, InPlace, TextInv, [Next]_vars PROVE TextInv'
  OBVIOUS
<1> USE ClearStrAssumption
<1>1. CASE ReadChunk
  <2>1. PICK n \in 1..ReadMax :
          /\ n <= Len(rest)
          /\ chunk' = SubSeq(rest, 1, n)
          /\ buffer' = [c \in Cells |-> IF c < n THEN rest[c + 1]
                                        ELSE IF c = n THEN NUL ELSE buffer[c]]
    BY <1>1 DEF ReadChunk
  <2>2. \A k \in 1..n : rest[k] \in Chars
    BY <2>1 DEF TypeOK
  <2>3. Len(chunk') = n /\ \A k \in 1..n : chunk'[k] = rest[k]
    BY <2>1, <2>2, SubSeqProperties
  <2>4. \A c \in 0..(n - 1) : buffer'[c] = chunk'[c + 1]
    BY <2>1, <2>3 DEF Cells
  <2>5. buffer'[n] = NUL
    BY <2>1 DEF Cells
  <2>6. pc' = "cut"
    BY <1>1 DEF ReadChunk
  <2> QED
    BY <2>3, <2>4, <2>5, <2>6 DEF TextInv
<1>2. CASE CutPrompt
  <2>1. pc' = "loop" /\ src' = 0 /\ chunk' = chunk
    BY <1>2 DEF CutPrompt, ioVars
  <2>2. End' = End
    BY <2>1 DEF End
  <2> QED
    BY <1>2, <2>1, <2>2, CutLeaves DEF TextInv
<1>3. CASE InEscape \/ BeginEscape \/ SkipControl \/ Copy
  <2>1. /\ pc = "loop" /\ pc' = "loop" /\ chunk' = chunk
        /\ src \in Cells /\ buffer[src] # NUL
        /\ src' = src + 1 \/ (src' = src + 2 /\ buffer[src] \in Controls)
        /\ buffer' = buffer \/ \E v : buffer' = [buffer EXCEPT ![dst] = v]
    <3>1. CASE InEscape
      BY <1>3, <3>1 DEF InEscape, ioVars
    <3>2. CASE BeginEscape
      BY <1>3, <3>2 DEF BeginEscape, ioVars, Controls, Chars, Cells, TypeOK
    <3>3. CASE SkipControl
      <4>1. src \in Cells
        BY <3>3 DEF SkipControl, Cells, TypeOK
      <4>2. buffer[src] \in Controls /\ buffer[src] # NUL
        BY <3>3 DEF SkipControl, Controls, Chars
      <4> QED
        BY ONLY <3>3, <4>1, <4>2 DEF SkipControl, ioVars
    <3>4. CASE Copy
      BY <1>3, <3>4 DEF Copy, ioVars
    <3> QED
      BY <1>3, <3>1, <3>2, <3>3, <3>4
  <2>2. End' = End
    BY <2>1 DEF End
  <2>3. /\ src \in Nat /\ src' \in Nat /\ dst < src' /\ End \in 0..ReadMax
        /\ buffer \in [Cells -> Chars \cup {NUL}] /\ dst \in Nat
    BY <2>1 DEF TypeOK, InPlace, TextInv
  <2>4. \A c \in Cells : c >= src' => buffer'[c] = buffer[c]
    BY <2>1, <2>3 DEF Cells
  <2>5. \A c \in src'..(End - 1) : buffer'[c] = chunk[c + 1]
    BY <2>1, <2>3, <2>4 DEF TextInv, Cells
  <2>6. src' <= End => buffer'[End] = NUL
    BY <2>1, <2>3, <2>4 DEF TextInv, Cells
  <2>7. src' > End => EndsInControl
    <3>1. CASE src > End
      BY <2>1, <3>1 DEF TextInv
    <3>2. CASE src <= End
      <4>1. src # End
        BY <2>1, <3>2 DEF TextInv
      <4>2. buffer[src] = chunk[src + 1]
        BY <2>1, <2>3, <3>2, <4>1 DEF TextInv
      <4> QED
        BY <2>1, <2>3, <3>2, <4>1, <4>2 DEF EndsInControl
    <3> QED
      BY <2>3, <3>1, <3>2
  <2>8. EndsInControl' = EndsInControl
    BY <2>1, <2>2 DEF EndsInControl, Controls
  <2> QED
    BY <2>1, <2>2, <2>3, <2>5, <2>6, <2>7, <2>8 DEF TextInv
<1>4. CASE Overrun
  <2>1. pc = "loop" /\ pc' = "overrun" /\ chunk' = chunk
    BY <1>4 DEF Overrun, ioVars
  <2>2. src > End
    <3>1. src \in 0..(ReadMax + 1) /\ End \in 0..ReadMax /\ (src <= End => buffer[End] = NUL)
      BY <2>1 DEF TypeOK, TextInv
    <3>2. src \notin Cells \/ (src = ReadMax /\ buffer[src] # NUL)
      BY <1>4 DEF Overrun, Controls, Chars
    <3> QED
      BY <3>1, <3>2 DEF Cells
  <2>3. EndsInControl' = EndsInControl
    BY <2>1 DEF EndsInControl, End, Controls
  <2> QED
    BY <2>1, <2>2, <2>3 DEF TextInv
<1>5. CASE Finish \/ AppendCleaned \/ Wipe
  <2>1. pc' \in {"append", "read"}
    BY <1>5 DEF Finish, AppendCleaned, Wipe
  <2> QED
    BY <2>1 DEF TextInv
<1>6. CASE Ended \/ UNCHANGED vars
  <2>1. UNCHANGED <<pc, chunk, buffer, src>>
    BY <1>6 DEF Ended, vars, ioVars
  <2> QED
    BY <2>1 DEF TextInv, EndsInControl, End, Controls
<1> QED
  BY <1>1, <1>2, <1>3, <1>4, <1>5, <1>6 DEF Next

\* src leaves the buffer only behind a last control character.
THEOREM OverrunExplained == Spec => []OverrunNeedsControl
<1>1. Init => TextInv
  BY DEF Init, TextInv
<1>2. TypeOK /\ TextInv => OverrunNeedsControl
  <2> SUFFICES ASSUME TypeOK, TextInv, pc = "overrun"
               PROVE  /\ BeforePrompt(chunk) # <<>>
                      /\ Last(BeforePrompt(chunk)) \in Controls
    BY DEF OverrunNeedsControl
  <2>1. End \in Nat /\ End > 0 /\ chunk[End] \in Controls
    BY BeforePromptIs DEF TypeOK, TextInv, EndsInControl, End
  <2>2. BeforePrompt(chunk)[End] = chunk[End]
    BY <2>1, BeforePromptIs DEF TypeOK, End
  <2>3. BeforePrompt(chunk) # <<>>
    BY <2>1 DEF End
  <2> QED
    BY <2>1, <2>2, <2>3 DEF Last, End
<1> QED
  BY <1>1, <1>2, Initially, Step, TextStep, PTL DEF Spec

-----------------------------------------------------------------------------
(* Counting the members of a set of indices up to one of them               *)

UpTo(K, i) == Cardinality({k \in K : k <= i})

\* The count grows by one at each member and nowhere else.
LEMMA CountUpTo ==
  ASSUME NEW n \in Nat, NEW K \in SUBSET (1..n)
  PROVE  /\ IsFiniteSet(K) /\ Cardinality(K) \in 0..n
         /\ UpTo(K, 0) = 0 /\ UpTo(K, n) = Cardinality(K)
         /\ \A i \in Nat : UpTo(K, i) \in 0..Cardinality(K)
         /\ \A i \in Nat : UpTo(K, i + 1) = UpTo(K, i) + (IF i + 1 \in K THEN 1 ELSE 0)
         /\ \A i, j \in Nat : i <= j => UpTo(K, i) <= UpTo(K, j)
<1> DEFINE U(i) == {k \in K : k <= i}
<1>1. IsFiniteSet(1..n) /\ Cardinality(1..n) = n
  BY FS_Interval
<1>2. IsFiniteSet(K) /\ Cardinality(K) \in Nat /\ Cardinality(K) <= n
  BY <1>1, FS_Subset, FS_CardinalityType
<1>3. \A i : IsFiniteSet(U(i)) /\ Cardinality(U(i)) <= Cardinality(K) /\ Cardinality(U(i)) \in Nat
  BY <1>2, FS_Subset, FS_CardinalityType
<1>m. \A k \in K : k \in Nat /\ 1 <= k /\ k <= n
  OBVIOUS
<1>4. U(0) = {} /\ U(n) = K
  <2>1. \A k \in K : k <= n /\ ~(k <= 0)
    BY <1>m
  <2> QED
    BY ONLY <2>1
<1>5. Cardinality(U(0)) = 0
  BY <1>4, FS_EmptySet
<1>6. ASSUME NEW i \in Nat
      PROVE  Cardinality(U(i + 1)) = Cardinality(U(i)) + (IF i + 1 \in K THEN 1 ELSE 0)
  <2>1. CASE i + 1 \in K
    <3>1. U(i + 1) = U(i) \cup {i + 1} /\ i + 1 \notin U(i)
      <4>1. \A k \in K : k <= i + 1 <=> k <= i \/ k = i + 1
        BY <1>m
      <4>2. ~(i + 1 <= i)
        OBVIOUS
      <4> QED
        BY ONLY <2>1, <4>1, <4>2
    <3> QED
      BY <1>3, <2>1, <3>1, FS_AddElement
  <2>2. CASE i + 1 \notin K
    <3>1. U(i + 1) = U(i)
      <4>1. \A k \in K : k <= i + 1 <=> k <= i
        BY <1>m, <2>2
      <4> QED
        BY ONLY <4>1
    <3> QED
      BY <1>3, <2>2, <3>1
  <2> QED
    BY <2>1, <2>2
<1>7. ASSUME NEW i \in Nat, NEW j \in Nat, i <= j
      PROVE  Cardinality(U(i)) <= Cardinality(U(j))
  <2>1. U(i) \in SUBSET U(j)
    <3>1. \A k \in K : k <= i => k <= j
      BY <1>m, <1>7
    <3> QED
      BY ONLY <3>1
  <2> QED
    BY <1>3, <2>1, FS_Subset
<1>8. \A i : UpTo(K, i) = Cardinality(U(i))
  BY DEF UpTo
<1> HIDE DEF U
<1>9. ASSUME NEW i \in Nat PROVE UpTo(K, i) \in 0..Cardinality(K)
  <2>1. UpTo(K, i) = Cardinality(U(i))
    BY <1>8
  <2>2. Cardinality(U(i)) \in Nat /\ Cardinality(U(i)) <= Cardinality(K)
    BY <1>3
  <2> QED
    BY <1>2, <2>1, <2>2
<1> QED
  BY <1>2, <1>4, <1>5, <1>6, <1>7, <1>8, <1>9

\* Each member has a count of its own, and each count is that of a member.
LEMMA CountsOneByOne ==
  ASSUME NEW n \in Nat, NEW K \in SUBSET (1..n)
  PROVE  /\ \A i \in K : UpTo(K, i) \in 1..Cardinality(K)
         /\ \A i \in Nat, j \in K : i < j => UpTo(K, i) < UpTo(K, j)
         /\ \A m \in 1..Cardinality(K) : \E i \in K : UpTo(K, i) = m
<1> DEFINE size == Cardinality(K)
           f == [i \in K |-> UpTo(K, i)]
<1>1. size \in Nat /\ IsFiniteSet(K) /\ IsFiniteSet(1..size) /\ Cardinality(1..size) = size
  <2>1. IsFiniteSet(K) /\ size \in Nat
    BY CountUpTo
  <2> QED
    BY <2>1, FS_Interval
<1>2. \A i \in Nat : UpTo(K, i) \in 0..size
  BY CountUpTo
<1>3. ASSUME NEW i \in Nat, NEW j \in K, i < j PROVE UpTo(K, i) < UpTo(K, j)
  <2>1. j \in Nat /\ j - 1 \in Nat /\ i <= j - 1 /\ (j - 1) + 1 = j
    BY <1>3
  <2>2. UpTo(K, j) = UpTo(K, j - 1) + 1
    BY <2>1, CountUpTo
  <2>3. UpTo(K, i) <= UpTo(K, j - 1)
    BY <2>1, CountUpTo
  <2>4. UpTo(K, i) \in Int /\ UpTo(K, j - 1) \in Int
    BY <1>2, <2>1
  <2> QED
    BY <2>2, <2>3, <2>4
<1>4. ASSUME NEW i \in K PROVE UpTo(K, i) \in 1..size
  <2>1. UpTo(K, 0) < UpTo(K, i) /\ i \in Nat
    BY <1>3
  <2>2. UpTo(K, 0) = 0
    BY CountUpTo
  <2> QED
    BY <1>2, <2>1, <2>2
<1>5. f \in Injection(K, 1..size)
  <2>1. f \in [K -> 1..size]
    BY <1>4
  <2>2. ASSUME NEW i \in K, NEW j \in K, f[i] = f[j] PROVE i = j
    <3>1. ~(i < j) /\ ~(j < i)
      <4>1. i \in Nat /\ j \in Nat /\ UpTo(K, i) \in Int /\ UpTo(K, j) \in Int
        BY <1>4
      <4>2. UpTo(K, i) = UpTo(K, j)
        BY <2>2
      <4> QED
        BY <1>3, <4>1, <4>2
    <3> QED
      BY <3>1
  <2> QED
    BY <2>1, <2>2 DEF Injection, IsInjective
<1>6. f \in Surjection(K, 1..size)
  BY <1>1, <1>5, FS_Injection
<1>7. \A m \in 1..size : \E i \in K : UpTo(K, i) = m
  BY <1>6 DEF Surjection
<1> QED
  BY <1>3, <1>4, <1>7

-----------------------------------------------------------------------------
(* The kept characters of a text                                            *)

\* An escape sequence is open behind the p-th character.
Open(s, p) ==
  \E b \in 1..p : /\ b < Len(s) /\ s[b] = ESC /\ s[b + 1] = LB
                  /\ \A k \in (b + 2)..p : s[k] # M

\* The first kept character is the filtered text's first, and so on.
LEMMA KeptIs ==
  ASSUME NEW s, Len(s) \in Nat, DOMAIN s = 1..Len(s)
  PROVE  /\ Kept(s) \in SUBSET (1..Len(s))
         /\ \A i : KeptUpTo(s, i) = UpTo(Kept(s), i)
         /\ DOMAIN Filtered(s) = 1..Cardinality(Kept(s))
         /\ \A i \in Kept(s) : /\ KeptUpTo(s, i) \in 1..Cardinality(Kept(s))
                               /\ Filtered(s)[KeptUpTo(s, i)] = s[i]
<1> DEFINE K == Kept(s)
           n == Len(s)
<1>1. K \in SUBSET (1..n) /\ n \in Nat
  BY DEF Kept
<1>2. \A i : KeptUpTo(s, i) = UpTo(K, i)
  BY DEF KeptUpTo, UpTo
<1>3. DOMAIN Filtered(s) = 1..Cardinality(K)
  BY DEF Filtered
<1>4. ASSUME NEW i \in K
      PROVE  /\ KeptUpTo(s, i) \in 1..Cardinality(Kept(s))
             /\ Filtered(s)[KeptUpTo(s, i)] = s[i]
  <2> HIDE DEF K
  <2>1. \A j \in K : UpTo(K, j) \in 1..Cardinality(K)
    BY <1>1, CountsOneByOne
  <2>2. \A a \in Nat, j \in K : a < j => UpTo(K, a) < UpTo(K, j)
    BY <1>1, CountsOneByOne
  <2>3. ASSUME NEW j \in K, UpTo(K, j) = UpTo(K, i) PROVE j = i
    <3>1. i \in Nat /\ j \in Nat /\ UpTo(K, j) \in Int
      BY <1>1, <2>1
    <3> QED
      BY <2>2, <2>3, <3>1
  <2>4. (CHOOSE j \in K : UpTo(K, j) = UpTo(K, i)) = i
    BY <2>3
  <2>5. Filtered(s)[UpTo(K, i)] = s[CHOOSE j \in K : UpTo(K, j) = UpTo(K, i)]
    BY <1>2, <2>1 DEF Filtered, K
  <2> QED
    BY <1>2, <2>1, <2>4, <2>5 DEF K
<1> QED
  BY <1>1, <1>2, <1>3, <1>4

\* The next character is skipped in an open sequence and at the start of one.
LEMMA NextEscaped ==
  ASSUME NEW s, Len(s) \in Nat, NEW p \in 0..(Len(s) - 1)
  PROVE  Escaped(s, p + 1) <=> \/ Open(s, p)
                               \/ p + 2 <= Len(s) /\ s[p + 1] = ESC /\ s[p + 2] = LB
<1>1. p \in Int /\ (p + 1) - 1 = p /\ (p + 1) + 1 = p + 2
  OBVIOUS
<1>2. ASSUME NEW b \in 1..p, b < Len(s), s[b] = ESC, s[b + 1] = LB, \A k \in (b + 2)..p : s[k] # M
      PROVE  Escaped(s, p + 1)
  BY <1>1, <1>2 DEF Escaped
<1>3. ASSUME p + 2 <= Len(s), s[p + 1] = ESC, s[p + 2] = LB
      PROVE  Escaped(s, p + 1)
  <2>1. p + 1 \in 1..(p + 1) /\ p + 1 < Len(s) /\ \A k \in ((p + 1) + 2)..((p + 1) - 1) : s[k] # M
    BY <1>3
  <2> QED
    BY <1>1, <1>3, <2>1 DEF Escaped
<1>4. ASSUME NEW b \in 1..(p + 1), b < Len(s), s[b] = ESC, s[b + 1] = LB,
             \A k \in (b + 2)..((p + 1) - 1) : s[k] # M
      PROVE  \/ Open(s, p)
             \/ p + 2 <= Len(s) /\ s[p + 1] = ESC /\ s[p + 2] = LB
  <2>1. CASE b = p + 1
    BY <1>1, <1>4, <2>1
  <2>2. CASE b \in 1..p
    BY <1>1, <1>4, <2>2 DEF Open
  <2> QED
    BY <2>1, <2>2
<1> QED
  BY <1>2, <1>3, <1>4 DEF Escaped, Open

\* A sequence that is open behind a character was open before it or starts there.
LEMMA OpenNext ==
  ASSUME NEW s, Len(s) \in Nat, NEW p \in 0..(Len(s) - 1)
  PROVE  Open(s, p + 1) <=> \/ Open(s, p) /\ s[p + 1] # M
                            \/ p + 2 <= Len(s) /\ s[p + 1] = ESC /\ s[p + 2] = LB
<1>1. p \in Int /\ (p + 1) + 1 = p + 2 /\ LB # M
  BY ClearStrAssumption
<1>2. ASSUME NEW b \in 1..p, b < Len(s), s[b] = ESC, s[b + 1] = LB,
             \A k \in (b + 2)..p : s[k] # M, s[p + 1] # M
      PROVE  Open(s, p + 1)
  <2>1. b \in 1..(p + 1) /\ \A k \in (b + 2)..(p + 1) : s[k] # M
    BY <1>1, <1>2
  <2> QED
    BY <1>2, <2>1 DEF Open
<1>3. ASSUME p + 2 <= Len(s), s[p + 1] = ESC, s[p + 2] = LB
      PROVE  Open(s, p + 1)
  <2>1. p + 1 \in 1..(p + 1) /\ p + 1 < Len(s) /\ \A k \in ((p + 1) + 2)..(p + 1) : s[k] # M
    BY <1>1, <1>3
  <2> QED
    BY <1>1, <1>3, <2>1 DEF Open
<1>4. ASSUME NEW b \in 1..(p + 1), b < Len(s), s[b] = ESC, s[b + 1] = LB,
             \A k \in (b + 2)..(p + 1) : s[k] # M
      PROVE  \/ Open(s, p) /\ s[p + 1] # M
             \/ p + 2 <= Len(s) /\ s[p + 1] = ESC /\ s[p + 2] = LB
  <2>1. CASE b = p + 1
    BY <1>1, <1>4, <2>1
  <2>2. CASE b = p
    <3>1. Open(s, p)
      BY <1>1, <1>4, <2>2 DEF Open
    <3> QED
      BY <1>1, <1>4, <2>2, <3>1
  <2>3. CASE b < p
    <3>1. b \in 1..p /\ p + 1 \in (b + 2)..(p + 1) /\ \A k \in (b + 2)..p : s[k] # M
      BY <1>1, <1>4, <2>3
    <3>2. Open(s, p)
      BY <1>4, <3>1 DEF Open
    <3> QED
      BY <1>4, <3>1, <3>2
  <2> QED
    BY <1>1, <2>1, <2>2, <2>3
<1> QED
  BY <1>2, <1>3, <1>4 DEF Open

\* The kept characters among the first p are in the buffer, in their order.
Shows(b, s, p) == \A i \in Kept(s) : i <= p => b[KeptUpTo(s, i) - 1] = s[i]

\* Counting the kept characters as the cursors pass them.
LEMMA KeptNext ==
  ASSUME NEW s \in Seq(Chars)
  PROVE  /\ Cardinality(Kept(s)) \in Nat
         /\ KeptUpTo(s, 0) = 0 /\ KeptUpTo(s, Len(s)) = Cardinality(Kept(s))
         /\ \A i \in Nat : KeptUpTo(s, i) \in Nat
         /\ \A i \in Nat : KeptUpTo(s, i + 1) = KeptUpTo(s, i) + (IF i + 1 \in Kept(s) THEN 1 ELSE 0)
         /\ \A i, j \in Nat : i <= j => KeptUpTo(s, i) <= KeptUpTo(s, j)
<1> DEFINE K == Kept(s)
           n == Len(s)
<1>1. K \in SUBSET (1..n) /\ n \in Nat /\ \A i : KeptUpTo(s, i) = UpTo(K, i)
  BY KeptIs
<1> HIDE DEF K, n
<1>2. /\ Cardinality(K) \in 0..n
      /\ UpTo(K, 0) = 0 /\ UpTo(K, n) = Cardinality(K)
      /\ \A i \in Nat : UpTo(K, i) \in 0..Cardinality(K)
      /\ \A i \in Nat : UpTo(K, i + 1) = UpTo(K, i) + (IF i + 1 \in K THEN 1 ELSE 0)
      /\ \A i, j \in Nat : i <= j => UpTo(K, i) <= UpTo(K, j)
  BY <1>1, CountUpTo
<1> DEFINE size == Cardinality(K)
<1>3. size \in Nat
  BY <1>1, <1>2
<1>4. ASSUME NEW i \in Nat PROVE UpTo(K, i) \in Nat
  <2>1. UpTo(K, i) \in 0..size
    BY <1>2
  <2> HIDE DEF size
  <2> QED
    BY <1>3, <2>1
<1> QED
  BY <1>1, <1>2, <1>3, <1>4 DEF K, n

\* Writing behind what is shown changes none of it.
LEMMA WriteBehind ==
  ASSUME NEW s \in Seq(Chars), NEW p \in Nat, NEW b \in Buffers, NEW d \in Nat, NEW v,
         KeptUpTo(s, p) <= d, Shows(b, s, p)
  PROVE  Shows([b EXCEPT ![d] = v], s, p)
<1> SUFFICES ASSUME NEW i \in Kept(s), i <= p
             PROVE  [b EXCEPT ![d] = v][KeptUpTo(s, i) - 1] = s[i]
  BY DEF Shows
<1>1. i \in Nat
  BY DEF Kept
<1>2. KeptUpTo(s, i) <= KeptUpTo(s, p) /\ KeptUpTo(s, i) \in Nat /\ KeptUpTo(s, p) \in Nat
  BY <1>1, KeptNext
<1> DEFINE n == KeptUpTo(s, i) - 1
<1>3. n # d
  BY <1>2
<1>4. b[n] = s[i]
  BY DEF Shows
<1>5. [b EXCEPT ![d] = v][n] = b[n]
  <2> HIDE DEF n
  <2> QED
    BY <1>3 DEF Buffers
<1> QED
  BY <1>4, <1>5

\* A character that is not kept needs no cell.
LEMMA PassNext ==
  ASSUME NEW s \in Seq(Chars), NEW p \in Nat, NEW b, p + 1 \notin Kept(s), Shows(b, s, p)
  PROVE  Shows(b, s, p + 1) /\ KeptUpTo(s, p + 1) = KeptUpTo(s, p)
<1>1. \A i \in Kept(s) : i \in Nat /\ i # p + 1
  BY DEF Kept
<1>2. \A i \in Kept(s) : i <= p + 1 => i <= p
  BY <1>1
<1>3. KeptUpTo(s, p + 1) = KeptUpTo(s, p)
  <2>1. KeptUpTo(s, p) \in Nat /\ KeptUpTo(s, p + 1) = KeptUpTo(s, p) + 0
    BY KeptNext
  <2> QED
    BY <2>1
<1> QED
  BY <1>2, <1>3 DEF Shows

\* A kept character goes to the cell behind those before it.
LEMMA CopyNext ==
  ASSUME NEW s \in Seq(Chars), NEW p \in Nat, NEW b \in Buffers, NEW d \in Cells,
         p + 1 \in Kept(s), d = KeptUpTo(s, p), Shows(b, s, p)
  PROVE  Shows([b EXCEPT ![d] = s[p + 1]], s, p + 1) /\ KeptUpTo(s, p + 1) = d + 1
<1>1. KeptUpTo(s, p) \in Nat /\ KeptUpTo(s, p + 1) = KeptUpTo(s, p) + 1
  BY KeptNext
<1>2. Shows([b EXCEPT ![d] = s[p + 1]], s, p)
  <2>1. d \in Nat /\ KeptUpTo(s, p) <= d
    BY <1>1
  <2> QED
    BY <2>1, WriteBehind
<1>3. [b EXCEPT ![d] = s[p + 1]][KeptUpTo(s, p + 1) - 1] = s[p + 1]
  <2>1. KeptUpTo(s, p + 1) - 1 = d
    BY <1>1
  <2> QED
    BY <2>1 DEF Buffers
<1>4. \A i \in Kept(s) : i <= p + 1 => i <= p \/ i = p + 1
  BY DEF Kept
<1> QED
  BY <1>1, <1>2, <1>3, <1>4 DEF Shows

-----------------------------------------------------------------------------
(* The loop                                                                 *)

Text == BeforePrompt(chunk)

AllShown(b, s) == Shows(b, s, Len(s)) /\ b[Cardinality(Kept(s))] = NUL

\* While src is in the text the first dst cells are what is kept of the
\* characters passed, and in_escape is whether a sequence is open.  A control
\* character at the end takes src behind the text, but only after the zero was
\* copied: from there on dst leaves what is shown alone.
CleanInv ==
  Orderly(Text) =>
    /\ pc = "loop" /\ src <= End => /\ in_escape <=> Open(Text, src)
                                   /\ dst = KeptUpTo(Text, src)
                                   /\ Shows(buffer, Text, src)
    /\ pc = "loop" /\ src > End => dst > Cardinality(Kept(Text)) /\ AllShown(buffer, Text)
    /\ pc = "append" => End <= ReadMax /\ AllShown(buffer, Text)

\* What the loop finds at src and behind it is the text and its end.
LEMMA AtCursor ==
  ASSUME TypeOK, InPlace, TextInv, pc = "loop", src <= End, src \in Cells, buffer[src] # NUL
  PROVE  /\ Text \in Seq(Chars) /\ Len(Text) = End
         /\ src \in 0..(Len(Text) - 1) /\ dst \in Cells /\ dst \in Nat
         /\ buffer \in Buffers /\ buffer[src] = Text[src + 1]
         /\ src + 1 <= ReadMax
         /\ buffer[src + 1] = IF src + 2 <= Len(Text) THEN Text[src + 2] ELSE NUL
         /\ src + 2 <= Len(Text) => Text[src + 2] # NUL
<1>1. /\ End \in 0..ReadMax /\ ReadMax \in Nat /\ src \in Nat /\ dst \in Nat /\ dst <= src
      /\ \A c \in src..(End - 1) : buffer[c] = chunk[c + 1]
      /\ buffer[End] = NUL /\ src <= ReadMax
  BY ClearStrAssumption DEF TypeOK, InPlace, TextInv, Cells
<1>2. /\ Text \in Seq(Chars) /\ Len(Text) = End
      /\ \A k \in 1..End : Text[k] = chunk[k]
  BY BeforePromptIs DEF Text, End, TypeOK
<1>3. src < End
  BY <1>1
<1>4. buffer[src] = Text[src + 1]
  BY <1>1, <1>2, <1>3
<1>5. ASSUME src + 2 <= End PROVE buffer[src + 1] = Text[src + 2] /\ Text[src + 2] # NUL
  <2>1. buffer[src + 1] = chunk[src + 2] /\ Text[src + 2] = chunk[src + 2]
    BY <1>1, <1>2, <1>5
  <2>2. Text[src + 2] \in Chars
    BY <1>1, <1>2, <1>5
  <2> QED
    BY <2>1, <2>2, ClearStrAssumption
<1>6. ASSUME ~(src + 2 <= End) PROVE buffer[src + 1] = NUL
  <2>1. src + 1 = End
    BY <1>1, <1>3, <1>6
  <2> QED
    BY <1>1, <2>1
<1> QED
  BY <1>1, <1>2, <1>3, <1>4, <1>5, <1>6 DEF TypeOK, Buffers, Cells

\* One iteration, src in the text.
LEMMA IterationInText ==
  ASSUME TypeOK, InPlace, TextInv, CleanInv, Orderly(Text), pc = "loop", src <= End,
         InEscape \/ BeginEscape \/ SkipControl \/ Copy
  PROVE  /\ src' <= End => /\ in_escape' <=> Open(Text, src')
                           /\ dst' = KeptUpTo(Text, src')
                           /\ Shows(buffer', Text, src')
         /\ src' > End => dst' > Cardinality(Kept(Text)) /\ AllShown(buffer', Text)
<1> DEFINE s == Text
           p == src
<1>1. src \in Cells /\ buffer[src] # NUL
  BY ClearStrAssumption DEF InEscape, BeginEscape, SkipControl, Copy, TypeOK, Cells, Chars
<1>2. /\ s \in Seq(Chars) /\ Len(s) = End /\ Len(s) \in Nat
      /\ p \in 0..(Len(s) - 1) /\ p \in Nat /\ dst \in Cells /\ dst \in Nat
      /\ buffer \in Buffers /\ buffer[p] = s[p + 1]
      /\ buffer[p + 1] = IF p + 2 <= Len(s) THEN s[p + 2] ELSE NUL
      /\ p + 2 <= Len(s) => s[p + 2] # NUL
  BY <1>1, AtCursor
<1>3. /\ in_escape <=> Open(s, p)
      /\ dst = KeptUpTo(s, p)
      /\ Shows(buffer, s, p)
  BY DEF CleanInv
<1>4. /\ Escaped(s, p + 1) <=> \/ Open(s, p)
                               \/ p + 2 <= Len(s) /\ s[p + 1] = ESC /\ s[p + 2] = LB
      /\ Open(s, p + 1) <=> \/ Open(s, p) /\ s[p + 1] # M
                            \/ p + 2 <= Len(s) /\ s[p + 1] = ESC /\ s[p + 2] = LB
  BY <1>2, NextEscaped, OpenNext
<1>5. ASSUME p + 2 <= Len(s)
      PROVE  /\ Escaped(s, p + 2) <=> \/ Open(s, p + 1)
                                      \/ p + 3 <= Len(s) /\ s[p + 2] = ESC /\ s[p + 3] = LB
             /\ Open(s, p + 2) <=> \/ Open(s, p + 1) /\ s[p + 2] # M
                                   \/ p + 3 <= Len(s) /\ s[p + 2] = ESC /\ s[p + 3] = LB
  <2> DEFINE q == p + 1
  <2>1. q \in 0..(Len(s) - 1) /\ q + 1 = p + 2 /\ q + 2 = p + 3
    BY <1>2, <1>5
  <2>2. /\ Escaped(s, q + 1) <=> \/ Open(s, q)
                                 \/ q + 2 <= Len(s) /\ s[q + 1] = ESC /\ s[q + 2] = LB
        /\ Open(s, q + 1) <=> \/ Open(s, q) /\ s[q + 1] # M
                              \/ q + 2 <= Len(s) /\ s[q + 1] = ESC /\ s[q + 2] = LB
    BY <1>2, <2>1, NextEscaped, OpenNext
  <2> QED
    BY <2>1, <2>2
<1>6. /\ p + 1 \in Kept(s) <=> ~Escaped(s, p + 1) /\ s[p + 1] \notin Controls
      /\ p + 2 \in Kept(s) <=> p + 2 <= Len(s) /\ ~Escaped(s, p + 2) /\ s[p + 2] \notin Controls
  BY <1>2 DEF Kept
<1>7. ESC \in Controls /\ ESC # M /\ LB # M /\ ESC # CTL /\ NUL # LB
  BY ClearStrAssumption DEF Controls, Chars
<1>8. p + 1 \in Nat /\ (p + 1) + 1 = p + 2
  BY <1>2
<1>9. CASE InEscape
  <2>1. /\ in_escape /\ src' = p + 1 /\ dst' = dst /\ buffer' = buffer
        /\ in_escape' = (s[p + 1] # M)
    BY <1>2, <1>9 DEF InEscape
  <2>2. p + 1 \notin Kept(s)
    BY <1>3, <1>4, <1>6, <2>1
  <2>3. Shows(buffer, s, p + 1) /\ KeptUpTo(s, p + 1) = KeptUpTo(s, p)
    BY <1>2, <1>3, <2>2, PassNext
  <2>4. in_escape' <=> Open(s, p + 1)
    BY <1>3, <1>4, <1>7, <2>1
  <2> QED
    BY <1>2, <1>3, <2>1, <2>3, <2>4
<1>10. CASE BeginEscape
  <2>1. /\ src' = p + 2 /\ dst' = dst /\ buffer' = buffer /\ in_escape' = TRUE
        /\ buffer[p] = ESC /\ buffer[p + 1] = LB
    BY <1>10 DEF BeginEscape
  <2>2. p + 2 <= Len(s) /\ s[p + 1] = ESC /\ s[p + 2] = LB
    BY <1>2, <1>7, <2>1
  <2>3. p + 1 \notin Kept(s) /\ p + 2 \notin Kept(s) /\ Open(s, p + 2)
    BY <1>4, <1>5, <1>6, <1>7, <2>2
  <2>4. Shows(buffer, s, p + 1) /\ KeptUpTo(s, p + 1) = KeptUpTo(s, p)
    BY <1>2, <1>3, <2>3, PassNext
  <2>5. Shows(buffer, s, (p + 1) + 1) /\ KeptUpTo(s, (p + 1) + 1) = KeptUpTo(s, p + 1)
    BY <1>2, <1>8, <2>3, <2>4, PassNext
  <2> QED
    BY <1>2, <1>3, <1>8, <2>1, <2>2, <2>3, <2>4, <2>5
<1>11. CASE Copy
  <2>1. /\ ~in_escape /\ src' = p + 1 /\ dst' = dst + 1 /\ in_escape' = in_escape
        /\ buffer' = [buffer EXCEPT ![dst] = s[p + 1]] /\ s[p + 1] \notin Controls
    BY <1>2, <1>11 DEF Copy
  <2>2. p + 1 \in Kept(s) /\ ~Open(s, p + 1)
    BY <1>3, <1>4, <1>6, <1>7, <2>1
  <2>3. Shows(buffer', s, p + 1) /\ KeptUpTo(s, p + 1) = dst + 1
    BY <1>2, <1>3, <2>1, <2>2, CopyNext
  <2> QED
    BY <1>2, <2>1, <2>2, <2>3
<1>12. CASE SkipControl
  <2>1. /\ ~in_escape /\ src' = p + 2 /\ dst' = dst + 1 /\ in_escape' = in_escape
        /\ buffer' = [buffer EXCEPT ![dst] = buffer[p + 1]]
        /\ s[p + 1] = CTL \/ (s[p + 1] = ESC /\ buffer[p + 1] # LB)
    BY <1>2, <1>12 DEF SkipControl
  <2>2. s[p + 1] \in Controls /\ ~(p + 2 <= Len(s) /\ s[p + 1] = ESC /\ s[p + 2] = LB)
    BY <1>2, <1>7, <2>1 DEF Controls
  <2>3. ~Escaped(s, p + 1) /\ ~Open(s, p + 1) /\ p + 1 \notin Kept(s)
    BY <1>3, <1>4, <1>6, <2>1, <2>2
  <2>4. Shows(buffer, s, p + 1) /\ KeptUpTo(s, p + 1) = KeptUpTo(s, p)
    BY <1>2, <1>3, <2>3, PassNext
  <2>5. CASE p + 2 <= Len(s)
    <3>1. s[p + 2] \notin Controls
      <4>1. p + 1 \in 1..(Len(s) - 1)
        BY <1>2, <2>5
      <4> QED
        BY <1>8, <2>2, <2>3, <4>1 DEF Orderly
    <3>2. p + 2 \in Kept(s) /\ ~Open(s, p + 2)
      BY <1>5, <1>6, <1>7, <2>3, <2>5, <3>1
    <3> DEFINE q == p + 1
    <3>3. q \in Nat /\ q + 1 \in Kept(s) /\ dst = KeptUpTo(s, q) /\ Shows(buffer, s, q)
      BY <1>3, <1>8, <2>4, <3>2
    <3>4. q + 1 = p + 2 /\ buffer[p + 1] = s[q + 1]
      BY <1>2, <1>8, <2>5
    <3> HIDE DEF q
    <3>5. Shows([buffer EXCEPT ![dst] = s[q + 1]], s, q + 1) /\ KeptUpTo(s, q + 1) = dst + 1
      BY <1>2, <3>3, CopyNext
    <3>6. Shows(buffer', s, p + 2) /\ KeptUpTo(s, p + 2) = dst + 1
      BY <2>1, <3>4, <3>5
    <3>7. src' <= End /\ ~(src' > End)
      BY <1>2, <2>1, <2>5
    <3> QED
      BY <2>1, <3>2, <3>6, <3>7
  <2>6. CASE ~(p + 2 <= Len(s))
    <3>1. p + 1 = Len(s) /\ src' > End /\ buffer[p + 1] = NUL
      BY <1>2, <2>1, <2>6
    <3>2. Cardinality(Kept(s)) = dst
      BY <1>2, <1>3, <2>4, <3>1, KeptNext
    <3>3. Shows(buffer', s, Len(s))
      <4> DEFINE q == Len(s)
      <4>1. KeptUpTo(s, q) <= dst /\ Shows(buffer, s, q) /\ q \in Nat
        BY <1>2, <1>3, <2>4, <3>1
      <4> HIDE DEF q
      <4>2. Shows([buffer EXCEPT ![dst] = buffer[p + 1]], s, q)
        BY <1>2, <4>1, WriteBehind
      <4> QED
        BY <2>1, <4>2 DEF q
    <3>4. buffer'[dst] = NUL
      BY <1>2, <2>1, <3>1 DEF Buffers
    <3> QED
      BY <1>2, <2>1, <3>1, <3>2, <3>3, <3>4 DEF AllShown
  <2> QED
    BY <2>5, <2>6
<1> QED
  BY <1>9, <1>10, <1>11, <1>12

\* Writing behind the zero leaves what is shown alone.
LEMMA WriteHidden ==
  ASSUME NEW s \in Seq(Chars), NEW b \in Buffers, NEW d \in Nat, NEW v,
         Cardinality(Kept(s)) < d, AllShown(b, s)
  PROVE  AllShown([b EXCEPT ![d] = v], s)
<1> DEFINE n == Len(s)
           size == Cardinality(Kept(s))
<1>1. n \in Nat /\ KeptUpTo(s, n) = size /\ size \in Nat
  BY KeptNext
<1>2. Shows(b, s, n) /\ b[size] = NUL
  BY DEF AllShown
<1>3. KeptUpTo(s, n) <= d /\ size # d
  BY <1>1
<1> HIDE DEF n, size
<1>4. Shows([b EXCEPT ![d] = v], s, n)
  BY <1>1, <1>2, <1>3, WriteBehind
<1>5. [b EXCEPT ![d] = v][size] = NUL
  BY <1>2, <1>3 DEF Buffers
<1> QED
  BY <1>4, <1>5 DEF AllShown, n, size

\* Every step keeps CleanInv.
LEMMA CleanStep == TypeOK /\ InPlace /\ TextInv /\ CleanInv /\ [Next]_vars => CleanInv'
<1> SUFFICES ASSUME TypeOK, InPlace, TextInv, CleanInv, [Next]_vars, Orderly(Text)'
             PROVE  /\ pc' = "loop" /\ src' <= End' => /\ in_escape' <=> Open(Text, src)'
                                                      /\ dst' = KeptUpTo(Text, src)'
                                                      /\ Shows(buffer, Text, src)'
                    /\ pc' = "loop" /\ src' > End' => /\ dst' > Cardinality(Kept(Text))'
                                                     /\ AllShown(buffer, Text)'
                    /\ pc' = "append" => End' <= ReadMax /\ AllShown(buffer, Text)'
  BY DEF CleanInv
<1>1. Text \in Seq(Chars) /\ Len(Text) = End /\ End \in Nat
  BY BeforePromptIs DEF Text, End, TypeOK
<1>2. ASSUME chunk' = chunk
      PROVE  /\ Orderly(Text) /\ End' = End
             /\ \A i : Open(Text, i)' <=> Open(Text, i')
             /\ Open(Text, src)' <=> Open(Text, src')
             /\ KeptUpTo(Text, src)' = KeptUpTo(Text, src')
             /\ Shows(buffer, Text, src)' <=> Shows(buffer', Text, src')
             /\ Cardinality(Kept(Text))' = Cardinality(Kept(Text))
             /\ AllShown(buffer, Text)' <=> AllShown(buffer', Text)
  <2>1. Text' = Text /\ End' = End
    BY <1>2 DEF Text, End
  <2>2. Orderly(Text)
    BY <2>1 DEF Orderly, Escaped, Controls
  <2>3. Kept(Text)' = Kept(Text)
    BY <2>1 DEF Kept, Escaped, Controls
  <2>4. \A i : KeptUpTo(Text, i)' = KeptUpTo(Text, i')
    BY <2>1, <2>3 DEF KeptUpTo
  <2> QED
    BY <2>1, <2>2, <2>3 DEF KeptUpTo, Open, Shows, AllShown
<1>3. CASE ReadChunk \/ AppendCleaned \/ Wipe \/ Overrun
  BY <1>3 DEF ReadChunk, AppendCleaned, Wipe, Overrun
<1>4. CASE CutPrompt
  <2>1. chunk' = chunk /\ pc' = "loop" /\ src' = 0 /\ dst' = 0 /\ in_escape' = FALSE
    BY <1>4 DEF CutPrompt, ioVars
  <2>2. ~Open(Text, 0)
    BY DEF Open
  <2>3. KeptUpTo(Text, 0) = 0
    BY <1>1, KeptNext
  <2>4. Shows(buffer', Text, 0)
    <3>1. \A i \in Kept(Text) : i \in Nat /\ ~(i <= 0)
      BY <1>1 DEF Kept
    <3> QED
      BY <3>1 DEF Shows
  <2> QED
    BY <1>1, <1>2, <2>1, <2>2, <2>3, <2>4
<1>5. CASE InEscape \/ BeginEscape \/ SkipControl \/ Copy
  <2>1. pc = "loop" /\ pc' = "loop" /\ chunk' = chunk
    BY <1>5 DEF InEscape, BeginEscape, SkipControl, Copy, ioVars
  <2>2. CASE src <= End
    <3>1. /\ src' <= End => /\ in_escape' <=> Open(Text, src')
                            /\ dst' = KeptUpTo(Text, src')
                            /\ Shows(buffer', Text, src')
          /\ src' > End => dst' > Cardinality(Kept(Text)) /\ AllShown(buffer', Text)
      BY <1>2, <1>5, <2>1, <2>2, IterationInText
    <3> QED
      BY <1>2, <2>1, <3>1
  <2>3. CASE src > End
    <3>1. dst > Cardinality(Kept(Text)) /\ AllShown(buffer, Text)
      BY <1>2, <2>1, <2>3 DEF CleanInv
    <3>2. /\ src \in Nat /\ src' > src /\ src' \in Nat /\ dst \in Nat /\ dst' \in {dst, dst + 1}
          /\ buffer' = buffer \/ \E v : buffer' = [buffer EXCEPT ![dst] = v]
      <4>1. src \in Nat /\ dst \in Nat
        BY DEF TypeOK
      <4>2. CASE InEscape \/ BeginEscape
        BY <4>1, <4>2 DEF InEscape, BeginEscape
      <4>3. CASE SkipControl \/ Copy
        BY <4>1, <4>3 DEF SkipControl, Copy
      <4> QED
        BY <1>5, <4>2, <4>3
    <3>3. AllShown(buffer', Text)
      <4>1. buffer \in Buffers
        BY DEF Buffers, TypeOK
      <4>2. ASSUME NEW v PROVE AllShown([buffer EXCEPT ![dst] = v], Text)
        BY <1>1, <3>1, <3>2, <4>1, WriteHidden
      <4> QED
        BY <3>1, <3>2, <4>2
    <3>4. dst' > Cardinality(Kept(Text))
      <4> DEFINE size == Cardinality(Kept(Text))
      <4>1. size \in Nat
        BY <1>1, KeptNext
      <4>2. dst > size
        BY <3>1
      <4> HIDE DEF size
      <4>3. dst' > size
        BY <3>2, <4>1, <4>2
      <4> QED
        BY <4>3 DEF size
    <3>5. ~(src' <= End)
      BY <1>1, <2>3, <3>2
    <3> QED
      BY <1>2, <2>1, <3>3, <3>4, <3>5
  <2> QED
    BY <1>1, <2>2, <2>3 DEF TypeOK
<1>6. CASE Finish
  <2>1. /\ pc = "loop" /\ pc' = "append" /\ chunk' = chunk /\ src \in Cells /\ buffer[src] = NUL
        /\ buffer' = [buffer EXCEPT ![dst] = NUL]
    BY <1>6 DEF Finish, ioVars
  <2>2. buffer \in Buffers /\ src \in Nat /\ dst \in Nat /\ dst <= src
    BY DEF Buffers, TypeOK, InPlace
  <2>5. End <= ReadMax
    BY <2>1, ClearStrAssumption DEF TextInv
  <2>3. CASE src <= End
    <3>1. src = End
      <4> SUFFICES ASSUME src < End PROVE FALSE
        BY <1>1, <2>2, <2>3
      <4>1. buffer[src] = chunk[src + 1]
        BY <1>1, <2>1, <2>2 DEF TextInv
      <4>2. src + 1 \in 1..Len(chunk)
        BY <1>1, <2>2, BeforePromptIs DEF End, TypeOK
      <4>3. chunk[src + 1] \in Chars
        BY <4>2 DEF TypeOK
      <4> QED
        BY <2>1, <4>1, <4>3, ClearStrAssumption
    <3>2. dst = KeptUpTo(Text, src) /\ Shows(buffer, Text, src)
      BY <1>2, <2>1, <2>3 DEF CleanInv
    <3>3. dst = Cardinality(Kept(Text)) /\ Shows(buffer, Text, Len(Text))
      BY <1>1, <3>1, <3>2, KeptNext
    <3>4. Shows([buffer EXCEPT ![dst] = NUL], Text, Len(Text))
      <4> DEFINE q == Len(Text)
      <4>1. KeptUpTo(Text, q) <= dst /\ Shows(buffer, Text, q) /\ q \in Nat
        BY <1>1, <2>2, <3>1, <3>2
      <4> HIDE DEF q
      <4>2. Shows([buffer EXCEPT ![dst] = NUL], Text, q)
        BY <1>1, <2>2, <4>1, WriteBehind
      <4> QED
        BY <4>2 DEF q
    <3>5. buffer'[dst] = NUL
      <4>1. dst \in Cells
        BY <2>1, <2>2, ClearStrAssumption DEF Cells
      <4> QED
        BY <2>1, <2>2, <4>1 DEF Buffers
    <3>6. AllShown(buffer', Text)
      BY <2>1, <3>3, <3>4, <3>5 DEF AllShown
    <3> QED
      BY <1>2, <2>1, <2>5, <3>6
  <2>4. CASE src > End
    <3>1. dst > Cardinality(Kept(Text)) /\ AllShown(buffer, Text)
      BY <1>2, <2>1, <2>4 DEF CleanInv
    <3>2. AllShown(buffer', Text)
      BY <1>1, <2>1, <2>2, <3>1, WriteHidden
    <3> QED
      BY <1>2, <2>1, <2>5, <3>2
  <2> QED
    BY <1>1, <2>2, <2>3, <2>4
<1>7. CASE Ended \/ UNCHANGED vars
  <2>1. UNCHANGED <<pc, chunk, buffer, src, dst, in_escape>>
    BY <1>7 DEF Ended, vars, ioVars
  <2>2. Text' = Text /\ End' = End
    BY <2>1 DEF Text, End
  <2> QED
    BY <1>2, <2>1 DEF CleanInv
<1> QED
  BY <1>3, <1>4, <1>5, <1>6, <1>7 DEF Next

\* A buffer in which all kept characters stand in front of a zero is the filtered
\* text.
LEMMA FilteredIs ==
  ASSUME NEW s \in Seq(Chars), NEW b \in Buffers, AllShown(b, s), Len(s) <= ReadMax
  PROVE  String(b) = Filtered(s)
<1> DEFINE size == Cardinality(Kept(s))
           n == Length(b)
<1>1. Len(s) \in Nat /\ Kept(s) \in SUBSET (1..Len(s)) /\ \A i \in Kept(s) : i \in 1..Len(s)
  BY DEF Kept
<1>10. size \in Nat /\ size <= ReadMax
  <2>1. size \in 0..Len(s)
    BY <1>1, CountUpTo
  <2> HIDE DEF size
  <2> QED
    BY <1>1, <2>1, ClearStrAssumption
<1>2. /\ n \in 0..(ReadMax + 1) /\ ReadMax \in Nat
      /\ \A c \in 0..(n - 1) : b[c] # NUL
      /\ n <= ReadMax => b[n] = NUL
  BY LengthIs, ClearStrAssumption
<1>3. ASSUME NEW m \in 1..size
      PROVE  b[m - 1] = Filtered(s)[m] /\ b[m - 1] # NUL
  <2>1. PICK i \in Kept(s) : UpTo(Kept(s), i) = m
    <3>1. \A a \in 1..Cardinality(Kept(s)) : \E i \in Kept(s) : UpTo(Kept(s), i) = a
      BY <1>1, CountsOneByOne
    <3> QED
      BY <1>3, <3>1
  <2>2. KeptUpTo(s, i) = m /\ Filtered(s)[KeptUpTo(s, i)] = s[i]
    BY <2>1, KeptIs
  <2>3. b[KeptUpTo(s, i) - 1] = s[i]
    BY <1>1 DEF AllShown, Shows
  <2>4. s[i] # NUL
    BY <1>1, ClearStrAssumption
  <2> QED
    BY <2>2, <2>3, <2>4
<1>4. b[size] = NUL
  BY DEF AllShown
<1>5. DOMAIN Filtered(s) = 1..size
  BY DEF Filtered
<1> HIDE DEF size, n
<1>6. n <= size
  <2> SUFFICES ASSUME size < n PROVE FALSE
    BY <1>2, <1>10
  <2>1. size \in 0..(n - 1)
    BY <1>2, <1>10
  <2> QED
    BY <1>2, <1>4, <2>1
<1>7. n = size
  <2> SUFFICES ASSUME n < size PROVE FALSE
    BY <1>2, <1>6, <1>10
  <2>1. n + 1 \in 1..size /\ (n + 1) - 1 = n /\ n <= ReadMax
    BY <1>2, <1>10
  <2>2. b[n] # NUL
    BY <1>3, <2>1
  <2> QED
    BY <1>2, <2>1, <2>2
<1>8. String(b) = [m \in 1..size |-> b[m - 1]]
  BY <1>7 DEF String, n
<1>9. Filtered(s) = [m \in 1..size |-> Filtered(s)[m]]
  BY DEF Filtered, size
<1> QED
  BY <1>3, <1>8, <1>9

\* clear_str shows an orderly text without its escape sequences and control
\* characters, however long it is and wherever they stand in it.
THEOREM Cleans == Spec => []CleansOrderlyText
<1>1. Init => TextInv /\ CleanInv
  BY DEF Init, TextInv, CleanInv
<1>2. TypeOK /\ CleanInv => CleansOrderlyText
  <2> SUFFICES ASSUME TypeOK, CleanInv, pc = "append", Orderly(Text)
               PROVE  String(buffer) = Filtered(Text)
    BY DEF CleansOrderlyText, Text
  <2>1. /\ Text \in Seq(Chars) /\ Len(Text) = End /\ End <= ReadMax
        /\ buffer \in Buffers /\ AllShown(buffer, Text)
    BY BeforePromptIs DEF Text, End, TypeOK, Buffers, CleanInv
  <2> QED
    BY <2>1, FilteredIs
<1> QED
  BY <1>1, <1>2, Initially, Step, TextStep, CleanStep, PTL DEF Spec

-----------------------------------------------------------------------------
(* Two texts, one behind the other                                          *)

\* No sequence is open at the end of the first, none is cut between the two.
Joined(s, t) ==
  /\ s # <<>> /\ Escaped(s, Len(s)) => Last(s) = M
  /\ ~(s # <<>> /\ Last(s) = ESC /\ t[1] = LB)

\* The indices of a concatenation.
LEMMA ConcatIs ==
  ASSUME NEW s \in Seq(Chars), NEW t \in Seq(Chars)
  PROVE  /\ s \o t \in Seq(Chars) /\ Len(s) \in Nat /\ Len(t) \in Nat
         /\ Len(s \o t) = Len(s) + Len(t)
         /\ \A i \in 1..Len(s) : (s \o t)[i] = s[i]
         /\ \A j \in 1..Len(t) : (s \o t)[Len(s) + j] = t[j]
<1>1. /\ s \o t \in Seq(Chars) /\ Len(s) \in Nat /\ Len(t) \in Nat
      /\ Len(s \o t) = Len(s) + Len(t)
      /\ \A i \in 1..(Len(s) + Len(t)) : (s \o t)[i] = IF i <= Len(s) THEN s[i] ELSE t[i - Len(s)]
  BY ConcatProperties
<1>2. ASSUME NEW j \in 1..Len(t) PROVE (s \o t)[Len(s) + j] = t[j]
  <2>1. Len(s) + j \in 1..(Len(s) + Len(t)) /\ ~(Len(s) + j <= Len(s)) /\ (Len(s) + j) - Len(s) = j
    BY <1>1
  <2> QED
    BY <1>1, <2>1
<1> QED
  BY <1>1, <1>2

\* A sequence of the first text stays one, and no other begins in it.
LEMMA EscapedBefore ==
  ASSUME NEW s \in Seq(Chars), NEW t \in Seq(Chars), Joined(s, t), NEW i \in 1..Len(s)
  PROVE  Escaped(s \o t, i) <=> Escaped(s, i)
<1> DEFINE u == s \o t
           m == Len(s)
           n == Len(t)
<1>1. /\ m \in Nat /\ n \in Nat /\ Len(u) = m + n
      /\ (\A k \in 1..m : u[k] = s[k]) /\ (\A j \in 1..n : u[m + j] = t[j])
  BY ConcatIs
<1>2. s[m] = ESC => ~(t[1] = LB)
  BY DEF Joined, Last
<1> HIDE DEF u, m, n
<1>3. ASSUME NEW b \in 1..i, b < Len(u), u[b] = ESC, u[b + 1] = LB, \A k \in (b + 2)..(i - 1) : u[k] # M
      PROVE  Escaped(s, i)
  <2>1. b # m
    <3> SUFFICES ASSUME b = m PROVE FALSE
      OBVIOUS
    <3>1. 1 \in 1..n /\ m \in 1..m
      BY <1>1, <1>3
    <3>2. u[m + 1] = t[1] /\ u[m] = s[m]
      BY <1>1, <3>1
    <3> QED
      BY <1>2, <1>3, <3>2
  <2>2. b < m /\ b \in 1..m /\ b + 1 \in 1..m
    BY <1>1, <2>1 DEF m
  <2>3. \A k \in (b + 2)..(i - 1) : k \in 1..m
    BY <1>1, <2>2 DEF m
  <2> QED
    BY <1>1, <1>3, <2>2, <2>3 DEF Escaped, m
<1>4. ASSUME NEW b \in 1..i, b < m, s[b] = ESC, s[b + 1] = LB, \A k \in (b + 2)..(i - 1) : s[k] # M
      PROVE  Escaped(u, i)
  <2>1. b \in 1..m /\ b + 1 \in 1..m /\ b < Len(u)
    BY <1>1, <1>4
  <2>2. \A k \in (b + 2)..(i - 1) : k \in 1..m
    BY <1>1, <2>1 DEF m
  <2> QED
    BY <1>1, <1>4, <2>1, <2>2 DEF Escaped
<1> QED
  BY <1>3, <1>4 DEF Escaped, u, m

\* A sequence of the second text is one of its own.
LEMMA EscapedBehind ==
  ASSUME NEW s \in Seq(Chars), NEW t \in Seq(Chars), Joined(s, t), NEW i \in 1..Len(t)
  PROVE  Escaped(s \o t, Len(s) + i) <=> Escaped(t, i)
<1> DEFINE u == s \o t
           m == Len(s)
           n == Len(t)
<1>1. /\ m \in Nat /\ n \in Nat /\ Len(u) = m + n
      /\ (\A k \in 1..m : u[k] = s[k]) /\ (\A j \in 1..n : u[m + j] = t[j])
  BY ConcatIs
<1>2. /\ s[m] = ESC => ~(t[1] = LB) \/ m = 0
      /\ m # 0 /\ Escaped(s, m) => s[m] = M
  BY DEF Joined, Last
<1>m. LB # M
  BY ClearStrAssumption
<1>i. i \in 1..n
  OBVIOUS
<1> HIDE DEF u, m, n
<1>3. ASSUME NEW b \in 1..(m + i), b < Len(u), u[b] = ESC, u[b + 1] = LB,
             \A k \in (b + 2)..((m + i) - 1) : u[k] # M
      PROVE  Escaped(t, i)
  <2>1. b # m
    <3> SUFFICES ASSUME b = m PROVE FALSE
      OBVIOUS
    <3>1. 1 \in 1..n /\ m \in 1..m /\ m # 0
      BY <1>1, <1>3
    <3>2. u[m + 1] = t[1] /\ u[m] = s[m]
      BY <1>1, <3>1
    <3> QED
      BY <1>2, <1>3, <3>1, <3>2
  <2>2. ~(b < m)
    <3> SUFFICES ASSUME b < m PROVE FALSE
      OBVIOUS
    <3>1. b \in 1..m /\ b + 1 \in 1..m /\ m \in 1..m /\ m # 0
      BY <1>1
    <3>2. s[b] = ESC /\ s[b + 1] = LB
      BY <1>1, <1>3, <3>1
    <3>3. \A k \in (b + 2)..m : k \in 1..m /\ k \in (b + 2)..((m + i) - 1)
      BY <1>1, <1>i, <3>1
    <3>4. \A k \in (b + 2)..m : s[k] # M
      BY <1>1, <1>3, <3>3
    <3>5. Escaped(s, m)
      <4>1. \A k \in (b + 2)..(m - 1) : k \in (b + 2)..m
        BY <1>1, <3>1
      <4> QED
        BY <3>1, <3>2, <3>4, <4>1 DEF Escaped, m
    <3>6. s[m] = M
      BY <1>2, <3>1, <3>5
    <3>7. m # b + 1
      BY <1>m, <3>2, <3>6
    <3>8. m \in (b + 2)..m
      BY <1>1, <3>1, <3>7
    <3> QED
      BY <3>4, <3>6, <3>8
  <2> DEFINE a == b - m
  <2>3. a \in 1..i /\ a < n /\ b = m + a /\ b + 1 = m + (a + 1) /\ a \in 1..n /\ a + 1 \in 1..n
    BY <1>1, <1>3, <1>i, <2>1, <2>2
  <2>4. ASSUME NEW k \in (a + 2)..(i - 1) PROVE t[k] # M
    <3>1. k \in 1..n /\ m + k \in (b + 2)..((m + i) - 1)
      BY <1>1, <1>i, <2>3
    <3> QED
      BY <1>1, <1>3, <3>1
  <2>5. t[a] = ESC /\ t[a + 1] = LB
    BY <1>1, <1>3, <2>3
  <2> HIDE DEF a
  <2> QED
    BY <2>3, <2>4, <2>5 DEF Escaped, n
<1>4. ASSUME NEW b \in 1..i, b < n, t[b] = ESC, t[b + 1] = LB, \A k \in (b + 2)..(i - 1) : t[k] # M
      PROVE  Escaped(u, m + i)
  <2> DEFINE a == m + b
  <2>1. a \in 1..(m + i) /\ a < Len(u) /\ a + 1 = m + (b + 1) /\ b \in 1..n /\ b + 1 \in 1..n
    BY <1>1, <1>4, <1>i
  <2>2. u[a] = ESC /\ u[a + 1] = LB
    BY <1>1, <1>4, <2>1
  <2>3. ASSUME NEW k \in (a + 2)..((m + i) - 1) PROVE u[k] # M
    <3>1. k - m \in (b + 2)..(i - 1) /\ k - m \in 1..n /\ k = m + (k - m)
      BY <1>1, <1>i
    <3> QED
      BY <1>1, <1>4, <3>1
  <2> HIDE DEF a
  <2> QED
    BY <2>1, <2>2, <2>3 DEF Escaped
<1> QED
  BY <1>3, <1>4 DEF Escaped, u, m, n

\* A set of numbers keeps its size when they are moved.
LEMMA Moved ==
  ASSUME NEW m \in Nat, NEW n \in Nat, NEW S \in SUBSET (1..n)
  PROVE  LET T == {m + k : k \in S}
         IN  IsFiniteSet(T) /\ Cardinality(T) = Cardinality(S)
<1> DEFINE T == {m + k : k \in S}
           f == [k \in S |-> m + k]
<1>1. IsFiniteSet(S)
  BY CountUpTo
<1>2. f \in [S -> T]
  OBVIOUS
<1>3. \A j, k \in S : f[j] = f[k] => j = k
  OBVIOUS
<1>4. \A x \in T : \E k \in S : f[k] = x
  OBVIOUS
<1> HIDE DEF f, T
<1>5. f \in Bijection(S, T)
  BY <1>2, <1>3, <1>4 DEF Bijection, Injection, IsInjective, Surjection
<1>6. ExistsBijection(S, T)
  BY <1>5 DEF ExistsBijection
<1> QED
  BY <1>1, <1>6, FS_Bijection DEF T

\* What is kept of both is what is kept of each.
LEMMA KeptOfBoth ==
  ASSUME NEW s \in Seq(Chars), NEW t \in Seq(Chars), Joined(s, t)
  PROVE  /\ \A i \in 1..Len(s) : i \in Kept(s \o t) <=> i \in Kept(s)
         /\ \A j \in 1..Len(t) : Len(s) + j \in Kept(s \o t) <=> j \in Kept(t)
<1>1. /\ s \o t \in Seq(Chars) /\ Len(s) \in Nat /\ Len(t) \in Nat
      /\ Len(s \o t) = Len(s) + Len(t)
      /\ \A i \in 1..Len(s) : (s \o t)[i] = s[i]
      /\ \A j \in 1..Len(t) : (s \o t)[Len(s) + j] = t[j]
  BY ConcatIs
<1>2. ASSUME NEW i \in 1..Len(s)
      PROVE  i \in Kept(s \o t) <=> i \in Kept(s)
  <2>1. i \in 1..Len(s \o t)
    BY <1>1
  <2> QED
    BY <1>1, <2>1, EscapedBefore DEF Kept
<1>3. ASSUME NEW j \in 1..Len(t)
      PROVE  Len(s) + j \in Kept(s \o t) <=> j \in Kept(t)
  <2>1. Len(s) + j \in 1..Len(s \o t)
    BY <1>1
  <2> QED
    BY <1>1, <2>1, EscapedBehind DEF Kept
<1> QED
  BY <1>2, <1>3

\* ... and so are their counts.
LEMMA CountOfBoth ==
  ASSUME NEW s \in Seq(Chars), NEW t \in Seq(Chars), Joined(s, t)
  PROVE  /\ \A i \in 0..Len(s) : KeptUpTo(s \o t, i) = KeptUpTo(s, i)
         /\ \A j \in 0..Len(t) :
              KeptUpTo(s \o t, Len(s) + j) = Cardinality(Kept(s)) + KeptUpTo(t, j)
<1> DEFINE u == s \o t
           m == Len(s)
           n == Len(t)
           K == Kept(u)
           A == Kept(s)
           B == Kept(t)
<1>1. /\ m \in Nat /\ n \in Nat /\ Len(u) = m + n
      /\ A \in SUBSET (1..m) /\ B \in SUBSET (1..n) /\ K \in SUBSET (1..(m + n))
  <2>1. m \in Nat /\ n \in Nat /\ Len(u) = m + n /\ u \in Seq(Chars)
    BY ConcatIs
  <2>2. A \in SUBSET (1..m) /\ B \in SUBSET (1..n)
    BY DEF Kept
  <2> HIDE DEF u, m, n
  <2>3. K \in SUBSET (1..(m + n))
    BY <2>1 DEF Kept
  <2> QED
    BY <2>1, <2>2, <2>3
<1>2. (\A i \in 1..m : i \in K <=> i \in A) /\ (\A j \in 1..n : m + j \in K <=> j \in B)
  BY KeptOfBoth
<1>3. /\ \A i : KeptUpTo(u, i) = Cardinality({k \in K : k <= i})
      /\ \A i : KeptUpTo(s, i) = Cardinality({k \in A : k <= i})
      /\ \A i : KeptUpTo(t, i) = Cardinality({k \in B : k <= i})
  BY DEF KeptUpTo
<1>4. IsFiniteSet(A) /\ IsFiniteSet(B) /\ Cardinality(A) \in Nat
  <2>1. IsFiniteSet(A) /\ IsFiniteSet(B)
    BY <1>1, CountUpTo
  <2> QED
    BY <2>1, FS_CardinalityType
<1> HIDE DEF u, m, n, K, A, B
<1>5. ASSUME NEW i \in 0..m PROVE KeptUpTo(u, i) = KeptUpTo(s, i)
  <2>1. \A k : k \in K /\ k <= i <=> k \in A /\ k <= i
    <3>1. ASSUME NEW k \in K, k <= i PROVE k \in A
      <4>1. k \in 1..(m + n)
        BY <1>1
      <4>2. k \in 1..m
        BY <1>1, <3>1, <4>1
      <4> QED
        BY <1>2, <4>2
    <3>2. ASSUME NEW k \in A PROVE k \in K
      BY <1>1, <1>2
    <3> QED
      BY <3>1, <3>2
  <2>2. {k \in K : k <= i} = {k \in A : k <= i}
    BY <2>1
  <2> QED
    BY <1>3, <2>2
<1>6. ASSUME NEW j \in 0..n PROVE KeptUpTo(u, m + j) = Cardinality(A) + KeptUpTo(t, j)
  <2> DEFINE S == {k \in B : k <= j}
             T == {m + k : k \in S}
  <2>1. S \in SUBSET (1..n) /\ \A k \in S : k \in 1..n /\ k \in B /\ k <= j
    BY <1>1
  <2>2. IsFiniteSet(T) /\ Cardinality(T) = Cardinality(S)
    BY <1>1, <2>1, Moved
  <2>3. ASSUME NEW k \in K, k <= m + j PROVE k \in A \cup T
    <3>1. k \in 1..(m + n)
      BY <1>1
    <3>2. CASE k <= m
      BY <1>1, <1>2, <3>1, <3>2
    <3>3. CASE ~(k <= m)
      <4>1. k - m \in 1..n /\ k = m + (k - m) /\ k - m <= j
        BY <1>1, <2>3, <3>1, <3>3
      <4>2. k - m \in S
        BY <1>2, <4>1
      <4> QED
        BY <4>1, <4>2
    <3> QED
      BY <3>2, <3>3
  <2>4. ASSUME NEW k \in A PROVE k \in K /\ k <= m + j
    BY <1>1, <1>2
  <2>5. ASSUME NEW k \in S PROVE m + k \in K /\ m + k <= m + j /\ m + k \notin A
    BY <1>1, <1>2, <2>1
  <2>6. {k \in K : k <= m + j} = A \cup T
    BY <2>3, <2>4, <2>5
  <2>7. A \cap T = {}
    BY <2>5
  <2> HIDE DEF S, T
  <2>8. Cardinality(A \cup T) = Cardinality(A) + Cardinality(T) - Cardinality(A \cap T)
    BY <1>4, <2>2, FS_Union
  <2>9. Cardinality(A \cap T) = 0 /\ Cardinality(T) \in Nat
    BY <2>2, <2>7, FS_EmptySet, FS_CardinalityType
  <2>10. KeptUpTo(u, m + j) = Cardinality(A) + Cardinality(T)
    BY <1>3, <1>4, <2>6, <2>8, <2>9
  <2> QED
    BY <1>3, <2>2, <2>10 DEF S
<1> QED
  BY <1>5, <1>6 DEF u, m, n, A

\* The filtered text is one of characters, each of them a kept one.
LEMMA FilteredSeq ==
  ASSUME NEW s \in Seq(Chars)
  PROVE  /\ Filtered(s) \in Seq(Chars) /\ Cardinality(Kept(s)) \in Nat
         /\ Len(Filtered(s)) = Cardinality(Kept(s))
         /\ \A n \in 1..Cardinality(Kept(s)) :
              \E i \in Kept(s) : KeptUpTo(s, i) = n /\ Filtered(s)[n] = s[i]
<1> DEFINE K == Kept(s)
           size == Cardinality(K)
           F == Filtered(s)
<1>1. /\ K \in SUBSET (1..Len(s)) /\ Len(s) \in Nat /\ size \in Nat
      /\ \A i : KeptUpTo(s, i) = UpTo(K, i)
      /\ \A i \in K : F[KeptUpTo(s, i)] = s[i]
      /\ F = [n \in 1..size |-> F[n]]
  <2>1. K \in SUBSET (1..Len(s)) /\ Len(s) \in Nat
    BY DEF Kept
  <2>2. size \in Nat
    BY KeptNext
  <2>3. (\A i : KeptUpTo(s, i) = UpTo(K, i)) /\ (\A i \in K : F[KeptUpTo(s, i)] = s[i])
    BY KeptIs
  <2>4. F = [n \in 1..size |-> F[n]]
    BY DEF Filtered
  <2> QED
    BY <2>1, <2>2, <2>3, <2>4
<1>2. \A n \in 1..size : \E i \in K : UpTo(K, i) = n
  BY <1>1, CountsOneByOne
<1> HIDE DEF K, size, F
<1>3. \A n \in 1..size : \E i \in K : KeptUpTo(s, i) = n /\ F[n] = s[i]
  BY <1>1, <1>2
<1>4. \A i \in K : s[i] \in Chars
  BY <1>1
<1>5. \A n \in 1..size : F[n] \in Chars
  BY <1>3, <1>4
<1>6. F \in Seq(Chars) /\ Len(F) = size
  BY <1>1, <1>5
<1> QED
  BY <1>1, <1>3, <1>6 DEF K, size, F

\* Filtering both at once shows what filtering each of them does.
LEMMA FilteredBoth ==
  ASSUME NEW s \in Seq(Chars), NEW t \in Seq(Chars), Joined(s, t)
  PROVE  Filtered(s \o t) = Filtered(s) \o Filtered(t)
<1> DEFINE u == s \o t
           m == Len(s)
           n == Len(t)
           a == Cardinality(Kept(s))
           b == Cardinality(Kept(t))
           F == Filtered(s)
           G == Filtered(t)
           H == Filtered(u)
<1>1. /\ u \in Seq(Chars) /\ m \in Nat /\ n \in Nat /\ Len(u) = m + n
      /\ (\A k \in 1..m : u[k] = s[k]) /\ (\A j \in 1..n : u[m + j] = t[j])
  BY ConcatIs
<1>2. /\ F \in Seq(Chars) /\ a \in Nat /\ Len(F) = a
      /\ \A x \in 1..a : \E i \in Kept(s) : KeptUpTo(s, i) = x /\ F[x] = s[i]
  BY FilteredSeq
<1>3. /\ G \in Seq(Chars) /\ b \in Nat /\ Len(G) = b
      /\ \A x \in 1..b : \E i \in Kept(t) : KeptUpTo(t, i) = x /\ G[x] = t[i]
  BY FilteredSeq
<1>4. /\ \A i \in Kept(u) : H[KeptUpTo(u, i)] = u[i]
      /\ H \in Seq(Chars) /\ Len(H) = Cardinality(Kept(u))
      /\ KeptUpTo(u, m + n) = Cardinality(Kept(u))
  <2>1. \A i \in Kept(u) : H[KeptUpTo(u, i)] = u[i]
    <3> HIDE DEF u
    <3>1. Len(u) \in Nat /\ DOMAIN u = 1..Len(u)
      BY <1>1
    <3> QED
      BY <3>1, KeptIs
  <2>2. H \in Seq(Chars) /\ Len(H) = Cardinality(Kept(u))
    BY <1>1, FilteredSeq
  <2>3. KeptUpTo(u, Len(u)) = Cardinality(Kept(u))
    BY <1>1, KeptNext
  <2> QED
    BY <1>1, <2>1, <2>2, <2>3
<1>5. /\ \A i \in 0..m : KeptUpTo(u, i) = KeptUpTo(s, i)
      /\ \A j \in 0..n : KeptUpTo(u, m + j) = a + KeptUpTo(t, j)
  BY CountOfBoth
<1>6. /\ \A i \in Kept(s) : i \in Kept(u) /\ i \in 1..m
      /\ \A j \in Kept(t) : m + j \in Kept(u) /\ j \in 1..n
  BY KeptOfBoth DEF Kept
<1>7. KeptUpTo(t, n) = b
  BY KeptNext
<1> HIDE DEF u, m, n, a, b, F, G, H
<1>8. Len(H) = a + b
  BY <1>1, <1>4, <1>5, <1>7
<1>9. ASSUME NEW x \in 1..a PROVE H[x] = F[x]
  <2>1. PICK i \in Kept(s) : KeptUpTo(s, i) = x /\ F[x] = s[i]
    BY <1>2
  <2>2. KeptUpTo(u, i) = x /\ u[i] = s[i]
    BY <1>1, <1>5, <1>6, <2>1
  <2> QED
    BY <1>4, <1>6, <2>1, <2>2
<1>10. ASSUME NEW x \in 1..b PROVE H[a + x] = G[x]
  <2>1. PICK j \in Kept(t) : KeptUpTo(t, j) = x /\ G[x] = t[j]
    BY <1>3
  <2>2. KeptUpTo(u, m + j) = a + x /\ u[m + j] = t[j]
    BY <1>1, <1>5, <1>6, <2>1
  <2> QED
    BY <1>4, <1>6, <2>1, <2>2
<1>11. /\ F \o G \in Seq(Chars) /\ Len(F \o G) = a + b
       /\ \A x \in 1..(a + b) : (F \o G)[x] = IF x <= a THEN F[x] ELSE G[x - a]
  <2>1. F \in Seq(Chars) /\ G \in Seq(Chars) /\ Len(F) = a /\ Len(G) = b
    BY <1>2, <1>3
  <2>2. /\ F \o G \in Seq(Chars) /\ Len(F \o G) = Len(F) + Len(G)
        /\ \A x \in 1..(Len(F) + Len(G)) : (F \o G)[x] = IF x <= Len(F) THEN F[x] ELSE G[x - Len(F)]
    BY <2>1, ConcatProperties
  <2> QED
    BY <2>1, <2>2
<1>12. ASSUME NEW x \in 1..(a + b) PROVE H[x] = (F \o G)[x]
  <2>1. CASE x <= a
    BY <1>2, <1>9, <1>11, <2>1
  <2>2. CASE ~(x <= a)
    <3>1. x - a \in 1..b /\ a + (x - a) = x
      BY <1>2, <1>3, <2>2
    <3> QED
      BY <1>10, <1>11, <2>2, <3>1
  <2> QED
    BY <2>1, <2>2
<1>13. H = F \o G
  BY <1>2, <1>3, <1>4, <1>8, <1>11, <1>12, SeqEqual
<1> QED
  BY <1>13 DEF u, F, G, H

\* Cleaning each read for itself shows what cleaning the whole output since the
\* last wipe would, as long as no cut between two reads falls into a sequence,
\* and nothing when the read does not fit.
THEOREM CutsAllowed == Spec => CutBetweenSequences
<1>1. TypeOK /\ CleanInv /\ [Next]_vars =>
        [pc = "append" /\ Uncut /\ shown = Filtered(Earlier) =>
           shown' = IF output_len + Len(Filtered(chunk)) < OutSize - 1
                    THEN Filtered(Earlier \o chunk) ELSE <<>>]_vars
  <2> SUFFICES ASSUME TypeOK, CleanInv, Next, pc = "append", Uncut, shown = Filtered(Earlier)
               PROVE  shown' = IF output_len + Len(Filtered(chunk)) < OutSize - 1
                               THEN Filtered(Earlier \o chunk) ELSE <<>>
    OBVIOUS
  <2>1. shown' = IF Fits THEN shown \o String(buffer) ELSE <<>>
    BY DEF Next, ReadChunk, CutPrompt, InEscape, BeginEscape, SkipControl, Copy, Finish,
           Overrun, AppendCleaned, Wipe, Ended
  <2>2. Text = chunk /\ Orderly(Text) /\ Joined(Earlier, chunk)
    BY DEF Uncut, Plain, Text, Joined
  <2>3. /\ chunk \in Seq(Chars) /\ buffer \in Buffers
        /\ AllShown(buffer, chunk) /\ Len(chunk) <= ReadMax
    BY <2>2 DEF TypeOK, Buffers, CleanInv, End, Text
  <2>4. Earlier \in Seq(Chars)
    <3>1. Len(stream) \in Nat /\ Len(rest) \in Nat /\ Len(chunk) \in Nat /\ begun \in Nat
      BY DEF TypeOK
    <3> DEFINE n == HasRead - Len(chunk)
    <3>2. n \in Int /\ n <= Len(stream) /\ begun + 1 \in Int /\ begun + 1 >= 1
      BY <3>1 DEF TypeOK, HasRead
    <3>3. \A i \in (begun + 1)..n : stream[i] \in Chars
      BY <3>1, <3>2 DEF TypeOK
    <3> HIDE DEF n
    <3>4. SubSeq(stream, begun + 1, n) \in Seq(Chars)
      BY <3>2, <3>3, SubSeqProperties
    <3> QED
      BY <3>4 DEF Earlier, n
  <2>5. String(buffer) = Filtered(chunk)
    BY <2>3, FilteredIs
  <2>6. Filtered(Earlier \o chunk) = Filtered(Earlier) \o Filtered(chunk)
    BY <2>2, <2>3, <2>4, FilteredBoth
  <2>7. Length(buffer) = Len(Filtered(chunk))
    <3>1. Length(buffer) \in Nat /\ Len(String(buffer)) = Length(buffer)
      BY <2>3, LengthType DEF String
    <3> QED
      BY <2>5, <3>1
  <2>8. Fits <=> output_len + Len(Filtered(chunk)) < OutSize - 1
    BY <2>7 DEF Fits
  <2> QED
    BY <2>1, <2>5, <2>6, <2>8
<1>2. Init => TextInv /\ CleanInv
  BY DEF Init, TextInv, CleanInv
<1> QED
  BY <1>1, <1>2, Initially, Step, TextStep, CleanStep, PTL DEF Spec, CutBetweenSequences

=============================================================================
