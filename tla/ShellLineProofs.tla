-------------------------- MODULE ShellLineProofs --------------------------
(***************************************************************************)
(* Theorems about ShellLine: what the editor of prompt (shell-skeleton.c:  *)
(* 517) shows and recalls, what parse_command and replaceAlias make of the *)
(* words of a line, and which streams a command is given, for a buffer of  *)
(* any size, any texts, alias files and leftovers of the stack, and any    *)
(* number of keys.                                                         *)
(***************************************************************************)
EXTENDS ShellLine, SequenceTheorems, FiniteSetTheorems,
        WellFoundedInduction, TLAPS

-----------------------------------------------------------------------------
(***************************************************************************)
(* The inductive invariant                                                 *)
(***************************************************************************)
\* What a text is made of, and what an array is.  The provers do not know that
\* STRING has every string; so the ones that the shell itself writes are named.
Char == (STRING \cup {Junk, EndOfInput, "?", Semicolon, Blank}) \ {NUL}
Cell == Char \cup {NUL}

\* What fits into buf with its terminator.
CString(s) == s \in Seq(Char) /\ Len(s) < Size

LineTypes ==
  /\ buf \in Seq(Cell) /\ Len(buf) = Size
  /\ index \in Nat
  /\ screen \in Seq(Char)
  /\ CString(oldbuf)
  /\ CString(line)

\* While a line is edited the next key has a place, and what is shown is what
\* stands before the cursor.
Shown ==
  at = "edit" =>
    /\ index < Size
    /\ index = Len(screen)
    /\ \A i \in 1 .. index : buf[i] = screen[i]

\* Between two prompts the line that was entered is the one to recall.
Recalled == at \in {"prompt", "run"} => oldbuf = line

LineInv == LineTypes /\ Shown /\ Recalled /\ RecallAlternates

-----------------------------------------------------------------------------
(***************************************************************************)
(* Arrays and the strings in them                                          *)
(***************************************************************************)
\* The signs are characters, and no character is the terminator.
LEMMA SignsAreChars ==
  /\ Blank \in Char /\ Junk \in Char /\ Semicolon \in Char
  /\ \A c \in Char : c # NUL /\ c \in Cell
<1>1. Blank # NUL /\ Junk # NUL
  BY DEF Blank, Junk, NUL
<1>2. Semicolon # NUL
  BY Zenon DEF Semicolon, NUL
<1> QED
  BY <1>1, <1>2 DEF Char, Cell

\* Every set of naturals that is not empty has a minimum.
LEMMA MinOfNats ==
  ASSUME NEW S, S \subseteq Nat, S # {}
  PROVE  Min(S) \in S /\ \A y \in S : Min(S) <= y
<1>1. PICK x \in S : \A y \in S : ~ (<<y, x>> \in OpToRel(<, Nat))
  BY NatLessThanWellFounded, WFMin, Zenon
<1>2. \A y \in S : x <= y
  <2> TAKE y \in S
  <2>1. x \in Nat /\ y \in Nat
    OBVIOUS
  <2>2. ~(y < x)
    BY <1>1, <2>1 DEF OpToRel
  <2> QED
    BY <2>1, <2>2
<1>3. \E z \in S : \A y \in S : z <= y
  BY <1>2
<1> QED
  BY <1>3 DEF Min

\* A function on the first numbers is a sequence.
LEMMA ArrayOf ==
  ASSUME NEW n \in Nat, NEW S, NEW f \in [1 .. n -> S]
  PROVE  f \in Seq(S) /\ Len(f) = n
<1>1. f \in Seq(S)
  BY SeqDef
<1>2. Len(f) \in Nat /\ DOMAIN f = 1 .. Len(f)
  BY <1>1, LenProperties
<1>3. DOMAIN f = 1 .. n
  OBVIOUS
<1> QED
  BY <1>1, <1>2, <1>3

\* The string in an array ends at the first NUL, or with the array.
LEMMA TextOf ==
  ASSUME NEW b \in Seq(Cell)
  PROVE  /\ Text(b) \in Seq(Char)
         /\ Len(Text(b)) <= Len(b)
         /\ \A i \in 1 .. Len(Text(b)) : Text(b)[i] = b[i]
         /\ Len(Text(b)) < Len(b) => b[Len(Text(b)) + 1] = NUL
         /\ Terminated(b) <=> Len(Text(b)) < Len(b)
<1> DEFINE ends == {i \in DOMAIN b : b[i] = NUL}
<1>1. PICK n \in Nat : n = Len(b) /\ DOMAIN b = 1 .. n
  BY LenProperties
<1>2. \A i \in 1 .. n : b[i] \in Cell
  BY <1>1, ElementOfSeq
<1>3. Terminated(b) <=> ends # {}
  BY DEF Terminated, ToSet
<1>4. CASE ends = {}
  <2>1. \A i \in 1 .. n : b[i] \in Char
    BY <1>1, <1>2, <1>4 DEF Cell
  <2>2. b \in [1 .. n -> Char]
    BY <1>1, <2>1
  <2>3. b \in Seq(Char)
    BY <2>2, ArrayOf
  <2>4. Text(b) = b
    BY <1>4 DEF Text
  <2> QED
    BY <1>1, <1>3, <1>4, <2>3, <2>4
<1>5. CASE ends # {}
  <2>1. ends \subseteq Nat
    BY <1>1
  <2>2. PICK m : m = Min(ends) /\ m \in ends /\ \A y \in ends : m <= y
    BY <1>5, <2>1, MinOfNats
  <2>3. m \in 1 .. n /\ b[m] = NUL
    BY <1>1, <2>2
  <2>4. \A i \in 1 .. m - 1 : b[i] \in Char
    <3> TAKE i \in 1 .. m - 1
    <3>1. i \in 1 .. n /\ ~(m <= i)
      BY <2>3
    <3>2. i \notin ends
      BY <2>2, <3>1
    <3>3. b[i] \in Cell /\ b[i] # NUL
      BY <1>1, <1>2, <3>1, <3>2
    <3> QED
      BY <3>3 DEF Cell
  <2>5. Text(b) = SubSeq(b, 1, m - 1)
    BY <1>5, <2>2 DEF Text
  <2> HIDE DEF ends
  <2>6. /\ SubSeq(b, 1, m - 1) \in Seq(Char)
        /\ Len(SubSeq(b, 1, m - 1)) = m - 1
        /\ \A i \in 1 .. m - 1 : SubSeq(b, 1, m - 1)[i] = b[i]
    <3>1. 1 \in Int /\ m - 1 \in Int /\ \A i \in 1 .. m - 1 : b[i] \in Char
      BY <2>3, <2>4
    <3>2. /\ SubSeq(b, 1, m - 1) \in Seq(Char)
          /\ Len(SubSeq(b, 1, m - 1)) = IF 1 <= m - 1 THEN m - 1 - 1 + 1 ELSE 0
          /\ \A i \in 1 .. m - 1 - 1 + 1 : SubSeq(b, 1, m - 1)[i] = b[1 + i - 1]
      BY <3>1, SubSeqProperties
    <3> QED
      BY <2>3, <3>2
  <2>7. PICK t : t = Text(b)
    OBVIOUS
  <2>8. /\ t \in Seq(Char) /\ Len(t) = m - 1
        /\ \A i \in 1 .. m - 1 : t[i] = b[i]
    BY <2>5, <2>6, <2>7, Zenon
  <2>9. Len(t) < Len(b) /\ Len(t) <= Len(b) /\ Len(t) + 1 = m
    BY <1>1, <2>3, <2>8
  <2> QED
    BY <1>3, <1>5, <2>3, <2>7, <2>8, <2>9
<1> QED
  BY <1>4, <1>5

\* A string that is written to an array with its terminator is what is read.
LEMMA TextIs ==
  ASSUME NEW b \in Seq(Cell),
         NEW s \in Seq(Char), Len(s) < Len(b),
         \A i \in 1 .. Len(s) : b[i] = s[i],
         b[Len(s) + 1] = NUL
  PROVE  Text(b) = s
<1>1. PICK t \in Seq(Char) : t = Text(b)
  BY TextOf
<1>2. PICK m \in Nat, n \in Nat, k \in Nat : m = Len(t) /\ n = Len(s) /\ k = Len(b)
  BY LenProperties
<1> \A c \in Char : c # NUL
  BY DEF Char
<1>3. \A i \in 1 .. m : t[i] = b[i] /\ t[i] # NUL
  <2>1. \A i \in 1 .. m : t[i] = b[i]
    BY <1>1, <1>2, TextOf
  <2>2. \A i \in 1 .. m : t[i] \in Char
    BY <1>2, ElementOfSeq
  <2> QED
    BY <2>1, <2>2
<1>4. \A i \in 1 .. n : s[i] # NUL
  <2>1. \A i \in 1 .. n : s[i] \in Char
    BY <1>2, ElementOfSeq
  <2> QED
    BY <2>1
<1>5. m < k => b[m + 1] = NUL
  BY <1>1, <1>2, TextOf
<1>6. ~(m < n)
  <2> SUFFICES ASSUME m < n PROVE FALSE
    OBVIOUS
  <2>1. m + 1 \in 1 .. n /\ m < k
    BY <1>2
  <2> QED
    BY <1>2, <1>4, <1>5, <2>1
<1>7. ~(n < m)
  <2> SUFFICES ASSUME n < m PROVE FALSE
    OBVIOUS
  <2>1. n + 1 \in 1 .. m
    OBVIOUS
  <2> QED
    BY <1>2, <1>3, <2>1
<1>8. m = n
  BY <1>6, <1>7
<1>9. Len(t) = Len(s) /\ \A i \in 1 .. Len(t) : t[i] = s[i]
  BY <1>2, <1>3, <1>8
<1> QED
  BY <1>1, <1>9, SeqEqual

\* Storing characters leaves an array what it is, and the rest of it as it was.
LEMMA StoreType ==
  ASSUME NEW b \in Seq(Cell), NEW n \in Nat, NEW s \in Seq(Cell)
  PROVE  /\ Store(b, n, s) \in Seq(Cell) /\ Len(Store(b, n, s)) = Len(b)
         /\ \A i \in 1 .. Len(b) :
              Store(b, n, s)[i] = IF i \in n + 1 .. n + Len(s) THEN s[i - n] ELSE b[i]
<1>1. PICK k \in Nat : k = Len(b) /\ DOMAIN b = 1 .. k
  BY LenProperties
<1>2. Len(s) \in Nat
  BY LenProperties
<1>3. \A i \in n + 1 .. n + Len(s) : s[i - n] \in Cell
  <2> TAKE i \in n + 1 .. n + Len(s)
  <2>1. i - n \in 1 .. Len(s)
    BY <1>2
  <2> QED
    BY <2>1, ElementOfSeq
<1>4. \A i \in 1 .. k : b[i] \in Cell
  BY <1>1, ElementOfSeq
<1>5. /\ Store(b, n, s) \in [1 .. k -> Cell]
      /\ \A i \in 1 .. k :
           Store(b, n, s)[i] = IF i \in n + 1 .. n + Len(s) THEN s[i - n] ELSE b[i]
  BY <1>1, <1>3, <1>4 DEF Store
<1> QED
  BY <1>1, <1>5, ArrayOf

\* A text with a NUL behind it.
LEMMA NULBehind ==
  ASSUME NEW s \in Seq(Char)
  PROVE  /\ Append(s, NUL) \in Seq(Cell) /\ Len(Append(s, NUL)) = Len(s) + 1
         /\ \A i \in 1 .. Len(s) : Append(s, NUL)[i] = s[i]
         /\ Append(s, NUL)[Len(s) + 1] = NUL
<1>1. s \in Seq(Cell) /\ NUL \in Cell
  BY SeqMonotonic DEF Cell
<1> QED
  BY <1>1, AppendProperties

\* A string that is written over an array stands at its start, and the rest of
\* the array is as it was.
LEMMA OverwriteType ==
  ASSUME NEW b \in Seq(Cell), NEW s \in Seq(Char)
  PROVE  /\ Overwrite(b, s) \in Seq(Cell) /\ Len(Overwrite(b, s)) = Len(b)
         /\ Len(s) < Len(b) =>
              /\ \A i \in 1 .. Len(s) : Overwrite(b, s)[i] = s[i]
              /\ Overwrite(b, s)[Len(s) + 1] = NUL
         /\ \A i \in 1 .. Len(b) : i > Len(s) + 1 => Overwrite(b, s)[i] = b[i]
<1>1. PICK t \in Seq(Cell) :
        /\ t = Append(s, NUL) /\ Len(t) = Len(s) + 1
        /\ \A i \in 1 .. Len(s) : t[i] = s[i]
        /\ t[Len(s) + 1] = NUL
  BY NULBehind
<1>2. PICK o : o = Overwrite(b, s) /\ o = Store(b, 0, t)
  BY <1>1 DEF Overwrite
<1>3. /\ o \in Seq(Cell) /\ Len(o) = Len(b)
      /\ \A i \in 1 .. Len(b) : o[i] = IF i \in 0 + 1 .. 0 + Len(t) THEN t[i - 0] ELSE b[i]
  BY <1>2, StoreType
<1>4. PICK m \in Nat, k \in Nat : m = Len(s) /\ k = Len(b)
  BY LenProperties
<1>5. \A i \in 1 .. k : o[i] = IF i <= m + 1 THEN t[i] ELSE b[i]
  <2> TAKE i \in 1 .. k
  <2>1. i \in 0 + 1 .. 0 + Len(t) <=> i <= m + 1
    BY <1>1, <1>4
  <2>2. i - 0 = i
    OBVIOUS
  <2> QED
    BY <1>3, <1>4, <2>1, <2>2
<1>6. m < k => /\ \A i \in 1 .. m : o[i] = s[i]
               /\ o[m + 1] = NUL
  BY <1>1, <1>4, <1>5
<1>7. \A i \in 1 .. k : i > m + 1 => o[i] = b[i]
  BY <1>5
<1> QED
  BY <1>2, <1>3, <1>4, <1>6, <1>7

-----------------------------------------------------------------------------
(***************************************************************************)
(* The steps                                                               *)
(***************************************************************************)
\* The end of a prompt keeps the line it parses for the up arrow, or there was
\* no room for its terminator (lines 590-611).
LEMMA AcceptStep ==
  ASSUME LineTypes,
         NEW b \in Seq(Cell), Len(b) = Size, NEW n \in Nat,
         screen' \in Seq(Char),
         Accept(b, n)
  PROVE  LineInv'
<1>1. CASE n >= Size
  <2>1. at' = "overrun" /\ UNCHANGED <<buf, index, oldbuf, line>>
    BY <1>1 DEF Accept
  <2> QED
    BY <2>1 DEF LineInv, LineTypes, Shown, Recalled, RecallAlternates, CString
<1>2. CASE ~(n >= Size)
  <2> PICK end : end = <<NUL>>
    OBVIOUS
  <2>1. PICK ended : ended = Store(b, n, end)
    OBVIOUS
  <2>2. /\ buf' = ended
        /\ index' = n + 1
        /\ oldbuf' = Text(ended)
        /\ line' = Text(ended)
    BY <1>2, <2>1 DEF Accept
  <2>3. at' \in {"overrun", "crashed", "run"}
    BY <1>2 DEF Accept
  <2>4. Size \in Nat
    BY SizeAssumption
  <2>5. n + 1 \in 1 .. Size
    BY <1>2, <2>4
  <2>6. ended \in Seq(Cell) /\ Len(ended) = Size /\ ended[n + 1] = NUL
    <3>1. end \in Seq(Cell) /\ Len(end) = 1 /\ end[1] = NUL
      BY DEF Cell
    <3>2. /\ ended \in Seq(Cell) /\ Len(ended) = Len(b)
          /\ \A i \in 1 .. Len(b) :
               ended[i] = IF i \in n + 1 .. n + Len(end) THEN end[i - n] ELSE b[i]
      <4>1. b \in Seq(Cell) /\ n \in Nat /\ end \in Seq(Cell)
        BY <3>1
      <4> QED
        BY ONLY <2>1, <4>1, StoreType
    <3>3. n + 1 \in n + 1 .. n + Len(end) /\ n + 1 - n = 1
      BY <3>1
    <3>4. ended[n + 1] = end[n + 1 - n]
      BY <3>2, <3>3, <2>5
    <3> QED
      BY <3>1, <3>2, <3>3, <3>4
  <2>7. Terminated(ended)
    <3>1. n + 1 \in DOMAIN ended
      BY <2>5, <2>6, LenProperties
    <3> QED
      BY <2>6, <3>1 DEF Terminated, ToSet
  <2>8. CString(Text(ended))
    BY <2>6, <2>7, TextOf DEF CString
  <2>9. LineTypes'
    <3>1. CString(oldbuf)' /\ CString(line)'
      BY <2>2, <2>8 DEF CString
    <3> QED
      BY <2>2, <2>6, <3>1 DEF LineTypes
  <2> QED
    BY <2>2, <2>3, <2>9 DEF LineInv, Shown, Recalled, RecallAlternates
<1> QED
  BY <1>1, <1>2

\* A prompt finds an empty string where the array is not initialised, and no
\* terminator is sure to be there (line 541).
LEMMA PromptStep ==
  ASSUME LineInv, Prompt
  PROVE  LineInv'
<1>1. PICK left \in Leftovers : buf' = [left EXCEPT ![1] = NUL]
  BY DEF Prompt
<1>2. /\ at = "prompt" /\ at' = "edit" /\ index' = 0 /\ screen' = <<>>
      /\ oldbuf' = oldbuf /\ line' = line
  BY DEF Prompt
<1>3. Size \in Nat /\ Size > 1
  BY SizeAssumption
<1>4. buf' \in Seq(Cell) /\ Len(buf') = Size /\ buf'[1] = NUL
  <2>1. left \in Seq(Cell) /\ Len(left) = Size
    <3>1. left \in Seq(STRING) /\ Len(left) = Size
      BY ArraysAssumption
    <3>2. STRING \subseteq Cell
      BY DEF Cell, Char
    <3> QED
      BY <3>1, <3>2, SeqMonotonic
  <2>2. 1 \in 1 .. Len(left) /\ NUL \in Cell
    BY <1>3, <2>1 DEF Cell
  <2>3. DOMAIN left = 1 .. Size
    BY <2>1, LenProperties
  <2>4. \A i \in 1 .. Size : left[i] \in Cell
    BY <2>1, ElementOfSeq
  <2>5. buf' \in [1 .. Size -> Cell] /\ buf'[1] = NUL
    BY <1>1, <2>1, <2>2, <2>3, <2>4
  <2> QED
    BY <1>3, <2>5, ArrayOf
<1>5. <<>> \in Seq(Char) /\ Len(<<>>) = 0
  OBVIOUS
<1>6. CString(<<>>)
  BY <1>3, <1>5 DEF CString
<1>7. Text(buf)' = <<>>
  <2>1. PICK b : b = buf'
    OBVIOUS
  <2>2. b \in Seq(Cell) /\ Len(<<>>) < Len(b) /\ b[Len(<<>>) + 1] = NUL
    BY <1>3, <1>4, <1>5, <2>1
  <2>3. \A i \in 1 .. Len(<<>>) : b[i] = <<>>[i]
    BY <1>5
  <2>4. Text(b) = <<>>
    BY <1>5, <2>2, <2>3, TextIs
  <2> QED
    BY <2>1, <2>4 DEF Text
<1>8. LineTypes'
  BY <1>2, <1>4, <1>5 DEF LineInv, LineTypes, CString
<1>9. Shown'
  BY <1>2, <1>3, <1>5 DEF Shown
<1>10. oldbuf = line
  BY <1>2 DEF LineInv, Recalled
<1> QED
  BY <1>2, <1>7, <1>8, <1>9, <1>10 DEF LineInv, Recalled, RecallAlternates

\* What is typed is stored behind what is shown (lines 580-583).
LEMMA TypeStep ==
  ASSUME LineInv, NEW s \in Seq(Char), Type(s)
  PROVE  LineInv'
<1> DEFINE n == index + Len(s)
           b == Store(buf, index, s)
<1>1. at = "edit" /\ onlyUp' = FALSE /\ screen' = screen \o s
  BY DEF Type, Pressing
<1>2. buf \in Seq(Cell) /\ Len(buf) = Size /\ index \in Nat /\ screen \in Seq(Char)
  BY DEF LineInv, LineTypes
<1>3. Len(s) \in Nat /\ n \in Nat /\ Size \in Nat
  BY <1>2, SizeAssumption, LenProperties
<1>4. /\ b \in Seq(Cell) /\ Len(b) = Size
      /\ \A i \in 1 .. Size :
           b[i] = IF i \in index + 1 .. n THEN s[i - index] ELSE buf[i]
  <2>1. s \in Seq(Cell)
    BY SeqMonotonic DEF Cell
  <2> QED
    BY <1>2, <2>1, StoreType
<1> HIDE DEF b
<1>5. screen' \in Seq(Char)
  BY <1>1, <1>2
<1>6. CASE n >= Size - 1
  <2>1. Accept(b, n)
    BY <1>6 DEF Type, b
  <2> HIDE DEF n
  <2> QED
    BY <1>3, <1>4, <1>5, <2>1, AcceptStep DEF LineInv
<1>7. CASE ~(n >= Size - 1)
  <2>1. buf' = b /\ index' = n /\ at' = at /\ oldbuf' = oldbuf /\ line' = line
    BY <1>7 DEF Type, b
  <2>2. LineTypes'
    BY <1>3, <1>4, <1>5, <2>1 DEF LineInv, LineTypes, CString
  <2>3. /\ index < Size /\ index = Len(screen)
        /\ \A i \in 1 .. index : buf[i] = screen[i]
    BY <1>1 DEF LineInv, Shown
  <2>4. /\ Len(screen') = n
        /\ \A i \in 1 .. n : screen'[i] = IF i <= index THEN screen[i] ELSE s[i - index]
    BY <1>1, <1>2, <1>3, <2>3
  <2>5. index' < Size
    BY <1>2, <1>3, <1>7, <2>1
  <2>6. ASSUME NEW i \in 1 .. n PROVE buf'[i] = screen'[i]
    <3>1. i \in 1 .. Size
      BY <1>3, <1>7
    <3>2. i \in index + 1 .. n <=> ~(i <= index)
      BY <1>2, <1>3
    <3> QED
      BY <1>2, <1>4, <2>1, <2>3, <2>4, <3>1, <3>2
  <2>7. Shown'
    BY <2>1, <2>4, <2>5, <2>6 DEF Shown
  <2> QED
    BY <1>1, <2>1, <2>2, <2>7 DEF LineInv, Recalled, RecallAlternates
<1> QED
  BY <1>6, <1>7

\* A deleted character stays behind the cursor (lines 552-558).
LEMMA BackspaceStep ==
  ASSUME LineInv, Backspace
  PROVE  LineInv'
<1>1. /\ at = "edit" /\ onlyUp' = FALSE /\ index > 0 /\ index' = index - 1
      /\ screen' = Front(screen)
      /\ UNCHANGED <<at, buf, oldbuf, line>>
  BY DEF Backspace, Pressing
<1>2. /\ index < Size /\ index = Len(screen)
      /\ \A i \in 1 .. index : buf[i] = screen[i]
      /\ index \in Nat /\ screen \in Seq(Char) /\ Size \in Nat
  BY <1>1, SizeAssumption DEF LineInv, LineTypes, Shown
<1>3. screen' = SubSeq(screen, 1, index - 1)
  BY <1>1, <1>2 DEF Front
<1>4. /\ screen' \in Seq(Char)
      /\ Len(screen') = index - 1
      /\ \A i \in 1 .. index - 1 : screen'[i] = screen[i]
  BY <1>1, <1>2, <1>3
<1>5. LineTypes'
  BY <1>1, <1>2, <1>4 DEF LineInv, LineTypes, CString
<1>6. Shown'
  BY <1>1, <1>2, <1>4 DEF Shown
<1> QED
  BY <1>1, <1>5, <1>6 DEF LineInv, Recalled, RecallAlternates

\* The line and the one before change places, if buf has a terminator (lines
\* 564-577).
LEMMA UpArrowStep ==
  ASSUME LineInv, UpArrow
  PROVE  LineInv'
<1>1. at = "edit" /\ onlyUp' = onlyUp /\ line' = line
  BY DEF UpArrow, Pressing
<1>2. CASE /\ Terminated(buf) /\ at' = at
           /\ screen' = oldbuf /\ oldbuf' = Text(buf)
           /\ buf' = Overwrite(buf, oldbuf) /\ index' = Len(oldbuf)
  <2>1. /\ buf \in Seq(Cell) /\ Len(buf) = Size
        /\ CString(oldbuf) /\ CString(line)
        /\ Size \in Nat /\ Size > 1
    BY SizeAssumption DEF LineInv, LineTypes
  <2>2. oldbuf \in Seq(Char) /\ Len(oldbuf) \in Nat /\ Len(oldbuf) < Size
    BY <2>1, LenProperties DEF CString
  <2>3. PICK b : b = buf'
    OBVIOUS
  <2>4. /\ b \in Seq(Cell) /\ Len(b) = Size
        /\ \A i \in 1 .. Len(oldbuf) : b[i] = oldbuf[i]
        /\ b[Len(oldbuf) + 1] = NUL
    BY <1>2, <2>1, <2>2, <2>3, OverwriteType
  <2>5. CString(Text(buf))
    BY <1>2, <2>1, TextOf DEF CString
  <2>6. Text(b) = oldbuf
    BY <2>2, <2>4, TextIs
  <2>7. LineTypes'
    <3>1. CString(oldbuf)' /\ CString(line)'
      BY <1>1, <1>2, <2>1, <2>5 DEF CString
    <3> QED
      BY <1>1, <1>2, <2>2, <2>3, <2>4, <3>1 DEF LineTypes
  <2>8. Shown'
    BY <1>2, <2>2, <2>3, <2>4 DEF Shown
  <2>9. RecallAlternates'
    <3> SUFFICES ASSUME onlyUp
                 PROVE  /\ oldbuf \in {line, <<>>}
                        /\ {Text(buf), oldbuf} = {line, <<>>}
      <4>1. Text(buf)' = oldbuf
        BY <2>3, <2>6 DEF Text
      <4> QED
        BY <1>1, <1>2, <4>1 DEF RecallAlternates
    <3>1. {oldbuf, Text(buf)} = {line, <<>>}
      BY <1>1 DEF LineInv, RecallAlternates
    <3> QED
      BY <3>1
  <2> QED
    BY <1>1, <1>2, <2>7, <2>8, <2>9 DEF LineInv, Recalled
<1>3. CASE at' = "overrun" /\ UNCHANGED <<screen, oldbuf, buf, index>>
  BY <1>1, <1>3 DEF LineInv, LineTypes, CString, Shown, Recalled, RecallAlternates
<1> QED
  BY <1>2, <1>3 DEF UpArrow

\* Tab stores the completion sign and ends the prompt (lines 546-549).
LEMMA TabStep ==
  ASSUME LineInv, Tab
  PROVE  LineInv'
<1>1. LineTypes /\ screen' = screen
  BY DEF LineInv, Tab
<1>2. Accept(Store(buf, index, <<"?">>), index + 1)
  BY DEF Tab
<1>3. PICK b : b = Store(buf, index, <<"?">>)
  OBVIOUS
<1>4. b \in Seq(Cell) /\ Len(b) = Size
  <2>1. <<"?">> \in Seq(Cell)
    BY DEF Cell, Char
  <2> QED
    BY <1>1, <1>3, <2>1, StoreType DEF LineTypes
<1>5. index + 1 \in Nat /\ screen' \in Seq(Char)
  BY <1>1 DEF LineTypes
<1>6. Accept(b, index + 1)
  BY <1>2, <1>3
<1> QED
  BY <1>1, <1>4, <1>5, <1>6, AcceptStep

\* Every step of the editor keeps the invariant.
LEMMA NextLine ==
  ASSUME LineInv, [Next]_vars
  PROVE  LineInv'
<1>1. CASE Prompt
  BY <1>1, PromptStep
<1>2. ASSUME NEW s \in Chunks, Type(s) PROVE LineInv'
  <2>1. s \in Seq(Char)
    BY TextAssumption, SeqMonotonic DEF Char, Letters
  <2> QED
    BY <1>2, <2>1, TypeStep
<1>3. CASE Backspace
  BY <1>3, BackspaceStep
<1>4. CASE UpArrow
  BY <1>4, UpArrowStep
<1>5. CASE Enter
  <2>1. Accept(buf, index) /\ screen' = screen
    BY <1>5 DEF Enter
  <2> QED
    BY <2>1, AcceptStep DEF LineInv, LineTypes
<1>6. CASE Tab
  BY <1>6, TabStep
<1>7. CASE CtrlD
  <2>1. CASE index + 1 >= Size - 1
    <3>1. Type(<<EndOfInput>>)
      BY <1>7, <2>1 DEF CtrlD
    <3>2. <<EndOfInput>> \in Seq(Char)
      BY DEF Char, EndOfInput, NUL
    <3> QED
      BY <3>1, <3>2, TypeStep
  <2>2. CASE ~(index + 1 >= Size - 1)
    <3>1. at' = "ended" /\ UNCHANGED <<buf, index, oldbuf, screen, line>>
      BY <1>7, <2>2 DEF CtrlD
    <3> QED
      BY <3>1 DEF LineInv, LineTypes, CString, Shown, Recalled, RecallAlternates
  <2> QED
    BY <2>1, <2>2
<1>8. CASE Run
  <2>1. at = "run" /\ at' = "prompt" /\ UNCHANGED <<buf, index, oldbuf, screen, line>>
    BY <1>8 DEF Run
  <2> QED
    BY <2>1 DEF LineInv, LineTypes, CString, Shown, Recalled, RecallAlternates
<1>9. CASE UNCHANGED vars
  BY <1>9 DEF vars, LineInv, LineTypes, CString, Shown, Recalled, RecallAlternates, Text
<1> QED
  BY <1>1, <1>2, <1>3, <1>4, <1>5, <1>6, <1>7, <1>8, <1>9 DEF Next

\* At the start nothing is shown and nothing is to be recalled.
LEMMA InitLine ==
  ASSUME Init
  PROVE  LineInv
<1>1. Size \in Nat /\ Size > 1
  BY SizeAssumption
<1>2. <<>> \in Seq(Char) /\ Len(<<>>) = 0
  OBVIOUS
<1>3. CString(<<>>)
  BY <1>1, <1>2 DEF CString
<1>4. /\ at = "prompt" /\ buf = [i \in 1 .. Size |-> NUL] /\ index = 0
      /\ screen = <<>> /\ oldbuf = <<>> /\ line = <<>>
  BY DEF Init
<1>5. buf \in Seq(Cell) /\ Len(buf) = Size
  <2>1. buf \in [1 .. Size -> Cell]
    BY <1>4 DEF Cell
  <2> QED
    BY <1>1, <2>1, ArrayOf
<1>6. LineTypes
  BY <1>2, <1>3, <1>4, <1>5 DEF LineTypes
<1> QED
  BY <1>4, <1>6 DEF LineInv, Shown, Recalled, RecallAlternates

-----------------------------------------------------------------------------
(***************************************************************************)
(* The theorems about the editor                                           *)
(***************************************************************************)
\* The editor keeps its invariant, whatever the array held that no prompt
\* initialises: while a line is edited the cursor is inside buf and what stands
\* before it is on the screen; the line to recall is the one entered last, and it
\* always fits back into buf; and the up arrow alone alternates (lines 517-611).
THEOREM LineInvariant == Spec => []LineInv
<1>1. Init => LineInv
  BY InitLine
<1>2. LineInv /\ [Next]_vars => LineInv'
  BY NextLine
<1> QED
  BY <1>1, <1>2, PTL DEF Spec

\* The screen shows the line: after any keys the characters behind the prompt
\* are those in buf before the cursor, although deleted ones stay in buf and
\* the up arrow copies them with the rest (lines 551-583).
THEOREM LineScreen == Spec => []ScreenIsLine
<1>1. LineInv => ScreenIsLine
  <2> SUFFICES ASSUME LineInv, at = "edit"
               PROVE  SubSeq(buf, 1, index) = screen
    BY DEF ScreenIsLine
  <2>1. /\ index \in Nat /\ Size \in Nat /\ index < Size /\ index = Len(screen)
        /\ screen \in Seq(Char) /\ buf \in Seq(Cell) /\ Len(buf) = Size
        /\ \A i \in 1 .. index : buf[i] = screen[i]
    BY SizeAssumption DEF LineInv, LineTypes, Shown
  <2>2. \A i \in 1 .. index : buf[i] \in Char
    BY <2>1, ElementOfSeq
  <2>3. /\ SubSeq(buf, 1, index) \in Seq(Char)
        /\ Len(SubSeq(buf, 1, index)) = IF 1 <= index THEN index - 1 + 1 ELSE 0
        /\ \A i \in 1 .. index - 1 + 1 : SubSeq(buf, 1, index)[i] = buf[1 + i - 1]
    BY <2>1, <2>2, SubSeqProperties
  <2>4. /\ Len(SubSeq(buf, 1, index)) = Len(screen)
        /\ \A i \in 1 .. index : SubSeq(buf, 1, index)[i] = screen[i]
    BY <2>1, <2>3
  <2> QED
    BY <2>1, <2>3, <2>4, SeqEqual
<1> QED
  BY <1>1, LineInvariant, PTL

\* The up arrow alone alternates between the line before, as it was entered,
\* and an empty line, whatever the uninitialised buffer held (lines 541,
\* 571-575, 598).
THEOREM LineRecall == Spec => []RecallAlternates
<1>1. LineInv => RecallAlternates
  BY DEF LineInv
<1> QED
  BY <1>1, LineInvariant, PTL

-----------------------------------------------------------------------------
(***************************************************************************)
(* Folds                                                                   *)
(***************************************************************************)
\* Induction over the numbers up to n, with a set in the place of a predicate.
LEMMA Steps ==
  ASSUME NEW n \in Nat, NEW S, 0 \in S,
         \A i \in 1 .. n : i - 1 \in S => i \in S
  PROVE  \A i \in 0 .. n : i \in S
<1> SUFFICES ASSUME NEW j \in 0 .. n, j \notin S PROVE FALSE
  OBVIOUS
<1> DEFINE R == {i \in 0 .. n : i \notin S}
<1>1. R \subseteq Nat /\ R # {}
  OBVIOUS
<1>2. Min(R) \in R /\ \A y \in R : Min(R) <= y
  BY <1>1, MinOfNats
<1> DEFINE m == Min(R)
<1>3. m \in 0 .. n /\ m \notin S /\ \A y \in R : m <= y
  BY <1>2
<1> HIDE DEF m
<1>4. m - 1 \in 0 .. n /\ m \in 1 .. n
  BY <1>3
<1>5. m - 1 \notin R
  BY <1>3, <1>4
<1> QED
  BY <1>3, <1>4, <1>5

\* The last of the numbers up to n.
LEMMA MaxOfPrefix ==
  ASSUME NEW n \in Nat, n > 0
  PROVE  /\ 1 .. n # {}
         /\ Max(1 .. n) = n
         /\ (1 .. n) \ {n} = 1 .. n - 1
<1>1. n \in 1 .. n /\ \A y \in 1 .. n : n >= y
  OBVIOUS
<1>2. \A x \in 1 .. n : (\A y \in 1 .. n : x >= y) => x = n
  OBVIOUS
<1>3. Max(1 .. n) = n
  BY <1>1, <1>2 DEF Max
<1> QED
  BY <1>1, <1>3

\* A set of numbers that are at most n has a greatest.
LEMMA MaxOfNats ==
  ASSUME NEW S, NEW n \in Nat, S \subseteq 0 .. n, S # {}
  PROVE  Max(S) \in S /\ \A y \in S : Max(S) >= y
<1> DEFINE R == {z \in 0 .. n : n - z \in S}
<1>1. R \subseteq Nat /\ R # {}
  <2>1. PICK y \in S : TRUE
    OBVIOUS
  <2>2. y \in 0 .. n /\ n - y \in 0 .. n /\ n - (n - y) = y
    BY <2>1
  <2>3. n - y \in R
    BY <2>1, <2>2
  <2>4. R \subseteq 0 .. n
    OBVIOUS
  <2> HIDE DEF R
  <2> QED
    BY <2>3, <2>4
<1>2. Min(R) \in R /\ \A y \in R : Min(R) <= y
  BY <1>1, MinOfNats
<1> DEFINE x == n - Min(R)
<1>3. x \in S /\ Min(R) \in 0 .. n
  BY <1>2
<1>4. \A y \in S : x >= y
  <2> TAKE y \in S
  <2>1. y \in 0 .. n /\ n - y \in 0 .. n /\ n - (n - y) = y
    OBVIOUS
  <2>2. n - y \in R
    BY <2>1
  <2>3. Min(R) <= n - y
    BY <1>2, <2>2
  <2> HIDE DEF R
  <2> QED
    BY <1>3, <2>1, <2>3
<1> HIDE DEF x
<1> QED
  BY <1>3, <1>4 DEF Max

\* h is the function over sets of positions that FoldLeft is defined by, of n
\* steps: f[i] is the step at i.
FoldsBy(h, base, f, n) ==
  \A s \in SUBSET (1 .. n) :
    h[s] = IF s = {} THEN base ELSE f[Max(s)][h[s \ {Max(s)}]]

\* The function over subsets that a fold is defined by exists.
LEMMA FoldExists ==
  ASSUME NEW States, NEW base \in States, NEW n \in Nat,
         NEW f \in [1 .. n -> [States -> States]]
  PROVE  \E h \in [SUBSET (1 .. n) -> States] : FoldsBy(h, base, f, n)
<1> DEFINE Folds(m) ==
      \E h \in [SUBSET (1 .. m) -> States] : FoldsBy(h, base, f, m)
    S == {m \in 0 .. n : Folds(m)}
<1>1. Folds(0)
  <2> DEFINE h == [s \in SUBSET (1 .. 0) |-> base]
  <2>1. 1 .. 0 = {}
    OBVIOUS
  <2>2. h \in [SUBSET (1 .. 0) -> States]
    OBVIOUS
  <2>3. \A s \in SUBSET (1 .. 0) : s = {} /\ h[s] = base
    BY <2>1
  <2> HIDE DEF h
  <2> QED
    BY <2>2, <2>3 DEF FoldsBy
<1>2. ASSUME NEW m \in 1 .. n, Folds(m - 1) PROVE Folds(m)
  <2>1. PICK h \in [SUBSET (1 .. m - 1) -> States] :
          \A s \in SUBSET (1 .. m - 1) :
            h[s] = IF s = {} THEN base ELSE f[Max(s)][h[s \ {Max(s)}]]
    BY <1>2 DEF FoldsBy
  <2> DEFINE k == [s \in SUBSET (1 .. m) |->
                     IF m \in s THEN f[m][h[s \ {m}]] ELSE h[s]]
  <2>2. ASSUME NEW s \in SUBSET (1 .. m)
        PROVE  /\ m \notin s => s \in SUBSET (1 .. m - 1)
               /\ s \ {m} \in SUBSET (1 .. m - 1)
    OBVIOUS
  <2>3. f[m] \in [States -> States]
    OBVIOUS
  <2>4. k \in [SUBSET (1 .. m) -> States]
    <3>1. ASSUME NEW s \in SUBSET (1 .. m)
          PROVE  (IF m \in s THEN f[m][h[s \ {m}]] ELSE h[s]) \in States
      <4>1. CASE m \in s
        <5>1. h[s \ {m}] \in States
          BY <2>2
        <5> QED
          BY <4>1, <5>1, <2>3
      <4>2. CASE m \notin s
        BY <4>2, <2>2
      <4> QED
        BY <4>1, <4>2
    <3> QED
      BY <3>1
  <2>5. \A s \in SUBSET (1 .. m - 1) : k[s] = h[s]
    <3> TAKE s \in SUBSET (1 .. m - 1)
    <3>1. m \notin s /\ s \in SUBSET (1 .. m)
      OBVIOUS
    <3> QED
      BY <3>1
  <2>6. \A s \in SUBSET (1 .. m) : m \in s => k[s] = f[m][h[s \ {m}]]
    OBVIOUS
  <2> HIDE DEF k
  <2>7. ASSUME NEW s \in SUBSET (1 .. m)
        PROVE  k[s] = IF s = {} THEN base ELSE f[Max(s)][k[s \ {Max(s)}]]
    <3>1. CASE m \in s
      <4>1. Max(s) = m
        <5>1. \A y \in s : m >= y
          OBVIOUS
        <5>2. \A x \in s : (\A y \in s : x >= y) => x = m
          BY <3>1
        <5> QED
          BY <3>1, <5>1, <5>2 DEF Max
      <4>2. k[s \ {m}] = h[s \ {m}]
        BY <2>2, <2>5
      <4> QED
        BY <3>1, <4>1, <4>2, <2>6
    <3>2. CASE m \notin s /\ s # {}
      <4>1. s \in SUBSET (1 .. m - 1)
        BY <3>2, <2>2
      <4>2. s \ {Max(s)} \in SUBSET (1 .. m - 1)
        BY <4>1
      <4>3. k[s] = h[s] /\ k[s \ {Max(s)}] = h[s \ {Max(s)}]
        BY <4>1, <4>2, <2>5
      <4> QED
        BY <2>1, <3>2, <4>1, <4>3
    <3>3. CASE s = {}
      <4>1. s \in SUBSET (1 .. m - 1)
        BY <3>3
      <4> QED
        BY <2>1, <2>5, <3>3, <4>1
    <3> QED
      BY <3>1, <3>2, <3>3
  <2> QED
    BY <2>4, <2>7 DEF FoldsBy
<1> HIDE DEF Folds
<1>3. \A i \in 1 .. n : i - 1 \in S => i \in S
  BY <1>2
<1>4. 0 \in S
  BY <1>1
<1> HIDE DEF S
<1>5. \A i \in 0 .. n : i \in S
  BY <1>3, <1>4, Steps
<1>6. n \in S
  BY <1>5
<1> QED
  BY <1>6 DEF S, Folds

\* The greatest of some of the numbers up to n is one of them.
LEMMA MaxOfSubset ==
  ASSUME NEW n \in Nat, NEW s \in SUBSET (1 .. n), s # {}
  PROVE  Max(s) \in 1 .. n /\ s \ {Max(s)} \in SUBSET (1 .. n)
<1>1. s \subseteq 0 .. n
  OBVIOUS
<1>2. Max(s) \in s
  BY <1>1, MaxOfNats
<1> QED
  BY <1>2

-----------------------------------------------------------------------------
(***************************************************************************)
(* Words: the split of a text by strtok                                    *)
(***************************************************************************)
\* Characters without a blank among them, and those that strtok returns.
Solid == {w \in Seq(Char) : \A i \in 1 .. Len(w) : w[i] # Blank}
Word == Solid \ {<<>>}

\* The states of the split, from the one before the first character.
Scans == [words : Seq(Word), word : Solid]
Unscanned == [words |-> <<>>, word |-> <<>>]

\* g[i] is the state of the split behind i characters of s.
IsScan(g, s) ==
  /\ g \in [0 .. Len(s) -> Scans]
  /\ g[0] = Unscanned
  /\ \A i \in 1 .. Len(s) : g[i] = PutChar(g[i - 1], s[i])

\* The split collects words.
LEMMA ScanTypes ==
  /\ Unscanned \in Scans
  /\ \A x \in Scans : EndWord(x) \in Seq(Word)
  /\ \A x \in Scans, c \in Char : PutChar(x, c) \in Scans
<1>1. <<>> \in Seq(Word) /\ <<>> \in Solid
  BY DEF Solid
<1>2. ASSUME NEW x \in Scans PROVE EndWord(x) \in Seq(Word)
  <2>1. x.words \in Seq(Word) /\ x.word \in Solid
    BY DEF Scans
  <2>2. CASE x.word = <<>>
    BY <2>1, <2>2 DEF EndWord
  <2>3. CASE x.word # <<>>
    <3>1. x.word \in Word
      BY <2>1, <2>3 DEF Word
    <3> QED
      BY <2>1, <2>3, <3>1, AppendProperties DEF EndWord
  <2> QED
    BY <2>2, <2>3
<1>3. ASSUME NEW x \in Scans, NEW c \in Char PROVE PutChar(x, c) \in Scans
  <2>1. x.words \in Seq(Word) /\ x.word \in Solid
    BY DEF Scans
  <2>2. CASE c = Blank
    BY <1>1, <1>2, <2>2 DEF PutChar, Scans
  <2>3. CASE c # Blank
    <3>1. Append(x.word, c) \in Solid
      <4>1. x.word \in Seq(Char) /\ \A i \in 1 .. Len(x.word) : x.word[i] # Blank
        BY <2>1 DEF Solid
      <4>2. /\ Append(x.word, c) \in Seq(Char)
            /\ Len(Append(x.word, c)) = Len(x.word) + 1
            /\ \A i \in 1 .. Len(x.word) : Append(x.word, c)[i] = x.word[i]
            /\ Append(x.word, c)[Len(x.word) + 1] = c
        BY <4>1, AppendProperties
      <4>3. Len(x.word) \in Nat
        BY <4>1, LenProperties
      <4>4. ASSUME NEW i \in 1 .. Len(x.word) + 1 PROVE Append(x.word, c)[i] # Blank
        BY <2>3, <4>1, <4>2, <4>3
      <4> QED
        BY <4>2, <4>4 DEF Solid
    <3> QED
      BY <2>1, <2>3, <3>1 DEF PutChar, Scans
  <2> QED
    BY <2>2, <2>3
<1> QED
  BY <1>1, <1>2, <1>3 DEF Scans, Unscanned

\* The fold of Words runs through these states.
LEMMA ScanOf ==
  ASSUME NEW s \in Seq(Char)
  PROVE  \E g : IsScan(g, s) /\ Words(s) = EndWord(g[Len(s)])
<1> DEFINE n == Len(s)
           f == [i \in 1 .. n |-> [x \in Scans |-> PutChar(x, s[i])]]
           iter == CHOOSE h : h = [S \in SUBSET (DOMAIN s) |->
                     IF S = {} THEN Unscanned
                     ELSE PutChar(h[S \ {Max(S)}], s[Max(S)])]
           g == [i \in 0 .. n |-> iter[1 .. i]]
<1>1. n \in Nat /\ DOMAIN s = 1 .. n /\ \A i \in 1 .. n : s[i] \in Char
  BY LenProperties, ElementOfSeq
<1>2. f \in [1 .. n -> [Scans -> Scans]]
  BY <1>1, ScanTypes
<1>3. \E h : h = [S \in SUBSET (DOMAIN s) |->
                    IF S = {} THEN Unscanned
                    ELSE PutChar(h[S \ {Max(S)}], s[Max(S)])]
  <2>1. PICK h \in [SUBSET (1 .. n) -> Scans] : FoldsBy(h, Unscanned, f, n)
    <3>1. Unscanned \in Scans
      BY ScanTypes
    <3> HIDE DEF f, n
    <3> QED
      BY ONLY <1>1, <1>2, <3>1, FoldExists
  <2>2. ASSUME NEW S \in SUBSET (1 .. n), S # {}
        PROVE  f[Max(S)][h[S \ {Max(S)}]] = PutChar(h[S \ {Max(S)}], s[Max(S)])
    <3>1. Max(S) \in 1 .. n /\ h[S \ {Max(S)}] \in Scans
      BY <1>1, <2>2, MaxOfSubset
    <3> QED
      BY <3>1
  <2> HIDE DEF f
  <2>3. h = [S \in SUBSET (1 .. n) |->
               IF S = {} THEN Unscanned ELSE PutChar(h[S \ {Max(S)}], s[Max(S)])]
    BY <2>1, <2>2 DEF FoldsBy
  <2> QED
    BY <1>1, <2>3
<1>4. iter = [S \in SUBSET (DOMAIN s) |->
                IF S = {} THEN Unscanned
                ELSE PutChar(iter[S \ {Max(S)}], s[Max(S)])]
  BY <1>3
<1>5. FoldLeft(PutChar, Unscanned, s) = iter[DOMAIN s]
  BY DEF FoldLeft, MapThenFoldSet
<1> HIDE DEF iter, f
<1>6. g[0] = Unscanned
  <2>1. 1 .. 0 = {} /\ 0 \in 0 .. n
    BY <1>1
  <2> QED
    BY <1>1, <1>4, <2>1
<1>7. ASSUME NEW i \in 1 .. n PROVE g[i] = PutChar(g[i - 1], s[i])
  <2>1. 1 .. i # {} /\ Max(1 .. i) = i /\ (1 .. i) \ {i} = 1 .. i - 1
    <3>1. i \in Nat /\ i > 0
      BY <1>1
    <3> QED
      BY ONLY <3>1, MaxOfPrefix
  <2>2. 1 .. i \in SUBSET (DOMAIN s) /\ i \in 0 .. n /\ i - 1 \in 0 .. n
    BY <1>1
  <2> QED
    BY <1>4, <2>1, <2>2
<1>8. g[n] = FoldLeft(PutChar, Unscanned, s)
  BY <1>1, <1>5
<1> DEFINE T == {i \in 0 .. n : g[i] \in Scans}
<1>9. \A i \in 0 .. n : i \in T
  <2>1. 0 \in T
    BY <1>1, <1>6, ScanTypes
  <2>2. ASSUME NEW i \in 1 .. n, i - 1 \in T PROVE i \in T
    <3>1. g[i - 1] \in Scans /\ s[i] \in Char /\ i \in 0 .. n
      BY <1>1, <2>2
    <3> HIDE DEF g
    <3>2. g[i] \in Scans
      BY <1>7, <3>1, ScanTypes
    <3> QED
      BY <3>1, <3>2
  <2> HIDE DEF T
  <2> QED
    BY <1>1, <2>1, <2>2, Steps
<1>10. g \in [0 .. n -> Scans]
  BY <1>9
<1>11. Words(s) = EndWord(FoldLeft(PutChar, Unscanned, s))
  BY DEF Words, Unscanned
<1> HIDE DEF g
<1> QED
  BY <1>6, <1>7, <1>8, <1>10, <1>11 DEF IsScan

\* There is one way through them.
LEMMA ScanIs ==
  ASSUME NEW s \in Seq(Char), NEW g, IsScan(g, s)
  PROVE  Words(s) = EndWord(g[Len(s)]) /\ Words(s) \in Seq(Word)
<1>1. PICK h : IsScan(h, s) /\ Words(s) = EndWord(h[Len(s)])
  BY ScanOf
<1> DEFINE T == {i \in 0 .. Len(s) : g[i] = h[i]}
<1>2. Len(s) \in Nat
  BY LenProperties
<1>3. 0 \in T
  BY <1>1, <1>2 DEF IsScan
<1>4. \A i \in 1 .. Len(s) : i - 1 \in T => i \in T
  BY <1>1, <1>2 DEF IsScan
<1> HIDE DEF T
<1>5. \A i \in 0 .. Len(s) : i \in T
  BY <1>2, <1>3, <1>4, Steps
<1>6. g[Len(s)] = h[Len(s)] /\ g[Len(s)] \in Scans
  BY <1>2, <1>5 DEF T, IsScan
<1> QED
  BY <1>1, <1>6, ScanTypes

\* A part of a sequence.
LEMMA PartOf ==
  ASSUME NEW S, NEW s \in Seq(S), NEW m \in 1 .. Len(s) + 1, NEW n \in m - 1 .. Len(s)
  PROVE  /\ SubSeq(s, m, n) \in Seq(S)
         /\ Len(SubSeq(s, m, n)) = n - m + 1
         /\ \A i \in 1 .. n - m + 1 : SubSeq(s, m, n)[i] = s[m + i - 1]
<1>1. Len(s) \in Nat
  BY LenProperties
<1>2. \A i \in m .. n : s[i] \in S
  <2> TAKE i \in m .. n
  <2>1. i \in 1 .. Len(s)
    BY <1>1
  <2> QED
    BY <2>1, ElementOfSeq
<1>3. m \in Int /\ n \in Int /\ m >= 1 /\ n >= m - 1
  BY <1>1
<1> QED
  BY <1>2, <1>3, SubSeqProperties

\* A prefix grows by the element behind it.
LEMMA PrefixStep ==
  ASSUME NEW S, NEW s \in Seq(S), NEW i \in 1 .. Len(s)
  PROVE  SubSeq(s, 1, i) = Append(SubSeq(s, 1, i - 1), s[i])
<1>1. Len(s) \in Nat /\ s[i] \in S
  BY LenProperties, ElementOfSeq
<1>2. /\ i \in 0 .. Len(s) /\ i - 1 \in 0 .. Len(s) /\ 1 \in 1 .. Len(s) + 1
      /\ i - 1 + 1 = i /\ i \in Nat /\ i - 1 \in Nat
  BY <1>1
<1> DEFINE a == SubSeq(s, 1, i)
           b == SubSeq(s, 1, i - 1)
<1>3. a \in Seq(S) /\ Len(a) = i /\ \A k \in 1 .. i : a[k] = s[k]
  BY <1>2, PartOf
<1>4. b \in Seq(S) /\ Len(b) = i - 1 /\ \A k \in 1 .. i - 1 : b[k] = s[k]
  BY <1>2, PartOf
<1> HIDE DEF a, b
<1>5. /\ Append(b, s[i]) \in Seq(S)
      /\ Len(Append(b, s[i])) = i
      /\ \A k \in 1 .. i - 1 : Append(b, s[i])[k] = s[k]
      /\ Append(b, s[i])[i] = s[i]
  BY <1>1, <1>2, <1>4, AppendProperties
<1>6. \A k \in 1 .. i : a[k] = Append(b, s[i])[k]
  BY <1>2, <1>3, <1>5
<1>7. a = Append(b, s[i])
  BY <1>3, <1>5, <1>6, SeqEqual
<1> QED
  BY <1>7 DEF a, b

\* Nothing has no words.
LEMMA WordsOfNothing == Words(<<>>) = <<>>
<1> DEFINE g == [i \in 0 .. 0 |-> Unscanned]
<1>1. <<>> \in Seq(Char) /\ Len(<<>>) = 0
  OBVIOUS
<1>2. IsScan(g, <<>>)
  BY <1>1, ScanTypes DEF IsScan
<1>3. g[0] = Unscanned
  OBVIOUS
<1> HIDE DEF g
<1>4. Words(<<>>) = EndWord(g[0])
  BY <1>1, <1>2, ScanIs
<1> QED
  BY <1>3, <1>4 DEF EndWord, Unscanned

\* A word is its only word.
LEMMA WordsOfWord ==
  ASSUME NEW w \in Word
  PROVE  Words(w) = <<w>>
<1> DEFINE g == [i \in 0 .. Len(w) |-> [words |-> <<>>, word |-> SubSeq(w, 1, i)]]
<1>1. /\ w \in Seq(Char) /\ w # <<>> /\ Len(w) \in Nat
      /\ \A i \in 1 .. Len(w) : w[i] # Blank /\ w[i] \in Char
  BY LenProperties, ElementOfSeq DEF Word, Solid
<1>2. ASSUME NEW i \in 0 .. Len(w) PROVE SubSeq(w, 1, i) \in Solid
  <2>1. 1 \in 1 .. Len(w) + 1 /\ i \in 1 - 1 .. Len(w) /\ i - 1 + 1 = i
    BY <1>1
  <2>2. /\ SubSeq(w, 1, i) \in Seq(Char)
        /\ Len(SubSeq(w, 1, i)) = i
        /\ \A k \in 1 .. i : SubSeq(w, 1, i)[k] = w[1 + k - 1]
    BY <1>1, <2>1, PartOf
  <2>3. \A k \in 1 .. i : k \in 1 .. Len(w) /\ 1 + k - 1 = k
    BY <1>1
  <2> QED
    BY <1>1, <2>2, <2>3 DEF Solid
<1>3. g \in [0 .. Len(w) -> Scans]
  BY <1>2 DEF Scans
<1>4. g[0] = Unscanned
  <2>1. SubSeq(w, 1, 0) = <<>> /\ 0 \in 0 .. Len(w)
    BY <1>1, SubSeqEmpty
  <2> QED
    BY <2>1 DEF Unscanned
<1>5. ASSUME NEW i \in 1 .. Len(w) PROVE g[i] = PutChar(g[i - 1], w[i])
  <2>1. SubSeq(w, 1, i) = Append(SubSeq(w, 1, i - 1), w[i])
    BY <1>1, PrefixStep
  <2>2. i \in 0 .. Len(w) /\ i - 1 \in 0 .. Len(w)
    BY <1>1
  <2> QED
    BY <1>1, <2>1, <2>2 DEF PutChar
<1>6. g[Len(w)] = [words |-> <<>>, word |-> w]
  BY <1>1, SubSeqFull
<1> HIDE DEF g
<1>7. Words(w) = EndWord(g[Len(w)])
  BY <1>1, <1>3, <1>4, <1>5, ScanIs DEF IsScan
<1>8. EndWord([words |-> <<>>, word |-> w]) = <<w>>
  BY <1>1 DEF EndWord
<1> QED
  BY <1>6, <1>7, <1>8

\* Words that are put before those of a split stay before the one it ends.
LEMMA EndWordBehind ==
  ASSUME NEW a \in Seq(Word), NEW x \in Scans
  PROVE  EndWord([words |-> a \o x.words, word |-> x.word]) = a \o EndWord(x)
<1>1. PICK b \in Seq(Word) : b = x.words
  BY DEF Scans
<1>2. PICK e \in Solid : e = x.word
  BY DEF Scans
<1>3. CASE e = <<>>
  BY <1>1, <1>2, <1>3 DEF EndWord
<1>4. CASE e # <<>>
  <2>1. e \in Word
    BY <1>4 DEF Word
  <2>2. Append(a \o b, e) = a \o Append(b, e)
    BY <2>1
  <2>3. EndWord(x) = Append(b, e)
    BY <1>1, <1>2, <1>4 DEF EndWord
  <2>4. EndWord([words |-> a \o x.words, word |-> x.word]) = Append(a \o b, e)
    BY <1>1, <1>2, <1>4 DEF EndWord
  <2> QED
    BY <2>2, <2>3, <2>4
<1> QED
  BY <1>3, <1>4

\* A blank divides a text: its words are those before and those behind it.
LEMMA WordsApart ==
  ASSUME NEW s \in Seq(Char), NEW t \in Seq(Char)
  PROVE  Words(s \o <<Blank>> \o t) = Words(s) \o Words(t)
<1>1. PICK gs : IsScan(gs, s) /\ Words(s) = EndWord(gs[Len(s)])
  BY ScanOf
<1>2. PICK gt : IsScan(gt, t) /\ Words(t) = EndWord(gt[Len(t)])
  BY ScanOf
<1> DEFINE u == s \o <<Blank>> \o t
           m == Len(s)
           n == Len(t)
           Behind(j) == [words |-> Words(s) \o gt[j].words, word |-> gt[j].word]
           g == [i \in 0 .. m + 1 + n |-> IF i <= m THEN gs[i] ELSE Behind(i - m - 1)]
<1>3. m \in Nat /\ n \in Nat /\ Words(s) \in Seq(Word)
  BY <1>1, LenProperties, ScanIs
<1>4. /\ u \in Seq(Char)
      /\ Len(u) = m + 1 + n
      /\ \A i \in 1 .. m : u[i] = s[i]
      /\ u[m + 1] = Blank
      /\ \A i \in 1 .. n : u[m + 1 + i] = t[i]
  <2> Blank \in Char
    BY SignsAreChars
  <2> QED
    BY <1>3
<1>5. \A i \in 0 .. m : gs[i] \in Scans
  BY <1>1 DEF IsScan
<1>6. \A j \in 0 .. n : gt[j] \in Scans /\ gt[j].words \in Seq(Word) /\ gt[j].word \in Solid
  BY <1>2 DEF IsScan, Scans
<1>7. \A j \in 0 .. n : Behind(j) \in Scans
  BY <1>3, <1>6, ConcatProperties DEF Scans
<1>8. Behind(0) = [words |-> Words(s), word |-> <<>>]
  <2>1. gt[0] = [words |-> <<>>, word |-> <<>>]
    BY <1>2 DEF IsScan, Unscanned
  <2>2. Words(s) \o <<>> = Words(s)
    BY <1>3, ConcatEmptySeq
  <2> QED
    BY <2>1, <2>2
<1>9. ASSUME NEW j \in 1 .. n PROVE Behind(j) = PutChar(Behind(j - 1), t[j])
  <2>1. gt[j] = PutChar(gt[j - 1], t[j]) /\ j - 1 \in 0 .. n
    BY <1>2, <1>3 DEF IsScan
  <2>2. gt[j - 1].words \in Seq(Word) /\ gt[j - 1].word \in Solid
    BY <1>6, <2>1
  <2>3. CASE t[j] # Blank
    <3>1. gt[j] = [words |-> gt[j - 1].words, word |-> Append(gt[j - 1].word, t[j])]
      BY <2>1, <2>3 DEF PutChar
    <3> QED
      BY <2>3, <3>1 DEF PutChar
  <2>4. CASE t[j] = Blank
    <3>1. gt[j] = [words |-> EndWord(gt[j - 1]), word |-> <<>>]
      BY <2>1, <2>4 DEF PutChar
    <3>2. EndWord(Behind(j - 1)) = Words(s) \o EndWord(gt[j - 1])
      <4>1. gt[j - 1] \in Scans
        BY <1>6, <2>1
      <4> QED
        BY <1>3, <4>1, EndWordBehind
    <3>3. Behind(j) = [words |-> Words(s) \o EndWord(gt[j - 1]), word |-> <<>>]
      BY <3>1
    <3>4. PutChar(Behind(j - 1), t[j]) = [words |-> EndWord(Behind(j - 1)), word |-> <<>>]
      BY <2>4 DEF PutChar
    <3> HIDE DEF Behind
    <3> QED
      BY <3>2, <3>3, <3>4
  <2> QED
    BY <2>3, <2>4
<1>10. EndWord(Behind(n)) = Words(s) \o Words(t)
  <2>1. gt[n] \in Scans
    BY <1>3, <1>6
  <2> QED
    BY <1>2, <1>3, <2>1, EndWordBehind
<1> HIDE DEF u, Behind
<1>11. g \in [0 .. m + 1 + n -> Scans]
  <2>1. ASSUME NEW i \in 0 .. m + 1 + n
        PROVE  (IF i <= m THEN gs[i] ELSE Behind(i - m - 1)) \in Scans
    BY <1>3, <1>5, <1>7
  <2> QED
    BY <2>1
<1>12. g[0] = Unscanned
  BY <1>1, <1>3 DEF IsScan
<1>13. ASSUME NEW i \in 1 .. m + 1 + n PROVE g[i] = PutChar(g[i - 1], u[i])
  <2>1. CASE i <= m
    <3>1. gs[i] = PutChar(gs[i - 1], s[i])
      BY <1>1, <1>3, <2>1 DEF IsScan
    <3> QED
      BY <1>3, <1>4, <2>1, <3>1
  <2>2. CASE i = m + 1
    <3>1. g[i] = Behind(0) /\ g[i - 1] = gs[m] /\ u[i] = Blank
      BY <1>3, <1>4, <2>2
    <3>2. PutChar(gs[m], Blank) = [words |-> Words(s), word |-> <<>>]
      BY <1>1 DEF PutChar
    <3> QED
      BY <1>8, <3>1, <3>2
  <2>3. CASE i > m + 1
    <3>1. i - m - 1 \in 1 .. n /\ m + 1 + (i - m - 1) = i
      BY <1>3, <2>3
    <3>2. g[i] = Behind(i - m - 1) /\ g[i - 1] = Behind(i - m - 1 - 1)
      BY <1>3, <2>3
    <3>3. u[i] = t[i - m - 1]
      BY <1>4, <3>1
    <3> QED
      BY <1>9, <3>1, <3>2, <3>3
  <2> QED
    BY <1>3, <2>1, <2>2, <2>3
<1>14. g[m + 1 + n] = Behind(n)
  BY <1>3
<1> HIDE DEF g
<1>15. IsScan(g, u)
  BY <1>4, <1>11, <1>12, <1>13 DEF IsScan
<1>16. Words(u) = EndWord(g[Len(u)])
  BY <1>4, <1>15, ScanIs
<1> QED
  BY <1>4, <1>10, <1>14, <1>16 DEF u

\* A blank at the end changes nothing.
LEMMA WordsBeforeBlank ==
  ASSUME NEW s \in Seq(Char)
  PROVE  Words(Append(s, Blank)) = Words(s)
<1>1. <<>> \in Seq(Char) /\ <<Blank>> \in Seq(Char) /\ Blank \in Char
  <2> Blank \in Char
    BY SignsAreChars
  <2> QED
    OBVIOUS
<1>2. Append(s, Blank) = s \o <<Blank>> \o <<>>
  <2>1. s \o <<Blank>> \in Seq(Char) /\ Append(s, Blank) = s \o <<Blank>>
    BY <1>1, AppendIsConcat, ConcatProperties
  <2> QED
    BY <2>1, ConcatEmptySeq
<1>3. PICK ws \in Seq(Word) : ws = Words(s)
  BY ScanOf, ScanIs
<1>4. Words(s \o <<Blank>> \o <<>>) = Words(s) \o Words(<<>>)
  BY <1>1, WordsApart
<1>5. ws \o <<>> = ws
  BY ConcatEmptySeq
<1> QED
  BY <1>2, <1>3, <1>4, <1>5, WordsOfNothing, Zenon

-----------------------------------------------------------------------------
(***************************************************************************)
(* The parser                                                              *)
(***************************************************************************)
Commands ==
  [name : Solid, args : Seq(Word), background : BOOLEAN, auto_complete : BOOLEAN,
   redirect_files : [0 .. 2 -> Word \cup {None}], redirect_idxs : Seq(0 .. 2),
   next : BOOLEAN]
Parses == [cmd : Commands, named : BOOLEAN, pending : -1 .. 2, piped : BOOLEAN]

\* The kinds of a redirection, and that of a word that is none.
LEMMA RedirectionType ==
  ASSUME NEW w
  PROVE  Redirection(w) \in -1 .. 2
<1>1. CASE w[1] = "<"
  <2>1. Redirection(w) = 0
    BY <1>1, Zenon DEF Redirection
  <2> QED
    BY <2>1
<1>2. CASE w[1] # "<" /\ w[1] = ">"
  <2>1. Redirection(w) = IF Len(w) > 1 /\ w[2] = ">" THEN 2 ELSE 1
    BY <1>2, Zenon DEF Redirection
  <2> QED
    BY <2>1
<1>3. CASE w[1] # "<" /\ w[1] # ">"
  <2>1. Redirection(w) = -1
    BY <1>3, Zenon DEF Redirection
  <2> QED
    BY <2>1
<1> QED
  BY <1>1, <1>2, <1>3

\* A | is no redirection.
LEMMA PipeIsNoSign == Redirection(<<"|">>) = -1
<1>1. <<"|">>[1] # "<" /\ <<"|">>[1] # ">"
  OBVIOUS
<1> QED
  BY <1>1, Zenon DEF Redirection

\* Unquote takes the quotes off a word and leaves one.
LEMMA UnquoteType ==
  ASSUME NEW w \in Word
  PROVE  Unquote(w) \in Word
<1>1. w \in Seq(Char) /\ w # <<>> /\ Len(w) \in Nat /\ \A i \in 1 .. Len(w) : w[i] # Blank
  BY LenProperties DEF Word, Solid
<1>2. ASSUME Len(w) > 2 PROVE SubSeq(w, 2, Len(w) - 1) \in Word
  <2>1. 2 \in 1 .. Len(w) + 1 /\ Len(w) - 1 \in 2 - 1 .. Len(w)
    BY <1>1, <1>2
  <2> DEFINE v == SubSeq(w, 2, Len(w) - 1)
  <2>2. /\ v \in Seq(Char)
        /\ Len(v) = Len(w) - 1 - 2 + 1
        /\ \A i \in 1 .. Len(w) - 1 - 2 + 1 : v[i] = w[2 + i - 1]
    BY <1>1, <2>1, PartOf
  <2> HIDE DEF v
  <2>3. v # <<>>
    BY <1>1, <1>2, <2>2
  <2>4. ASSUME NEW i \in 1 .. Len(v) PROVE v[i] # Blank
    <3>1. 2 + i - 1 \in 1 .. Len(w) /\ i \in 1 .. Len(w) - 1 - 2 + 1
      BY <1>1, <1>2, <2>2
    <3> QED
      BY <1>1, <2>2, <3>1
  <2>5. v \in Word
    BY <2>2, <2>3, <2>4 DEF Word, Solid
  <2> QED
    BY <2>5 DEF v
<1> QED
  BY <1>2 DEF Unquote

\* The parse starts with an empty command.
LEMMA UnreadType == Unread \in Parses
<1>1. Unparsed \in Commands
  <2>1. <<>> \in Solid /\ <<>> \in Seq(Word) /\ <<>> \in Seq(0 .. 2)
    BY DEF Solid
  <2>2. [k \in 0 .. 2 |-> None] \in [0 .. 2 -> Word \cup {None}]
    OBVIOUS
  <2> QED
    BY <2>1, <2>2 DEF Commands, Unparsed
<1> QED
  BY <1>1 DEF Parses, Unread

\* What one word does, case by case (lines 371-483).
LEMMA WordIsName ==
  ASSUME NEW s \in Parses, NEW w \in Word, ~s.named
  PROVE  ParseWord(s, w) =
           [cmd |-> IF s.piped THEN s.cmd ELSE [s.cmd EXCEPT !.name = w],
            named |-> TRUE, pending |-> s.pending, piped |-> s.piped]
<1>1. ParseWord(s, w) =
        [s EXCEPT !.named = TRUE,
                  !.cmd = IF s.piped THEN s.cmd ELSE [s.cmd EXCEPT !.name = w]]
  BY Zenon DEF ParseWord
<1> QED
  BY <1>1 DEF Parses

\* The word behind a sign of redirection is its file (lines 404-450).
LEMMA WordIsFile ==
  ASSUME NEW s \in Parses, NEW w \in Word, s.named, s.pending # -1
  PROVE  ParseWord(s, w) =
           [cmd |-> IF s.piped THEN s.cmd
                    ELSE [s.cmd EXCEPT !.redirect_files[s.pending] = w],
            named |-> TRUE, pending |-> -1, piped |-> s.piped]
<1>1. ParseWord(s, w) =
        [s EXCEPT !.pending = -1,
                  !.cmd = IF s.piped THEN s.cmd
                          ELSE [s.cmd EXCEPT !.redirect_files[s.pending] = w]]
  BY Zenon DEF ParseWord
<1>2. s.named = TRUE
  BY DEF Parses
<1> QED
  BY <1>1, <1>2 DEF Parses

\* A | that no sign takes begins the commands that are never run.
LEMMA WordIsPipe ==
  ASSUME NEW s \in Parses, NEW w \in Word, s.named, s.pending = -1, w = <<"|">>
  PROVE  ParseWord(s, w) =
           [cmd |-> [s.cmd EXCEPT !.next = TRUE],
            named |-> FALSE, pending |-> -1, piped |-> TRUE]
<1>1. ParseWord(s, w) = [s EXCEPT !.piped = TRUE, !.named = FALSE, !.cmd.next = TRUE]
  BY PipeIsNoSign, Zenon DEF ParseWord
<1> QED
  BY <1>1 DEF Parses

\* A sign of redirection waits for its file.
LEMMA WordIsSign ==
  ASSUME NEW s \in Parses, NEW w \in Word, s.named, s.pending = -1,
         Redirection(w) # -1
  PROVE  ParseWord(s, w) =
           [cmd |-> IF s.piped THEN s.cmd
                    ELSE [s.cmd EXCEPT !.redirect_idxs = Append(@, Redirection(w))],
            named |-> TRUE, pending |-> Redirection(w), piped |-> s.piped]
<1>1. w # <<"|">>
  BY PipeIsNoSign
<1>2. ParseWord(s, w) =
        [s EXCEPT !.pending = Redirection(w),
                  !.cmd = IF s.piped THEN s.cmd
                          ELSE [s.cmd EXCEPT !.redirect_idxs = Append(@, Redirection(w))]]
  BY <1>1, Zenon DEF ParseWord
<1>3. s.named = TRUE
  BY DEF Parses
<1> QED
  BY <1>2, <1>3 DEF Parses

\* Any other word is an argument, without its quotes.
LEMMA WordIsArgument ==
  ASSUME NEW s \in Parses, NEW w \in Word, s.named, s.pending = -1,
         Redirection(w) = -1, w # <<"|">>, w # <<"&">>
  PROVE  ParseWord(s, w) =
           [cmd |-> IF s.piped THEN s.cmd
                    ELSE [s.cmd EXCEPT !.args = Append(@, Unquote(w))],
            named |-> TRUE, pending |-> -1, piped |-> s.piped]
<1>1. ParseWord(s, w) =
        [s EXCEPT !.cmd = IF s.piped THEN s.cmd
                          ELSE [s.cmd EXCEPT !.args = Append(@, Unquote(w))]]
  BY Zenon DEF ParseWord
<1>2. s.named = TRUE
  BY DEF Parses
<1> QED
  BY <1>1, <1>2 DEF Parses

\* An & alone is dropped.
LEMMA WordIsDropped ==
  ASSUME NEW s \in Parses, NEW w \in Word, s.named, s.pending = -1, w = <<"&">>
  PROVE  ParseWord(s, w) = s
<1>1. w # <<"|">>
  OBVIOUS
<1>2. <<"&">>[1] # "<" /\ <<"&">>[1] # ">"
  OBVIOUS
<1>3. Redirection(w) = -1
  BY <1>2, Zenon DEF Redirection
<1> QED
  BY <1>1, <1>3, Zenon DEF ParseWord

\* A word takes the parser from a state to a state.
LEMMA ParseType ==
  ASSUME NEW s \in Parses, NEW w \in Word
  PROVE  ParseWord(s, w) \in Parses
<1>1. /\ s.cmd \in Commands /\ s.named \in BOOLEAN
      /\ s.pending \in -1 .. 2 /\ s.piped \in BOOLEAN
  BY DEF Parses
<1>2. CASE ~s.named
  <2>1. [s.cmd EXCEPT !.name = w] \in Commands
    BY <1>1 DEF Commands, Word
  <2>2. ParseWord(s, w) =
          [cmd |-> IF s.piped THEN s.cmd ELSE [s.cmd EXCEPT !.name = w],
           named |-> TRUE, pending |-> s.pending, piped |-> s.piped]
    BY <1>2, WordIsName
  <2> QED
    BY <1>1, <2>1, <2>2 DEF Parses
<1>3. CASE s.named /\ s.pending # -1
  <2>1. s.pending \in 0 .. 2
    BY <1>1, <1>3
  <2>2. [s.cmd EXCEPT !.redirect_files[s.pending] = w] \in Commands
    BY <1>1, <2>1 DEF Commands
  <2>3. ParseWord(s, w) =
          [cmd |-> IF s.piped THEN s.cmd
                   ELSE [s.cmd EXCEPT !.redirect_files[s.pending] = w],
           named |-> TRUE, pending |-> -1, piped |-> s.piped]
    BY <1>3, WordIsFile
  <2> QED
    BY <1>1, <2>2, <2>3 DEF Parses
<1>4. CASE s.named /\ s.pending = -1 /\ w = <<"|">>
  <2>1. [s.cmd EXCEPT !.next = TRUE] \in Commands
    BY <1>1 DEF Commands
  <2>2. ParseWord(s, w) = [cmd |-> [s.cmd EXCEPT !.next = TRUE],
                           named |-> FALSE, pending |-> -1, piped |-> TRUE]
    BY <1>4, WordIsPipe
  <2> QED
    BY <2>1, <2>2 DEF Parses
<1>5. CASE s.named /\ s.pending = -1 /\ Redirection(w) # -1
  <2>1. Redirection(w) \in -1 .. 2 /\ Redirection(w) \in 0 .. 2
    BY <1>5, RedirectionType
  <2>2. Append(s.cmd.redirect_idxs, Redirection(w)) \in Seq(0 .. 2)
    BY <1>1, <2>1, AppendProperties DEF Commands
  <2>3. [s.cmd EXCEPT !.redirect_idxs = Append(@, Redirection(w))] \in Commands
    BY <1>1, <2>2 DEF Commands
  <2>4. ParseWord(s, w) =
          [cmd |-> IF s.piped THEN s.cmd
                   ELSE [s.cmd EXCEPT !.redirect_idxs = Append(@, Redirection(w))],
           named |-> TRUE, pending |-> Redirection(w), piped |-> s.piped]
    BY <1>5, WordIsSign
  <2> QED
    BY <1>1, <2>1, <2>3, <2>4 DEF Parses
<1>6. CASE s.named /\ s.pending = -1 /\ w = <<"&">>
  BY <1>6, WordIsDropped
<1>7. CASE /\ s.named /\ s.pending = -1 /\ Redirection(w) = -1
           /\ w # <<"|">> /\ w # <<"&">>
  <2>1. Append(s.cmd.args, Unquote(w)) \in Seq(Word)
    BY <1>1, UnquoteType, AppendProperties DEF Commands
  <2>2. [s.cmd EXCEPT !.args = Append(@, Unquote(w))] \in Commands
    BY <1>1, <2>1 DEF Commands
  <2>3. ParseWord(s, w) =
          [cmd |-> IF s.piped THEN s.cmd
                   ELSE [s.cmd EXCEPT !.args = Append(@, Unquote(w))],
           named |-> TRUE, pending |-> -1, piped |-> s.piped]
    BY <1>7, WordIsArgument
  <2> QED
    BY <1>1, <2>2, <2>3 DEF Parses
<1> QED
  BY <1>2, <1>3, <1>4, <1>5, <1>6, <1>7

\* g[i] is the state of the parser behind i words.
IsParse(g, ws) ==
  /\ g \in [0 .. Len(ws) -> Parses]
  /\ g[0] = Unread
  /\ \A i \in 1 .. Len(ws) : g[i] = ParseWord(g[i - 1], ws[i])

\* The fold of ParseCommand runs through these states.
LEMMA ParseOf ==
  ASSUME NEW ws \in Seq(Word)
  PROVE  \E g : IsParse(g, ws) /\ FoldLeft(ParseWord, Unread, ws) = g[Len(ws)]
<1> DEFINE n == Len(ws)
           f == [i \in 1 .. n |-> [x \in Parses |-> ParseWord(x, ws[i])]]
           iter == CHOOSE h : h = [S \in SUBSET (DOMAIN ws) |->
                     IF S = {} THEN Unread
                     ELSE ParseWord(h[S \ {Max(S)}], ws[Max(S)])]
           g == [i \in 0 .. n |-> iter[1 .. i]]
<1>1. n \in Nat /\ DOMAIN ws = 1 .. n /\ \A i \in 1 .. n : ws[i] \in Word
  BY LenProperties, ElementOfSeq
<1>2. f \in [1 .. n -> [Parses -> Parses]]
  BY <1>1, UnreadType, ParseType
<1>3. \E h : h = [S \in SUBSET (DOMAIN ws) |->
                    IF S = {} THEN Unread
                    ELSE ParseWord(h[S \ {Max(S)}], ws[Max(S)])]
  <2>1. PICK h \in [SUBSET (1 .. n) -> Parses] : FoldsBy(h, Unread, f, n)
    <3>1. Unread \in Parses
      BY UnreadType, ParseType
    <3> HIDE DEF f, n
    <3> QED
      BY ONLY <1>1, <1>2, <3>1, FoldExists
  <2>2. ASSUME NEW S \in SUBSET (1 .. n), S # {}
        PROVE  f[Max(S)][h[S \ {Max(S)}]] = ParseWord(h[S \ {Max(S)}], ws[Max(S)])
    <3>1. Max(S) \in 1 .. n /\ h[S \ {Max(S)}] \in Parses
      BY <1>1, <2>2, MaxOfSubset
    <3> QED
      BY <3>1
  <2> HIDE DEF f
  <2>3. h = [S \in SUBSET (1 .. n) |->
               IF S = {} THEN Unread ELSE ParseWord(h[S \ {Max(S)}], ws[Max(S)])]
    BY <2>1, <2>2 DEF FoldsBy
  <2> QED
    BY <1>1, <2>3
<1>4. iter = [S \in SUBSET (DOMAIN ws) |->
                IF S = {} THEN Unread
                ELSE ParseWord(iter[S \ {Max(S)}], ws[Max(S)])]
  BY <1>3
<1>5. FoldLeft(ParseWord, Unread, ws) = iter[DOMAIN ws]
  BY DEF FoldLeft, MapThenFoldSet
<1> HIDE DEF iter, f
<1>6. g[0] = Unread
  <2>1. 1 .. 0 = {} /\ 0 \in 0 .. n
    BY <1>1
  <2> QED
    BY <1>1, <1>4, <2>1
<1>7. ASSUME NEW i \in 1 .. n PROVE g[i] = ParseWord(g[i - 1], ws[i])
  <2>1. 1 .. i # {} /\ Max(1 .. i) = i /\ (1 .. i) \ {i} = 1 .. i - 1
    <3>1. i \in Nat /\ i > 0
      BY <1>1
    <3> QED
      BY ONLY <3>1, MaxOfPrefix
  <2>2. 1 .. i \in SUBSET (DOMAIN ws) /\ i \in 0 .. n /\ i - 1 \in 0 .. n
    BY <1>1
  <2> QED
    BY <1>4, <2>1, <2>2
<1>8. g[n] = FoldLeft(ParseWord, Unread, ws)
  BY <1>1, <1>5
<1> DEFINE T == {i \in 0 .. n : g[i] \in Parses}
<1>9. \A i \in 0 .. n : i \in T
  <2>1. 0 \in T
    BY <1>1, <1>6, UnreadType, ParseType
  <2>2. ASSUME NEW i \in 1 .. n, i - 1 \in T PROVE i \in T
    <3>1. g[i - 1] \in Parses /\ ws[i] \in Word /\ i \in 0 .. n
      BY <1>1, <2>2
    <3> HIDE DEF g
    <3>2. g[i] \in Parses
      BY <1>7, <3>1, UnreadType, ParseType
    <3> QED
      BY <3>1, <3>2
  <2> HIDE DEF T
  <2> QED
    BY <1>1, <2>1, <2>2, Steps
<1>10. g \in [0 .. n -> Parses]
  BY <1>9
<1> HIDE DEF g
<1> QED
  BY <1>6, <1>7, <1>8, <1>10 DEF IsParse

\* The row of signs that a sign ends has a first one.
LEMMA SignsFromIs ==
  ASSUME NEW ws \in Seq(Word), NEW i, IsSign(ws, i)
  PROVE  /\ SignsFrom(ws, i) \in 2 .. i
         /\ \A j \in SignsFrom(ws, i) .. i : IsSign(ws, j)
         /\ ~IsSign(ws, SignsFrom(ws, i) - 1)
<1>1. i \in 2 .. Len(ws) /\ Len(ws) \in Nat
  BY LenProperties DEF IsSign
<1> DEFINE R == {k \in 2 .. i : \A j \in k .. i : IsSign(ws, j)}
<1>2. i \in R
  <2>1. \A j \in i .. i : j = i
    BY <1>1
  <2> QED
    BY <1>1, <2>1
<1>3. R \subseteq Nat /\ R \subseteq 2 .. i
  BY <1>1
<1>4. Min(R) \in R /\ \A y \in R : Min(R) <= y
  <2> HIDE DEF R
  <2> QED
    BY <1>2, <1>3, MinOfNats
<1> DEFINE k == Min(R)
<1>5. k \in 2 .. i /\ \A j \in k .. i : IsSign(ws, j)
  BY <1>4
<1>6. k - 1 \notin R
  <2> HIDE DEF R
  <2>1. Min(R) \in Nat
    BY <1>3, <1>4
  <2>2. ~(Min(R) <= Min(R) - 1)
    BY <2>1
  <2> QED
    BY <1>4, <2>2
<1> HIDE DEF k
<1>7. ~IsSign(ws, k - 1)
  <2> SUFFICES ASSUME IsSign(ws, k - 1) PROVE FALSE
    OBVIOUS
  <2>1. k - 1 \in 2 .. i
    BY <1>1, <1>5 DEF IsSign
  <2>2. \A j \in k - 1 .. i : j = k - 1 \/ j \in k .. i
    BY <1>1, <1>5
  <2> QED
    BY <1>5, <1>6, <2>1, <2>2
<1> QED
  BY <1>5, <1>7 DEF SignsFrom

\* A sign takes the word behind it unless the word before takes the sign; the
\* name takes nothing.
LEMMA TakesStep ==
  ASSUME NEW ws \in Seq(Word), NEW i \in Int
  PROVE  Takes(ws, i) <=> IsSign(ws, i) /\ ~Takes(ws, i - 1)
<1> SUFFICES ASSUME IsSign(ws, i)
             PROVE  Takes(ws, i) <=> ~Takes(ws, i - 1)
  BY DEF Takes
<1> DEFINE k == SignsFrom(ws, i)
<1>1. k \in 2 .. i /\ (\A j \in k .. i : IsSign(ws, j)) /\ ~IsSign(ws, k - 1)
  BY SignsFromIs
<1>2. Takes(ws, i) <=> (i - k) % 2 = 0
  BY DEF Takes
<1> HIDE DEF k
<1>3. CASE ~IsSign(ws, i - 1)
  <2>1. ~(k <= i - 1)
    BY <1>1, <1>3
  <2>2. i - k = 0
    BY <1>1, <2>1
  <2> QED
    BY <1>2, <1>3, <2>2 DEF Takes
<1>4. CASE IsSign(ws, i - 1)
  <2> DEFINE m == SignsFrom(ws, i - 1)
  <2>1. /\ m \in 2 .. i - 1 /\ (\A j \in m .. i - 1 : IsSign(ws, j))
        /\ ~IsSign(ws, m - 1)
    BY <1>4, SignsFromIs
  <2>2. Takes(ws, i - 1) <=> (i - 1 - m) % 2 = 0
    BY <1>4 DEF Takes
  <2> HIDE DEF m
  <2>3. ~(k < m)
    <3> SUFFICES ASSUME k < m PROVE FALSE
      OBVIOUS
    <3>1. m - 1 \in k .. i
      BY <1>1, <2>1
    <3> QED
      BY <1>1, <2>1, <3>1
  <2>4. ~(m < k)
    <3> SUFFICES ASSUME m < k PROVE FALSE
      OBVIOUS
    <3>1. k - 1 \in m .. i - 1
      BY <1>1, <2>1
    <3> QED
      BY <1>1, <2>1, <3>1
  <2>5. m = k
    BY <1>1, <2>1, <2>3, <2>4
  <2>6. PICK d \in Nat : d = i - 1 - k
    BY <1>1, <2>1, <2>5
  <2>7. i - k = d + 1 /\ i - 1 - m = d
    BY <1>1, <2>5, <2>6
  <2>8. (d + 1) % 2 = 0 <=> ~(d % 2 = 0)
    OBVIOUS
  <2> QED
    BY <1>2, <2>2, <2>7, <2>8
<1> QED
  BY <1>3, <1>4

\* The name of the command takes no word, and neither does a place that is none.
LEMMA NameTakesNothing ==
  ASSUME NEW ws
  PROVE  ~Takes(ws, 1) /\ ~Takes(ws, 0)
BY DEF Takes, IsSign

\* The places of a set up to one.
UpTo(S, i) == {j \in S : j <= i}

\* A set of places is counted from none of them to all of them.
LEMMA CountNothing ==
  ASSUME NEW n \in Nat, NEW S \in SUBSET (1 .. n)
  PROVE  /\ UpTo(S, 0) = {} /\ Cardinality(UpTo(S, 0)) = 0
         /\ UpTo(S, n) = S
<1>1. \A j \in S : ~(j <= 0) /\ j <= n
  OBVIOUS
<1>2. UpTo(S, 0) = {} /\ UpTo(S, n) = S
  BY <1>1, Zenon DEF UpTo
<1> QED
  BY <1>2, FS_EmptySet

\* One more place counts for one if it is in the set and for nothing if not.
LEMMA CountStep ==
  ASSUME NEW n \in Nat, NEW S \in SUBSET (1 .. n), NEW i \in 1 .. n
  PROVE  /\ Cardinality(UpTo(S, i - 1)) \in Nat
         /\ i \in S => Cardinality(UpTo(S, i)) = Cardinality(UpTo(S, i - 1)) + 1
         /\ i \notin S => UpTo(S, i) = UpTo(S, i - 1)
         /\ Before(S, i) = UpTo(S, i - 1)
<1>1. \A j \in S : /\ (j < i <=> j <= i - 1)
                   /\ (j <= i <=> j <= i - 1 \/ j = i)
  OBVIOUS
<1>2. Before(S, i) = UpTo(S, i - 1)
  BY <1>1, Zenon DEF Before, UpTo
<1>3. i \notin S => UpTo(S, i) = UpTo(S, i - 1)
  BY <1>1, Zenon DEF UpTo
<1>4. PICK x : x = i
  OBVIOUS
<1>5. ASSUME i \in S PROVE UpTo(S, i) = UpTo(S, i - 1) \cup {x}
  <2>1. \A y : y \in UpTo(S, i) <=> y \in UpTo(S, i - 1) \/ y = x
    BY <1>1, <1>4, <1>5, Zenon DEF UpTo
  <2>2. UpTo(S, i) \subseteq UpTo(S, i - 1) \cup {x}
    BY <2>1
  <2>3. UpTo(S, i - 1) \cup {x} \subseteq UpTo(S, i)
    BY <2>1
  <2> QED
    BY <2>2, <2>3
<1>6. x \notin UpTo(S, i - 1) /\ UpTo(S, i - 1) \in SUBSET (1 .. n)
  <2>1. ~(x <= i - 1)
    BY <1>4
  <2>2. x \notin UpTo(S, i - 1)
    BY <2>1, Zenon DEF UpTo
  <2>3. UpTo(S, i - 1) \subseteq S
    BY Zenon DEF UpTo
  <2> QED
    BY <2>2, <2>3
<1>7. IsFiniteSet(1 .. n)
  BY FS_Interval
<1>8. IsFiniteSet(UpTo(S, i - 1))
  BY <1>6, <1>7, FS_Subset
<1>9. Cardinality(UpTo(S, i - 1)) \in Nat
  BY <1>8, FS_CardinalityType
<1>10. Cardinality(UpTo(S, i - 1) \cup {x}) = Cardinality(UpTo(S, i - 1)) + 1
  BY <1>6, <1>8, FS_AddElement
<1> QED
  BY <1>2, <1>3, <1>5, <1>9, <1>10

\* Of a set of n numbers each of the first n ranks is that of one.
LEMMA NthIs ==
  ASSUME NEW m \in Nat, NEW S \in SUBSET (1 .. m)
  PROVE  /\ Cardinality(S) \in Nat
         /\ \A n \in 1 .. Cardinality(S) :
              /\ Nth(S, n) \in S
              /\ Cardinality(Before(S, Nth(S, n))) = n - 1
<1> DEFINE C(i) == Cardinality(UpTo(S, i))
           P(i) == /\ C(i) \in Nat
                   /\ \A n \in 1 .. C(i) :
                        \E x \in S : Cardinality(Before(S, x)) = n - 1
           T == {i \in 0 .. m : P(i)}
<1>1. C(0) = 0
  BY CountNothing
<1>2. 0 \in T
  <2>1. C(0) \in Nat /\ 1 .. C(0) = {}
    BY <1>1
  <2> HIDE DEF C
  <2> QED
    BY <2>1
<1>3. ASSUME NEW i \in 1 .. m, P(i - 1) PROVE P(i)
  <2>1. /\ C(i - 1) \in Nat
        /\ i \in S => C(i) = C(i - 1) + 1
        /\ i \notin S => C(i) = C(i - 1)
    BY CountStep
  <2>2. Cardinality(Before(S, i)) = C(i - 1)
    BY CountStep
  <2> HIDE DEF C
  <2>3. CASE i \notin S
    BY <1>3, <2>1, <2>3
  <2>4. CASE i \in S
    <3>1. C(i) = C(i - 1) + 1
      BY <2>1, <2>4
    <3>2. ASSUME NEW n \in 1 .. C(i)
          PROVE  \E x \in S : Cardinality(Before(S, x)) = n - 1
      <4>1. CASE n \in 1 .. C(i - 1)
        BY <1>3, <4>1
      <4>2. CASE n = C(i - 1) + 1
        <5>1. n - 1 = C(i - 1)
          BY <2>1, <4>2
        <5>2. Cardinality(Before(S, i)) = n - 1
          BY <2>2, <5>1
        <5> QED
          BY <2>4, <5>2
      <4> QED
        BY <2>1, <3>1, <4>1, <4>2
    <3> QED
      BY <2>1, <3>1, <3>2
  <2> QED
    BY <2>3, <2>4
<1> HIDE DEF P
<1>4. \A i \in 1 .. m : i - 1 \in T => i \in T
  BY <1>3
<1> HIDE DEF T
<1>5. m \in T
  BY <1>2, <1>4, Steps
<1>6. P(m)
  BY <1>5 DEF T
<1>7. UpTo(S, m) = S
  BY CountNothing
<1>8. /\ Cardinality(S) \in Nat
      /\ \A n \in 1 .. Cardinality(S) :
           \E x \in S : Cardinality(Before(S, x)) = n - 1
  BY <1>6, <1>7 DEF P
<1>9. ASSUME NEW n \in 1 .. Cardinality(S)
      PROVE  Nth(S, n) \in S /\ Cardinality(Before(S, Nth(S, n))) = n - 1
  <2>1. \E x \in S : Cardinality(Before(S, x)) = n - 1
    BY <1>8
  <2> QED
    BY <2>1, Zenon DEF Nth
<1> QED
  BY <1>8, <1>9

\* Whether a | has ended the command, and the signs of the command.
Piped(ws, i) == \E j \in 2 .. i : IsPipe(ws, j)
Signs(ws) == {i \in Body(ws) : Takes(ws, i)}

\* What a command has of the first i words: the arguments, the number of signs,
\* and of every kind the file behind the last sign.
ArgsRead(ws, i, cmd) ==
  /\ Len(cmd.args) = Cardinality(UpTo(Plain(ws), i))
  /\ \A j \in UpTo(Plain(ws), i) :
       cmd.args[Cardinality(Before(Plain(ws), j)) + 1] = Unquote(ws[j])

SignsRead(ws, i, cmd) == Len(cmd.redirect_idxs) = Cardinality(UpTo(Signs(ws), i))

FileRead(ws, i, cmd, k) ==
  \/ /\ \A j \in SignsOf(ws, k) : ~(j < i)
     /\ cmd.redirect_files[k] = None
  \/ \E j \in SignsOf(ws, k) :
       /\ j < i
       /\ \A m \in SignsOf(ws, k) : m < i => m <= j
       /\ cmd.redirect_files[k] = ws[j + 1]

\* The state of the parser behind i words.
HasRead(ws, i, s) ==
  /\ IF i = 0 THEN s = Unread ELSE s.cmd.name = ws[1]
  /\ s.piped <=> Piped(ws, i)
  /\ s.cmd.next <=> Piped(ws, i)
  /\ i > 0 /\ ~Piped(ws, i) =>
       /\ s.named
       /\ s.pending = IF Takes(ws, i) THEN Redirection(ws[i]) ELSE -1
  /\ ArgsRead(ws, i, s.cmd)
  /\ SignsRead(ws, i, s.cmd)
  /\ \A k \in 0 .. 2 : FileRead(ws, i, s.cmd, k)

\* The places of a command lie before its end.
LEMMA PlacesOf ==
  ASSUME NEW ws \in Seq(Word)
  PROVE  /\ Len(ws) \in Nat
         /\ \A i \in 1 .. Len(ws) : ws[i] \in Word
         /\ Plain(ws) \in SUBSET (1 .. Len(ws))
         /\ Signs(ws) \in SUBSET (1 .. Len(ws))
         /\ \A k \in 0 .. 2 : SignsOf(ws, k) \in SUBSET (2 .. Len(ws))
<1>1. Len(ws) \in Nat /\ \A i \in 1 .. Len(ws) : ws[i] \in Word
  BY LenProperties, ElementOfSeq
<1>2. Body(ws) \subseteq 2 .. Len(ws)
  BY Zenon DEF Body
<1>3. Plain(ws) \subseteq Body(ws) /\ Signs(ws) \subseteq Body(ws)
  BY Zenon DEF Plain, Signs
<1>4. \A k \in 0 .. 2 : SignsOf(ws, k) \subseteq Body(ws)
  BY Zenon DEF SignsOf
<1>5. 2 .. Len(ws) \subseteq 1 .. Len(ws)
  BY <1>1
<1> QED
  BY <1>1, <1>2, <1>3, <1>4, <1>5

\* The words up to a place belong to the command if no | ends it before.
LEMMA BodyIs ==
  ASSUME NEW ws \in Seq(Word), NEW i \in 1 .. Len(ws)
  PROVE  /\ i \in Body(ws) <=> i # 1 /\ ~Piped(ws, i)
         /\ Piped(ws, i) <=> Piped(ws, i - 1) \/ IsPipe(ws, i)
<1>1. Len(ws) \in Nat
  BY LenProperties
<1>2. i \in 2 .. Len(ws) <=> i # 1
  BY <1>1
<1>3. i \in Body(ws) <=> i # 1 /\ ~Piped(ws, i)
  BY <1>2, Zenon DEF Body, Piped
<1>4. \A j : j \in 2 .. i <=> j \in 2 .. i - 1 \/ (j = i /\ i # 1)
  BY <1>1
<1>5. IsPipe(ws, i) => i # 1
  BY <1>1 DEF IsPipe
<1>6. ASSUME Piped(ws, i) PROVE Piped(ws, i - 1) \/ IsPipe(ws, i)
  <2>1. PICK j \in 2 .. i : IsPipe(ws, j)
    BY <1>6, Zenon DEF Piped
  <2>2. j \in 2 .. i - 1 \/ j = i
    BY <1>4
  <2> QED
    BY <2>1, <2>2, Zenon DEF Piped
<1>7. Piped(ws, i - 1) => Piped(ws, i)
  BY <1>4, Zenon DEF Piped
<1>8. IsPipe(ws, i) => Piped(ws, i)
  <2>1. IsPipe(ws, i) => i \in 2 .. i
    BY <1>1, <1>5
  <2> QED
    BY <2>1, Zenon DEF Piped
<1> QED
  BY <1>3, <1>6, <1>7, <1>8

\* A word that is no argument leaves the arguments alone.
LEMMA ArgsSame ==
  ASSUME NEW ws \in Seq(Word), NEW i \in 1 .. Len(ws), NEW c, NEW d,
         ArgsRead(ws, i - 1, c), d.args = c.args, i \notin Plain(ws)
  PROVE  ArgsRead(ws, i, d)
<1>1. UpTo(Plain(ws), i) = UpTo(Plain(ws), i - 1)
  BY PlacesOf, CountStep
<1> QED
  BY <1>1 DEF ArgsRead

\* One that is an argument becomes the last.
LEMMA ArgsGrow ==
  ASSUME NEW ws \in Seq(Word), NEW i \in 1 .. Len(ws), NEW c, NEW d,
         c.args \in Seq(Word), ArgsRead(ws, i - 1, c),
         d.args = Append(c.args, Unquote(ws[i])), i \in Plain(ws)
  PROVE  ArgsRead(ws, i, d)
<1> DEFINE P == Plain(ws)
           n == Cardinality(UpTo(P, i - 1))
           Rank(j) == Cardinality(Before(P, j))
<1>1. /\ Len(ws) \in Nat /\ P \in SUBSET (1 .. Len(ws)) /\ Unquote(ws[i]) \in Word
  BY PlacesOf, UnquoteType
<1>2. /\ n \in Nat
      /\ Cardinality(UpTo(P, i)) = n + 1
      /\ Before(P, i) = UpTo(P, i - 1)
  BY <1>1, CountStep
<1>3. Rank(i) = n
  BY <1>2
<1>4. /\ Len(c.args) = n
      /\ \A j \in UpTo(P, i - 1) : c.args[Rank(j) + 1] = Unquote(ws[j])
  BY DEF ArgsRead
<1> HIDE DEF n
<1>5. /\ Len(d.args) = n + 1
      /\ \A r \in 1 .. n : d.args[r] = c.args[r]
      /\ d.args[n + 1] = Unquote(ws[i])
  BY <1>1, <1>4, AppendProperties
<1>6. ASSUME NEW j \in UpTo(P, i) PROVE d.args[Rank(j) + 1] = Unquote(ws[j])
  <2>1. CASE j = i
    BY <1>3, <1>5, <2>1
  <2>2. CASE j # i
    <3>1. j \in P /\ j <= i
      BY Zenon DEF UpTo
    <3>2. j \in 1 .. i - 1 /\ j \in 1 .. Len(ws)
      BY <1>1, <2>2, <3>1
    <3>3. j \in UpTo(P, i - 1)
      BY <3>1, <3>2 DEF UpTo
    <3>4. Rank(j) + 1 \in 1 .. n
      <4>1. /\ Cardinality(UpTo(P, j - 1)) \in Nat
            /\ Cardinality(UpTo(P, j)) = Cardinality(UpTo(P, j - 1)) + 1
            /\ Before(P, j) = UpTo(P, j - 1)
        BY <1>1, <3>1, <3>2, CountStep
      <4>2. UpTo(P, j) \in SUBSET UpTo(P, i - 1)
        <5>1. \A m \in P : m <= j => m <= i - 1
          BY <1>1, <3>2
        <5> QED
          BY <5>1, Zenon DEF UpTo
      <4>3. IsFiniteSet(UpTo(P, i - 1))
        <5>1. UpTo(P, i - 1) \subseteq P
          BY Zenon DEF UpTo
        <5>2. UpTo(P, i - 1) \in SUBSET (1 .. Len(ws))
          BY <1>1, <5>1
        <5>3. IsFiniteSet(1 .. Len(ws))
          BY <1>1, FS_Interval
        <5> QED
          BY <5>2, <5>3, FS_Subset
      <4>4. Cardinality(UpTo(P, j)) <= n
        BY <4>2, <4>3, FS_Subset DEF n
      <4>5. Rank(j) = Cardinality(UpTo(P, j - 1))
        BY <4>1
      <4> HIDE DEF Rank
      <4> QED
        BY <1>2, <4>1, <4>4, <4>5
    <3> HIDE DEF Rank
    <3> QED
      BY <1>4, <1>5, <3>3, <3>4
  <2> QED
    BY <2>1, <2>2
<1> QED
  BY <1>2, <1>5, <1>6 DEF ArgsRead

\* The same for the signs.
LEMMA SignsSame ==
  ASSUME NEW ws \in Seq(Word), NEW i \in 1 .. Len(ws), NEW c, NEW d,
         SignsRead(ws, i - 1, c), d.redirect_idxs = c.redirect_idxs, i \notin Signs(ws)
  PROVE  SignsRead(ws, i, d)
<1>1. UpTo(Signs(ws), i) = UpTo(Signs(ws), i - 1)
  BY PlacesOf, CountStep
<1> QED
  BY <1>1 DEF SignsRead

\* A place that is read and holds a sign with its file is one redirection more.
LEMMA SignsGrow ==
  ASSUME NEW ws \in Seq(Word), NEW i \in 1 .. Len(ws), NEW c, NEW d,
         NEW k \in 0 .. 2, c.redirect_idxs \in Seq(0 .. 2), SignsRead(ws, i - 1, c),
         d.redirect_idxs = Append(c.redirect_idxs, k), i \in Signs(ws)
  PROVE  SignsRead(ws, i, d)
<1>1. Cardinality(UpTo(Signs(ws), i)) = Cardinality(UpTo(Signs(ws), i - 1)) + 1
  BY PlacesOf, CountStep
<1>2. Len(d.redirect_idxs) = Len(c.redirect_idxs) + 1
  BY AppendProperties
<1> QED
  BY <1>1, <1>2 DEF SignsRead

\* And for the files.
LEMMA FileSame ==
  ASSUME NEW ws \in Seq(Word), NEW i \in 1 .. Len(ws), NEW c, NEW d, NEW k \in 0 .. 2,
         FileRead(ws, i - 1, c, k), d.redirect_files[k] = c.redirect_files[k],
         i - 1 \notin SignsOf(ws, k)
  PROVE  FileRead(ws, i, d, k)
<1>1. SignsOf(ws, k) \in SUBSET (2 .. Len(ws)) /\ Len(ws) \in Nat
  BY PlacesOf
<1>2. \A j \in SignsOf(ws, k) : j < i <=> j < i - 1
  BY <1>1
<1> QED
  BY <1>2, Zenon DEF FileRead

\* The word behind a sign is the file for its kind, in place of one before it.
LEMMA FileGrow ==
  ASSUME NEW ws \in Seq(Word), NEW i \in 1 .. Len(ws), NEW d, NEW k \in 0 .. 2,
         d.redirect_files[k] = ws[i], i - 1 \in SignsOf(ws, k)
  PROVE  FileRead(ws, i, d, k)
<1>1. SignsOf(ws, k) \in SUBSET (2 .. Len(ws)) /\ Len(ws) \in Nat
  BY PlacesOf
<1>2. /\ i - 1 < i /\ i - 1 + 1 = i
      /\ \A m \in SignsOf(ws, k) : m < i => m <= i - 1
  BY <1>1
<1> QED
  BY <1>2 DEF FileRead

\* Before the first word nothing has been read.
LEMMA ReadNothing ==
  ASSUME NEW ws \in Seq(Word)
  PROVE  HasRead(ws, 0, Unread)
<1>1. ~Piped(ws, 0)
  BY DEF Piped
<1>2. ArgsRead(ws, 0, Unparsed) /\ SignsRead(ws, 0, Unparsed)
  BY PlacesOf, CountNothing DEF ArgsRead, SignsRead, Unparsed
<1>3. ASSUME NEW k \in 0 .. 2 PROVE FileRead(ws, 0, Unparsed, k)
  <2>1. \A j \in SignsOf(ws, k) : ~(j < 0)
    <3>1. SignsOf(ws, k) \in SUBSET (2 .. Len(ws))
      BY PlacesOf
    <3> QED
      BY <3>1
  <2>2. Unparsed.redirect_files[k] = None
    BY DEF Unparsed
  <2> QED
    BY <2>1, <2>2 DEF FileRead
<1>4. Unread.cmd = Unparsed /\ ~Unread.piped /\ ~Unparsed.next
  BY DEF Unread, Unparsed
<1> QED
  BY <1>1, <1>2, <1>3, <1>4 DEF HasRead

\* The first word is the name.
LEMMA ReadName ==
  ASSUME NEW ws \in Seq(Word), 1 \in 1 .. Len(ws)
  PROVE  HasRead(ws, 1, ParseWord(Unread, ws[1]))
<1> DEFINE c == [Unparsed EXCEPT !.name = ws[1]]
<1>1. ws[1] \in Word
  BY PlacesOf
<1>2. ParseWord(Unread, ws[1]) = [cmd |-> c, named |-> TRUE, pending |-> -1, piped |-> FALSE]
  <2>1. Unread \in Parses /\ ~Unread.named
    BY UnreadType DEF Unread
  <2>2. Unread.cmd = Unparsed /\ Unread.piped = FALSE /\ Unread.pending = -1
    BY DEF Unread
  <2> QED
    BY <1>1, <2>1, <2>2, WordIsName
<1>3. /\ c.name = ws[1] /\ c.args = Unparsed.args /\ ~c.next
      /\ c.redirect_idxs = Unparsed.redirect_idxs
      /\ c.redirect_files = Unparsed.redirect_files
  BY DEF Unparsed
<1> HIDE DEF c
<1>4. HasRead(ws, 0, Unread) /\ Unread.cmd = Unparsed
  BY ReadNothing DEF Unread
<1>5. /\ 1 \notin Body(ws) /\ ~Piped(ws, 1) /\ ~Takes(ws, 1)
  <2>1. 1 \notin Body(ws)
    BY BodyIs
  <2>2. ~Piped(ws, 1)
    BY DEF Piped
  <2> QED
    BY <2>1, <2>2, NameTakesNothing
<1>6. 1 \notin Plain(ws) /\ 1 \notin Signs(ws)
  BY <1>5, Zenon DEF Plain, Signs
<1>7. ArgsRead(ws, 1, c)
  <2>1. ArgsRead(ws, 1 - 1, Unparsed)
    BY <1>4 DEF HasRead
  <2> QED
    BY <1>3, <1>6, <2>1, ArgsSame
<1>8. SignsRead(ws, 1, c)
  <2>1. SignsRead(ws, 1 - 1, Unparsed)
    BY <1>4 DEF HasRead
  <2> QED
    BY <1>3, <1>6, <2>1, SignsSame
<1>9. ASSUME NEW k \in 0 .. 2 PROVE FileRead(ws, 1, c, k)
  <2>1. FileRead(ws, 1 - 1, Unparsed, k)
    BY <1>4 DEF HasRead
  <2>2. 1 - 1 \notin SignsOf(ws, k)
    <3>1. SignsOf(ws, k) \in SUBSET (2 .. Len(ws))
      BY PlacesOf
    <3> QED
      BY <3>1
  <2> QED
    BY <1>3, <2>1, <2>2, FileSame
<1> QED
  BY <1>2, <1>3, <1>5, <1>7, <1>8, <1>9 DEF HasRead

\* Behind a | a word marks at most that there is more.
LEMMA ParseBehindPipe ==
  ASSUME NEW s \in Parses, NEW w \in Word, s.piped
  PROVE  /\ ParseWord(s, w).piped
         /\ ParseWord(s, w).cmd \in {s.cmd, [s.cmd EXCEPT !.next = TRUE]}
<1> DEFINE Is(c, n, p, q) == ParseWord(s, w) = [cmd |-> c, named |-> n, pending |-> p, piped |-> q]
           c1 == [s.cmd EXCEPT !.next = TRUE]
<1>1. CASE ~s.named
  <2>1. Is(s.cmd, TRUE, s.pending, s.piped)
    BY <1>1, WordIsName
  <2> QED
    BY <2>1
<1>2. CASE s.named /\ s.pending # -1
  <2>1. Is(s.cmd, TRUE, -1, s.piped)
    BY <1>2, WordIsFile
  <2> QED
    BY <2>1
<1>3. CASE s.named /\ s.pending = -1 /\ w = <<"|">>
  <2>1. Is(c1, FALSE, -1, TRUE)
    BY <1>3, WordIsPipe
  <2> HIDE DEF c1
  <2>2. ParseWord(s, w).piped = TRUE /\ ParseWord(s, w).cmd = c1
    BY <2>1
  <2> QED
    BY <2>2 DEF c1
<1>4. CASE s.named /\ s.pending = -1 /\ Redirection(w) # -1
  <2>1. Is(s.cmd, TRUE, Redirection(w), s.piped)
    BY <1>4, WordIsSign
  <2> QED
    BY <2>1
<1>5. CASE s.named /\ s.pending = -1 /\ w = <<"&">>
  BY <1>5, WordIsDropped
<1>6. CASE /\ s.named /\ s.pending = -1 /\ Redirection(w) = -1
           /\ w # <<"|">> /\ w # <<"&">>
  <2>1. Is(s.cmd, TRUE, -1, s.piped)
    BY <1>6, WordIsArgument
  <2> QED
    BY <2>1
<1> QED
  BY <1>1, <1>2, <1>3, <1>4, <1>5, <1>6

\* Behind a | the words do not change the command.
LEMMA ReadBehindPipe ==
  ASSUME NEW ws \in Seq(Word), NEW i \in 2 .. Len(ws), NEW s \in Parses,
         HasRead(ws, i - 1, s), Piped(ws, i - 1)
  PROVE  HasRead(ws, i, ParseWord(s, ws[i]))
<1> DEFINE t == ParseWord(s, ws[i])
<1>1. /\ Len(ws) \in Nat /\ i \in 1 .. Len(ws) /\ i - 1 \in 1 .. Len(ws) /\ i - 1 # 0 /\ i # 0
      /\ ws[i] \in Word
  BY PlacesOf
<1>2. /\ s.cmd.name = ws[1] /\ s.piped /\ s.cmd.next
      /\ ArgsRead(ws, i - 1, s.cmd) /\ SignsRead(ws, i - 1, s.cmd)
      /\ \A k \in 0 .. 2 : FileRead(ws, i - 1, s.cmd, k)
  BY <1>1 DEF HasRead
<1>3. s.cmd \in Commands /\ s.named \in BOOLEAN
  BY DEF Parses
<1>4. /\ t.piped /\ t.cmd.next
      /\ t.cmd.name = s.cmd.name /\ t.cmd.args = s.cmd.args
      /\ t.cmd.redirect_idxs = s.cmd.redirect_idxs
      /\ t.cmd.redirect_files = s.cmd.redirect_files
  <2>1. t.piped /\ t.cmd \in {s.cmd, [s.cmd EXCEPT !.next = TRUE]}
    BY <1>1, <1>2, ParseBehindPipe
  <2> QED
    BY <1>2, <1>3, <2>1 DEF Commands
<1> HIDE DEF t
<1>5. Piped(ws, i) /\ i \notin Body(ws) /\ i - 1 \notin Body(ws)
  BY <1>1, BodyIs
<1>6. /\ i \notin Plain(ws) /\ i \notin Signs(ws)
      /\ \A k \in 0 .. 2 : i - 1 \notin SignsOf(ws, k)
  BY <1>5, Zenon DEF Plain, Signs, SignsOf
<1>7. ArgsRead(ws, i, t.cmd)
  BY <1>1, <1>2, <1>4, <1>6, ArgsSame
<1>8. SignsRead(ws, i, t.cmd)
  BY <1>1, <1>2, <1>4, <1>6, SignsSame
<1>9. ASSUME NEW k \in 0 .. 2 PROVE FileRead(ws, i, t.cmd, k)
  BY <1>1, <1>2, <1>4, <1>6, FileSame
<1>10. HasRead(ws, i, t)
  BY <1>1, <1>2, <1>4, <1>5, <1>7, <1>8, <1>9 DEF HasRead
<1> QED
  BY <1>10 DEF t

\* Before it a word that follows a sign that takes it is a file.
LEMMA ReadFile ==
  ASSUME NEW ws \in Seq(Word), NEW i \in 2 .. Len(ws), NEW s \in Parses,
         HasRead(ws, i - 1, s), ~Piped(ws, i - 1), Takes(ws, i - 1)
  PROVE  HasRead(ws, i, ParseWord(s, ws[i]))
<1> DEFINE t == ParseWord(s, ws[i])
           r == Redirection(ws[i - 1])
<1>1. /\ Len(ws) \in Nat /\ i \in 1 .. Len(ws) /\ i - 1 \in 1 .. Len(ws) /\ i - 1 # 0 /\ i # 0
      /\ i - 1 > 0 /\ i - 1 < Len(ws) /\ ws[i] \in Word
  BY PlacesOf
<1>2. /\ s.cmd.name = ws[1] /\ ~s.piped /\ ~s.cmd.next /\ s.named /\ s.pending = r
      /\ ArgsRead(ws, i - 1, s.cmd) /\ SignsRead(ws, i - 1, s.cmd)
      /\ \A k \in 0 .. 2 : FileRead(ws, i - 1, s.cmd, k)
  BY <1>1 DEF HasRead
<1>3. s.cmd \in Commands
  BY DEF Parses
<1>4. i - 1 # 1 /\ r # -1
  BY NameTakesNothing DEF Takes, IsSign
<1>5. r \in 0 .. 2
  BY <1>4, RedirectionType
<1>6. t = [cmd |-> [s.cmd EXCEPT !.redirect_files[s.pending] = ws[i]],
           named |-> TRUE, pending |-> -1, piped |-> s.piped]
  BY <1>1, <1>2, <1>4, WordIsFile
<1> HIDE DEF t, r
<1>7. /\ ~t.piped /\ t.named /\ t.pending = -1 /\ ~t.cmd.next
      /\ t.cmd.name = s.cmd.name /\ t.cmd.args = s.cmd.args
      /\ t.cmd.redirect_idxs = s.cmd.redirect_idxs
      /\ t.cmd.redirect_files = [s.cmd.redirect_files EXCEPT ![r] = ws[i]]
  BY <1>2, <1>3, <1>6 DEF Commands
<1>8. /\ t.cmd.redirect_files[r] = ws[i]
      /\ \A k \in 0 .. 2 : k # r => t.cmd.redirect_files[k] = s.cmd.redirect_files[k]
  BY <1>3, <1>5, <1>7 DEF Commands
<1>9. ~IsPipe(ws, i) /\ ~Takes(ws, i)
  BY TakesStep DEF IsPipe
<1>10. ~Piped(ws, i)
  BY <1>1, <1>9, BodyIs
<1>11. i \notin Plain(ws) /\ i \notin Signs(ws)
  BY <1>9, Zenon DEF Plain, Signs
<1>12. i - 1 \in Body(ws)
  BY <1>1, <1>4, BodyIs
<1>13. i - 1 \in SignsOf(ws, r) /\ \A k \in 0 .. 2 : k # r => i - 1 \notin SignsOf(ws, k)
  BY <1>1, <1>12 DEF SignsOf, r
<1>14. ArgsRead(ws, i, t.cmd)
  BY <1>1, <1>2, <1>7, <1>11, ArgsSame
<1>15. SignsRead(ws, i, t.cmd)
  BY <1>1, <1>2, <1>7, <1>11, SignsSame
<1>16. ASSUME NEW k \in 0 .. 2 PROVE FileRead(ws, i, t.cmd, k)
  <2>1. CASE k = r
    BY <1>1, <1>8, <1>13, <2>1, FileGrow
  <2>2. CASE k # r
    BY <1>1, <1>2, <1>8, <1>13, <2>2, FileSame
  <2> QED
    BY <2>1, <2>2
<1>17. HasRead(ws, i, t)
  BY <1>1, <1>2, <1>7, <1>9, <1>10, <1>14, <1>15, <1>16 DEF HasRead
<1> QED
  BY <1>17 DEF t

\* One that none takes is what it says: a |, a sign, an & or an argument.
LEMMA ReadPlain ==
  ASSUME NEW ws \in Seq(Word), NEW i \in 2 .. Len(ws), NEW s \in Parses,
         HasRead(ws, i - 1, s), ~Piped(ws, i - 1), ~Takes(ws, i - 1)
  PROVE  HasRead(ws, i, ParseWord(s, ws[i]))
<1>1. /\ Len(ws) \in Nat /\ i \in 1 .. Len(ws) /\ i - 1 \in 1 .. Len(ws) /\ i - 1 # 0 /\ i # 0
      /\ i - 1 > 0 /\ i # 1 /\ ws[i] \in Word
  BY PlacesOf
<1>2. /\ s.cmd.name = ws[1] /\ ~s.piped /\ ~s.cmd.next /\ s.named /\ s.pending = -1
      /\ ArgsRead(ws, i - 1, s.cmd) /\ SignsRead(ws, i - 1, s.cmd)
      /\ \A k \in 0 .. 2 : FileRead(ws, i - 1, s.cmd, k)
  BY <1>1 DEF HasRead
<1>3. s.cmd \in Commands
  BY DEF Parses
<1>4. \A k \in 0 .. 2 : i - 1 \notin SignsOf(ws, k)
  BY Zenon DEF SignsOf
<1>5. Takes(ws, i) <=> Redirection(ws[i]) # -1
  BY <1>1, TakesStep DEF IsSign
<1>6. IsPipe(ws, i) <=> ws[i] = <<"|">>
  BY <1>1 DEF IsPipe
<1>7. Piped(ws, i) <=> ws[i] = <<"|">>
  BY <1>1, <1>6, BodyIs
<1>8. i \in Body(ws) <=> ws[i] # <<"|">>
  BY <1>1, <1>7, BodyIs
<1>9. i \in Signs(ws) <=> ws[i] # <<"|">> /\ Redirection(ws[i]) # -1
  BY <1>5, <1>8, Zenon DEF Signs
<1>10. i \in Plain(ws) <=> ws[i] # <<"|">> /\ Redirection(ws[i]) = -1 /\ ws[i] # <<"&">>
  BY <1>5, <1>8, Zenon DEF Plain
<1>11. ASSUME NEW c, c.redirect_files = s.cmd.redirect_files, NEW k \in 0 .. 2
       PROVE  FileRead(ws, i, c, k)
  BY <1>1, <1>2, <1>4, <1>11, FileSame
<1>12. CASE ws[i] = <<"|">>
  <2> DEFINE c == [s.cmd EXCEPT !.next = TRUE]
  <2>1. ParseWord(s, ws[i]) = [cmd |-> c, named |-> FALSE, pending |-> -1, piped |-> TRUE]
    BY <1>1, <1>2, <1>12, WordIsPipe
  <2>2. /\ c.next /\ c.name = s.cmd.name /\ c.args = s.cmd.args
        /\ c.redirect_idxs = s.cmd.redirect_idxs
        /\ c.redirect_files = s.cmd.redirect_files
    BY <1>3 DEF Commands
  <2> HIDE DEF c
  <2>3. ArgsRead(ws, i, c) /\ SignsRead(ws, i, c)
    BY <1>1, <1>2, <1>9, <1>10, <1>12, <2>2, ArgsSame, SignsSame
  <2>4. \A k \in 0 .. 2 : FileRead(ws, i, c, k)
    BY <1>11, <2>2
  <2> QED
    BY <1>1, <1>2, <1>7, <1>12, <2>1, <2>2, <2>3, <2>4 DEF HasRead
<1>13. CASE Redirection(ws[i]) # -1
  <2> DEFINE r == Redirection(ws[i])
             c == [s.cmd EXCEPT !.redirect_idxs = Append(@, r)]
  <2>1. ParseWord(s, ws[i]) = [cmd |-> c, named |-> TRUE, pending |-> r, piped |-> FALSE]
    <3>1. ParseWord(s, ws[i]) = [cmd |-> IF s.piped THEN s.cmd ELSE c,
                                 named |-> TRUE, pending |-> r, piped |-> s.piped]
      BY <1>1, <1>2, <1>13, WordIsSign
    <3>2. s.piped = FALSE
      BY <1>2 DEF Parses
    <3> HIDE DEF c, r
    <3> QED
      BY <3>1, <3>2
  <2>2. /\ ~c.next /\ c.name = s.cmd.name /\ c.args = s.cmd.args
        /\ c.redirect_idxs = Append(s.cmd.redirect_idxs, r)
        /\ c.redirect_files = s.cmd.redirect_files
    BY <1>2, <1>3 DEF Commands
  <2>3. r \in 0 .. 2 /\ ws[i] # <<"|">>
    BY <1>13, RedirectionType, PipeIsNoSign
  <2>4. s.cmd.redirect_idxs \in Seq(0 .. 2)
    BY <1>3 DEF Commands
  <2>5. i \in Signs(ws) /\ i \notin Plain(ws) /\ ~Piped(ws, i) /\ Takes(ws, i)
    BY <1>5, <1>7, <1>9, <1>10, <1>13, <2>3
  <2>6. \A k \in 0 .. 2 : FileRead(ws, i, c, k)
    <3> HIDE DEF c, r
    <3> QED
      BY <1>11, <2>2
  <2> HIDE DEF c
  <2>7. ArgsRead(ws, i, c)
    BY <1>1, <1>2, <2>2, <2>5, ArgsSame
  <2>8. SignsRead(ws, i, c)
    BY <1>1, <1>2, <2>2, <2>3, <2>4, <2>5, SignsGrow
  <2> QED
    BY <1>1, <1>2, <2>1, <2>2, <2>5, <2>6, <2>7, <2>8 DEF HasRead
<1>14. CASE ws[i] = <<"&">>
  <2>1. ParseWord(s, ws[i]) = s
    BY <1>1, <1>2, <1>14, WordIsDropped
  <2>2. Redirection(ws[i]) = -1 /\ ws[i] # <<"|">>
    <3>1. <<"&">>[1] # "<" /\ <<"&">>[1] # ">" /\ <<"&">> # <<"|">>
      OBVIOUS
    <3> QED
      BY <1>14, <3>1, Zenon DEF Redirection
  <2>3. ~Piped(ws, i) /\ ~Takes(ws, i) /\ i \notin Signs(ws) /\ i \notin Plain(ws)
    BY <1>5, <1>7, <1>9, <1>10, <1>14, <2>2
  <2>4. ArgsRead(ws, i, s.cmd) /\ SignsRead(ws, i, s.cmd)
    BY <1>1, <1>2, <2>3, ArgsSame, SignsSame
  <2>5. \A k \in 0 .. 2 : FileRead(ws, i, s.cmd, k)
    BY <1>11
  <2> QED
    BY <1>1, <1>2, <2>1, <2>3, <2>4, <2>5 DEF HasRead
<1>15. CASE Redirection(ws[i]) = -1 /\ ws[i] # <<"|">> /\ ws[i] # <<"&">>
  <2> DEFINE c == [s.cmd EXCEPT !.args = Append(@, Unquote(ws[i]))]
  <2>1. ParseWord(s, ws[i]) = [cmd |-> c, named |-> TRUE, pending |-> -1, piped |-> FALSE]
    <3>1. ParseWord(s, ws[i]) = [cmd |-> IF s.piped THEN s.cmd ELSE c,
                                 named |-> TRUE, pending |-> -1, piped |-> s.piped]
      BY <1>1, <1>2, <1>15, WordIsArgument
    <3>2. s.piped = FALSE
      BY <1>2 DEF Parses
    <3> HIDE DEF c
    <3> QED
      BY <3>1, <3>2
  <2>2. /\ ~c.next /\ c.name = s.cmd.name
        /\ c.args = Append(s.cmd.args, Unquote(ws[i]))
        /\ c.redirect_idxs = s.cmd.redirect_idxs
        /\ c.redirect_files = s.cmd.redirect_files
    BY <1>2, <1>3 DEF Commands
  <2> HIDE DEF c
  <2>3. s.cmd.args \in Seq(Word)
    BY <1>3 DEF Commands
  <2>4. ~Piped(ws, i) /\ ~Takes(ws, i) /\ i \notin Signs(ws) /\ i \in Plain(ws)
    BY <1>5, <1>7, <1>9, <1>10, <1>15
  <2>5. ArgsRead(ws, i, c)
    BY <1>1, <1>2, <2>2, <2>3, <2>4, ArgsGrow
  <2>6. SignsRead(ws, i, c)
    BY <1>1, <1>2, <2>2, <2>4, SignsSame
  <2>7. \A k \in 0 .. 2 : FileRead(ws, i, c, k)
    BY <1>11, <2>2
  <2> QED
    BY <1>1, <1>2, <2>1, <2>2, <2>4, <2>5, <2>6, <2>7 DEF HasRead
<1> QED
  BY <1>12, <1>13, <1>14, <1>15

\* The parser has read every word behind it.
LEMMA ReadsWords ==
  ASSUME NEW ws \in Seq(Word), NEW g, IsParse(g, ws)
  PROVE  HasRead(ws, Len(ws), g[Len(ws)]) /\ g[Len(ws)] \in Parses
<1> DEFINE T == {i \in 0 .. Len(ws) : HasRead(ws, i, g[i])}
<1>1. Len(ws) \in Nat
  BY LenProperties
<1>2. g[0] = Unread /\ \A i \in 0 .. Len(ws) : g[i] \in Parses
  BY DEF IsParse
<1>3. 0 \in T
  BY <1>1, <1>2, ReadNothing
<1>4. ASSUME NEW i \in 1 .. Len(ws), i - 1 \in T PROVE i \in T
  <2>1. /\ HasRead(ws, i - 1, g[i - 1]) /\ g[i - 1] \in Parses
        /\ g[i] = ParseWord(g[i - 1], ws[i])
    BY <1>1, <1>2, <1>4 DEF IsParse
  <2>2. HasRead(ws, i, ParseWord(g[i - 1], ws[i]))
    <3>1. CASE i = 1
      <4>1. g[i - 1] = Unread
        BY <1>2, <3>1
      <4>2. 1 \in 1 .. Len(ws)
        BY <3>1
      <4>3. HasRead(ws, 1, ParseWord(Unread, ws[1]))
        BY <4>2, ReadName
      <4> QED
        BY <3>1, <4>1, <4>3
    <3>2. CASE i # 1
      <4>1. i \in 2 .. Len(ws)
        BY <1>1, <3>2
      <4>2. CASE Piped(ws, i - 1)
        BY <2>1, <4>1, <4>2, ReadBehindPipe
      <4>3. CASE ~Piped(ws, i - 1) /\ Takes(ws, i - 1)
        BY <2>1, <4>1, <4>3, ReadFile
      <4>4. CASE ~Piped(ws, i - 1) /\ ~Takes(ws, i - 1)
        BY <2>1, <4>1, <4>4, ReadPlain
      <4> QED
        BY <4>2, <4>3, <4>4
    <3> QED
      BY <3>1, <3>2
  <2> QED
    BY <1>1, <2>1, <2>2
<1> HIDE DEF T
<1>5. \A i \in 0 .. Len(ws) : i \in T
  BY <1>1, <1>3, <1>4, Steps
<1> QED
  BY <1>1, <1>2, <1>5 DEF T

\* The command is what the words say.
LEMMA ReadSays ==
  ASSUME NEW ws \in Seq(Word), NEW s \in Parses, HasRead(ws, Len(ws), s),
         NEW p, p.crashed = (s.pending # -1),
         p.cmd.name = s.cmd.name, p.cmd.args = s.cmd.args,
         p.cmd.redirect_files = s.cmd.redirect_files,
         p.cmd.redirect_idxs = s.cmd.redirect_idxs,
         p.cmd.next = s.cmd.next
  PROVE  Says(ws, p)
<1> DEFINE n == Len(ws)
           plain == Plain(ws)
           Of(k) == SignsOf(ws, k)
<1>1. /\ n \in Nat /\ plain \in SUBSET (1 .. n) /\ Signs(ws) \in SUBSET (1 .. n)
      /\ \A k \in 0 .. 2 : Of(k) \in SUBSET (2 .. n)
  BY PlacesOf
<1>2. /\ s.cmd.args \in Seq(Word) /\ s.cmd.redirect_files \in [0 .. 2 -> Word \cup {None}]
      /\ s.pending \in -1 .. 2
  BY DEF Parses, Commands
<1>3. p.cmd.name = IF ws = <<>> THEN <<>> ELSE ws[1]
  <2>1. CASE ws = <<>>
    <3>1. s = Unread
      BY <2>1 DEF HasRead
    <3> QED
      BY <2>1, <3>1 DEF Unread, Unparsed
  <2>2. CASE ws # <<>>
    <3>1. n # 0
      BY <2>2, EmptySeq
    <3> QED
      BY <2>2, <3>1 DEF HasRead
  <2> QED
    BY <2>1, <2>2
<1>4. p.cmd.args = [r \in 1 .. Cardinality(plain) |-> Unquote(ws[Nth(plain, r)])]
  <2>1. /\ Len(s.cmd.args) = Cardinality(plain)
        /\ \A j \in plain : s.cmd.args[Cardinality(Before(plain, j)) + 1] = Unquote(ws[j])
    <3>1. UpTo(plain, n) = plain
      BY <1>1, CountNothing
    <3> QED
      BY <3>1 DEF HasRead, ArgsRead
  <2>2. /\ Cardinality(plain) \in Nat
        /\ \A r \in 1 .. Cardinality(plain) :
             /\ Nth(plain, r) \in plain
             /\ Cardinality(Before(plain, Nth(plain, r))) = r - 1
    BY <1>1, NthIs
  <2>3. ASSUME NEW r \in 1 .. Cardinality(plain)
        PROVE  s.cmd.args[r] = Unquote(ws[Nth(plain, r)])
    <3>1. r - 1 + 1 = r
      BY <2>2
    <3> QED
      BY <2>1, <2>2, <3>1
  <2>4. s.cmd.args \in [1 .. Cardinality(plain) -> Word]
    BY <1>2, <2>1, LenProperties
  <2> HIDE DEF plain
  <2> QED
    BY <2>3, <2>4
<1>5. ASSUME NEW k \in 0 .. 2
      PROVE  p.cmd.redirect_files[k] = IF Of(k) = {} THEN None ELSE ws[Max(Of(k)) + 1]
  <2>1. FileRead(ws, n, s.cmd, k)
    BY DEF HasRead
  <2>2. Of(k) \in SUBSET (2 .. n) /\ \A j \in Of(k) : j < n
    BY <1>1, Zenon DEF SignsOf
  <2>3. CASE (\A j \in Of(k) : ~(j < n)) /\ s.cmd.redirect_files[k] = None
    <3>1. Of(k) = {}
      <4> HIDE DEF Of
      <4> QED
        BY <2>2, <2>3
    <3> QED
      BY <2>3, <3>1
  <2>4. ASSUME NEW j \in Of(k), \A m \in Of(k) : m < n => m <= j,
               s.cmd.redirect_files[k] = ws[j + 1]
        PROVE  s.cmd.redirect_files[k] = IF Of(k) = {} THEN None ELSE ws[Max(Of(k)) + 1]
    <3> HIDE DEF Of
    <3>1. \A m \in Of(k) : m <= j /\ m \in Int
      BY <2>2, <2>4
    <3>2. Max(Of(k)) = j
      <4>1. \A m \in Of(k) : j >= m
        BY <3>1
      <4>2. \A x \in Of(k) : (\A y \in Of(k) : x >= y) => x = j
        BY <3>1
      <4> QED
        BY <4>1, <4>2 DEF Max
    <3> QED
      BY <2>4, <3>2
  <2> QED
    BY <2>1, <2>3, <2>4 DEF FileRead
<1>6. p.cmd.next <=> \E i \in 2 .. n : IsPipe(ws, i)
  BY Zenon DEF HasRead, Piped
<1>7. CASE n = 0
  <2>1. s = Unread /\ ~Piped(ws, 0)
    BY <1>7 DEF HasRead, Piped
  <2>2. ~p.crashed /\ Len(p.cmd.redirect_idxs) = 0
    <3>1. s.pending = -1 /\ s.cmd.redirect_idxs = <<>>
      BY <2>1 DEF Unread, Unparsed
    <3>2. ~p.crashed
      BY <3>1
    <3>3. p.cmd.redirect_idxs = <<>>
      BY <3>1
    <3> QED
      BY <3>2, <3>3
  <2>3. ~Takes(ws, n)
    BY <1>7, NameTakesNothing
  <2>4. UNION {Of(k) : k \in 0 .. 2} = {}
    <3>1. \A k \in 0 .. 2 : Of(k) = {}
      <4> HIDE DEF Of
      <4> QED
        BY <1>1, <1>7
    <3> HIDE DEF Of
    <3> QED
      BY <3>1
  <2>5. Cardinality(UNION {Of(k) : k \in 0 .. 2}) = 0
    BY <2>4, FS_EmptySet
  <2> QED
    BY <1>3, <1>4, <1>5, <1>6, <2>2, <2>3, <2>5 DEF Says
<1>8. CASE n > 0
  <2>1. ~Piped(ws, n) => (s.pending # -1 <=> Takes(ws, n))
    <3>1. ~Piped(ws, n) => s.pending = IF Takes(ws, n) THEN Redirection(ws[n]) ELSE -1
      BY <1>8 DEF HasRead
    <3>2. Takes(ws, n) => Redirection(ws[n]) # -1
      BY DEF Takes, IsSign
    <3> QED
      BY <3>1, <3>2
  <2>2. p.cmd.next <=> Piped(ws, n)
    BY DEF HasRead
  <2>3. ASSUME ~p.crashed
        PROVE  Len(p.cmd.redirect_idxs) = Cardinality(UNION {Of(k) : k \in 0 .. 2})
    <3>1. n \notin Signs(ws)
      <4>1. n \in Body(ws) => ~Piped(ws, n)
        BY <1>1, <1>8, BodyIs
      <4> QED
        BY <2>1, <2>3, <4>1, Zenon DEF Signs
    <3>2. \A j \in Signs(ws) : j < n /\ Redirection(ws[j]) \in 0 .. 2
      <4> TAKE j \in Signs(ws)
      <4>1. Takes(ws, j)
        BY Zenon DEF Signs
      <4>2. Redirection(ws[j]) # -1
        BY <4>1 DEF Takes, IsSign
      <4>3. j \in 1 .. n /\ j # n
        BY <1>1, <3>1
      <4> QED
        BY <1>1, <4>2, <4>3, RedirectionType
    <3>3. UNION {Of(k) : k \in 0 .. 2} \subseteq Signs(ws)
      BY Zenon DEF SignsOf, Signs
    <3>4. Signs(ws) \subseteq UNION {Of(k) : k \in 0 .. 2}
      <4> SUFFICES ASSUME NEW j \in Signs(ws)
                   PROVE  j \in Of(Redirection(ws[j])) /\ Redirection(ws[j]) \in 0 .. 2
        BY Zenon
      <4>1. j \in Body(ws) /\ Takes(ws, j)
        BY Zenon DEF Signs
      <4> QED
        BY <3>2, <4>1, Zenon DEF SignsOf
    <3>5. UNION {Of(k) : k \in 0 .. 2} = Signs(ws)
      BY <3>3, <3>4
    <3>6. UpTo(Signs(ws), n) = Signs(ws)
      BY <1>1, CountNothing
    <3>7. Len(s.cmd.redirect_idxs) = Cardinality(Signs(ws))
      BY <3>6 DEF HasRead, SignsRead
    <3> QED
      BY <3>5, <3>7
  <2> QED
    BY <1>3, <1>4, <1>5, <1>6, <2>1, <2>2, <2>3 DEF Says
<1> QED
  BY <1>1, <1>7, <1>8

\* A command has a file only for the kinds among its redirections (lines 409-450).
FilesNamed(cmd) ==
  \A k \in 0 .. 2 :
    (\A m \in 1 .. Len(cmd.redirect_idxs) : cmd.redirect_idxs[m] # k) =>
      cmd.redirect_files[k] = None

PendingNamed(s) ==
  ~s.piped /\ s.pending # -1 =>
    \E m \in 1 .. Len(s.cmd.redirect_idxs) : s.cmd.redirect_idxs[m] = s.pending

\* A word gives a file to a kind whose sign has been read, and to no other.
LEMMA NamedStep ==
  ASSUME NEW s \in Parses, NEW w \in Word, FilesNamed(s.cmd), PendingNamed(s)
  PROVE  FilesNamed(ParseWord(s, w).cmd) /\ PendingNamed(ParseWord(s, w))
<1> DEFINE t == ParseWord(s, w)
<1>1. s.cmd \in Commands /\ s.piped \in BOOLEAN /\ s.pending \in -1 .. 2
  BY DEF Parses
<1>2. CASE s.piped
  <2>1. t.piped /\ t.cmd \in {s.cmd, [s.cmd EXCEPT !.next = TRUE]}
    BY <1>2, ParseBehindPipe
  <2> HIDE DEF t
  <2>2. /\ t.cmd.redirect_idxs = s.cmd.redirect_idxs
        /\ t.cmd.redirect_files = s.cmd.redirect_files
    BY <1>1, <2>1 DEF Commands
  <2>3. FilesNamed(t.cmd) /\ PendingNamed(t)
    BY <2>1, <2>2 DEF FilesNamed, PendingNamed
  <2> QED
    BY <2>3 DEF t
<1>3. CASE ~s.piped /\ ~s.named
  <2> DEFINE c == [s.cmd EXCEPT !.name = w]
  <2>1. t = [cmd |-> IF s.piped THEN s.cmd ELSE c,
             named |-> TRUE, pending |-> s.pending, piped |-> s.piped]
    BY <1>3, WordIsName
  <2>2. c.redirect_idxs = s.cmd.redirect_idxs /\ c.redirect_files = s.cmd.redirect_files
    BY <1>1 DEF Commands
  <2> HIDE DEF t, c
  <2>3. t.cmd = c /\ t.pending = s.pending /\ t.piped = s.piped
    BY <1>3, <2>1
  <2>4. FilesNamed(t.cmd) /\ PendingNamed(t)
    BY <2>2, <2>3 DEF FilesNamed, PendingNamed
  <2> QED
    BY <2>4 DEF t
<1>4. CASE ~s.piped /\ s.named /\ s.pending # -1
  <2> DEFINE c == [s.cmd EXCEPT !.redirect_files[s.pending] = w]
  <2>1. t = [cmd |-> IF s.piped THEN s.cmd ELSE c,
             named |-> TRUE, pending |-> -1, piped |-> s.piped]
    BY <1>4, WordIsFile
  <2>2. /\ c.redirect_idxs = s.cmd.redirect_idxs
        /\ \A k \in 0 .. 2 : k # s.pending => c.redirect_files[k] = s.cmd.redirect_files[k]
    BY <1>1 DEF Commands
  <2>3. \E m \in 1 .. Len(s.cmd.redirect_idxs) : s.cmd.redirect_idxs[m] = s.pending
    BY <1>4 DEF PendingNamed
  <2> HIDE DEF t, c
  <2>4. t.cmd = c /\ t.pending = -1
    BY <1>4, <2>1
  <2>5. FilesNamed(t.cmd) /\ PendingNamed(t)
    BY <2>2, <2>3, <2>4 DEF FilesNamed, PendingNamed
  <2> QED
    BY <2>5 DEF t
<1>5. CASE ~s.piped /\ s.named /\ s.pending = -1 /\ w = <<"|">>
  <2> DEFINE c == [s.cmd EXCEPT !.next = TRUE]
  <2>1. t = [cmd |-> c, named |-> FALSE, pending |-> -1, piped |-> TRUE]
    BY <1>5, WordIsPipe
  <2>2. c.redirect_idxs = s.cmd.redirect_idxs /\ c.redirect_files = s.cmd.redirect_files
    BY <1>1 DEF Commands
  <2> HIDE DEF t, c
  <2>3. t.cmd = c /\ t.pending = -1
    BY <2>1
  <2>4. FilesNamed(t.cmd) /\ PendingNamed(t)
    BY <2>2, <2>3 DEF FilesNamed, PendingNamed
  <2> QED
    BY <2>4 DEF t
<1>6. CASE ~s.piped /\ s.named /\ s.pending = -1 /\ Redirection(w) # -1
  <2> DEFINE r == Redirection(w)
             c == [s.cmd EXCEPT !.redirect_idxs = Append(@, r)]
             idxs == s.cmd.redirect_idxs
  <2>1. t = [cmd |-> IF s.piped THEN s.cmd ELSE c,
             named |-> TRUE, pending |-> r, piped |-> s.piped]
    BY <1>6, WordIsSign
  <2>2. c.redirect_idxs = Append(idxs, r) /\ c.redirect_files = s.cmd.redirect_files
    BY <1>1 DEF Commands
  <2>3. r \in 0 .. 2 /\ idxs \in Seq(0 .. 2)
    BY <1>1, <1>6, RedirectionType DEF Commands
  <2> HIDE DEF t, c, r, idxs
  <2>4. /\ Len(idxs) \in Nat
        /\ Len(Append(idxs, r)) = Len(idxs) + 1
        /\ \A m \in 1 .. Len(idxs) : Append(idxs, r)[m] = idxs[m]
        /\ Append(idxs, r)[Len(idxs) + 1] = r
    BY <2>3, LenProperties, AppendProperties
  <2>5. t.cmd = c /\ t.pending = r
    BY <1>6, <2>1
  <2>6. \A m \in 1 .. Len(idxs) :
          m \in 1 .. Len(c.redirect_idxs) /\ c.redirect_idxs[m] = idxs[m]
    BY <2>2, <2>4
  <2>7. /\ Len(idxs) + 1 \in 1 .. Len(c.redirect_idxs)
        /\ c.redirect_idxs[Len(idxs) + 1] = r
    BY <2>2, <2>4
  <2>8. FilesNamed(c)
    BY <2>2, <2>6 DEF FilesNamed, idxs
  <2>9. PendingNamed(t)
    BY <2>5, <2>7 DEF PendingNamed
  <2> QED
    BY <2>5, <2>8, <2>9 DEF t
<1>7. CASE ~s.piped /\ s.named /\ s.pending = -1 /\ w = <<"&">>
  BY <1>7, WordIsDropped
<1>8. CASE /\ ~s.piped /\ s.named /\ s.pending = -1 /\ Redirection(w) = -1
           /\ w # <<"|">> /\ w # <<"&">>
  <2> DEFINE c == [s.cmd EXCEPT !.args = Append(@, Unquote(w))]
  <2>1. t = [cmd |-> IF s.piped THEN s.cmd ELSE c,
             named |-> TRUE, pending |-> -1, piped |-> s.piped]
    BY <1>8, WordIsArgument
  <2>2. c.redirect_idxs = s.cmd.redirect_idxs /\ c.redirect_files = s.cmd.redirect_files
    BY <1>1 DEF Commands
  <2> HIDE DEF t, c
  <2>3. t.cmd = c /\ t.pending = -1
    BY <1>8, <2>1
  <2>4. FilesNamed(t.cmd) /\ PendingNamed(t)
    BY <2>2, <2>3 DEF FilesNamed, PendingNamed
  <2> QED
    BY <2>4 DEF t
<1> QED
  BY <1>2, <1>3, <1>4, <1>5, <1>6, <1>7, <1>8

\* So does the whole line.
LEMMA NamedAll ==
  ASSUME NEW ws \in Seq(Word), NEW g, IsParse(g, ws)
  PROVE  FilesNamed(g[Len(ws)].cmd)
<1> DEFINE T == {i \in 0 .. Len(ws) : FilesNamed(g[i].cmd) /\ PendingNamed(g[i])}
<1>1. /\ Len(ws) \in Nat /\ g[0] = Unread
      /\ \A i \in 1 .. Len(ws) : /\ g[i] = ParseWord(g[i - 1], ws[i])
                                 /\ g[i - 1] \in Parses /\ ws[i] \in Word
  BY LenProperties, ElementOfSeq DEF IsParse
<1>2. 0 \in T
  <2>1. FilesNamed(Unread.cmd) /\ PendingNamed(Unread)
    BY DEF FilesNamed, PendingNamed, Unread, Unparsed
  <2> QED
    BY <1>1, <2>1
<1>3. ASSUME NEW i \in 1 .. Len(ws), i - 1 \in T PROVE i \in T
  BY <1>1, <1>3, NamedStep
<1> HIDE DEF T
<1>4. \A i \in 0 .. Len(ws) : i \in T
  BY <1>1, <1>2, <1>3, Steps
<1> QED
  BY <1>1, <1>4 DEF T

\* The streams of the child before and behind each redirection.
FileNames == Word \cup {None}
Redirected == [kind : 0 .. 2, file : FileNames]
Opened == [in : FileNames, out : FileNames, written : SUBSET Redirected]
Closed == [in |-> None, out |-> None, written |-> {}]

IsOpening(g, rs) ==
  /\ g \in [0 .. Len(rs) -> Opened]
  /\ g[0] = Closed
  /\ \A i \in 1 .. Len(rs) : g[i] = Open(g[i - 1], rs[i])

\* A redirection makes streams of streams.
LEMMA OpenTypes ==
  /\ Closed \in Opened
  /\ \A x \in Opened, r \in Redirected : Open(x, r) \in Opened
<1>1. Closed \in Opened
  BY DEF Closed, Opened, FileNames
<1>2. ASSUME NEW x \in Opened, NEW r \in Redirected PROVE Open(x, r) \in Opened
  <2>1. r.file \in FileNames
    BY DEF Redirected
  <2>2. [x EXCEPT !.in = r.file] \in Opened
    BY <2>1 DEF Opened
  <2>3. [x EXCEPT !.out = r.file, !.written = @ \cup {r}] \in Opened
    BY <2>1 DEF Opened
  <2> QED
    BY <2>2, <2>3 DEF Open
<1> QED
  BY <1>1, <1>2

\* The child's loop runs through these streams.
LEMMA OpeningOf ==
  ASSUME NEW rs \in Seq(Redirected)
  PROVE  \E g : IsOpening(g, rs) /\ FoldLeft(Open, Closed, rs) = g[Len(rs)]
<1> DEFINE n == Len(rs)
           f == [i \in 1 .. n |-> [x \in Opened |-> Open(x, rs[i])]]
           iter == CHOOSE h : h = [S \in SUBSET (DOMAIN rs) |->
                     IF S = {} THEN Closed
                     ELSE Open(h[S \ {Max(S)}], rs[Max(S)])]
           g == [i \in 0 .. n |-> iter[1 .. i]]
<1>1. n \in Nat /\ DOMAIN rs = 1 .. n /\ \A i \in 1 .. n : rs[i] \in Redirected
  BY LenProperties, ElementOfSeq
<1>2. f \in [1 .. n -> [Opened -> Opened]]
  BY <1>1, OpenTypes
<1>3. \E h : h = [S \in SUBSET (DOMAIN rs) |->
                    IF S = {} THEN Closed
                    ELSE Open(h[S \ {Max(S)}], rs[Max(S)])]
  <2>1. PICK h \in [SUBSET (1 .. n) -> Opened] : FoldsBy(h, Closed, f, n)
    <3>1. Closed \in Opened
      BY OpenTypes
    <3> HIDE DEF f, n
    <3> QED
      BY ONLY <1>1, <1>2, <3>1, FoldExists
  <2>2. ASSUME NEW S \in SUBSET (1 .. n), S # {}
        PROVE  f[Max(S)][h[S \ {Max(S)}]] = Open(h[S \ {Max(S)}], rs[Max(S)])
    <3>1. Max(S) \in 1 .. n /\ h[S \ {Max(S)}] \in Opened
      BY <1>1, <2>2, MaxOfSubset
    <3> QED
      BY <3>1
  <2> HIDE DEF f
  <2>3. h = [S \in SUBSET (1 .. n) |->
               IF S = {} THEN Closed ELSE Open(h[S \ {Max(S)}], rs[Max(S)])]
    BY <2>1, <2>2 DEF FoldsBy
  <2> QED
    BY <1>1, <2>3
<1>4. iter = [S \in SUBSET (DOMAIN rs) |->
                IF S = {} THEN Closed
                ELSE Open(iter[S \ {Max(S)}], rs[Max(S)])]
  BY <1>3
<1>5. FoldLeft(Open, Closed, rs) = iter[DOMAIN rs]
  BY DEF FoldLeft, MapThenFoldSet
<1> HIDE DEF iter, f
<1>6. g[0] = Closed
  <2>1. 1 .. 0 = {} /\ 0 \in 0 .. n
    BY <1>1
  <2> QED
    BY <1>1, <1>4, <2>1
<1>7. ASSUME NEW i \in 1 .. n PROVE g[i] = Open(g[i - 1], rs[i])
  <2>1. 1 .. i # {} /\ Max(1 .. i) = i /\ (1 .. i) \ {i} = 1 .. i - 1
    <3>1. i \in Nat /\ i > 0
      BY <1>1
    <3> QED
      BY ONLY <3>1, MaxOfPrefix
  <2>2. 1 .. i \in SUBSET (DOMAIN rs) /\ i \in 0 .. n /\ i - 1 \in 0 .. n
    BY <1>1
  <2> QED
    BY <1>4, <2>1, <2>2
<1>8. g[n] = FoldLeft(Open, Closed, rs)
  BY <1>1, <1>5
<1> DEFINE T == {i \in 0 .. n : g[i] \in Opened}
<1>9. \A i \in 0 .. n : i \in T
  <2>1. 0 \in T
    BY <1>1, <1>6, OpenTypes
  <2>2. ASSUME NEW i \in 1 .. n, i - 1 \in T PROVE i \in T
    <3>1. g[i - 1] \in Opened /\ rs[i] \in Redirected /\ i \in 0 .. n
      BY <1>1, <2>2
    <3> HIDE DEF g
    <3>2. g[i] \in Opened
      BY <1>7, <3>1, OpenTypes
    <3> QED
      BY <3>1, <3>2
  <2> HIDE DEF T
  <2> QED
    BY <1>1, <2>1, <2>2, Steps
<1>10. g \in [0 .. n -> Opened]
  BY <1>9
<1> HIDE DEF g
<1> QED
  BY <1>6, <1>7, <1>8, <1>10 DEF IsOpening

\* Of the streams of a command with up to three redirections the input is the
\* file for <, and the output that of the last other sign (lines 822-859).
LEMMA StreamsAre ==
  ASSUME NEW cmd, cmd.redirect_idxs \in Seq(0 .. 2),
         cmd.redirect_files \in [0 .. 2 -> FileNames],
         Len(cmd.redirect_idxs) <= 3, FilesNamed(cmd)
  PROVE  LET idxs == cmd.redirect_idxs
             outs == {i \in 1 .. Len(idxs) : idxs[i] # 0}
         IN /\ Streams(cmd).out = IF outs = {} THEN None
                                  ELSE cmd.redirect_files[idxs[Max(outs)]]
            /\ Streams(cmd).in = cmd.redirect_files[0]
<1> DEFINE idxs == cmd.redirect_idxs
           files == cmd.redirect_files
           n == Len(idxs)
           outs == {i \in 1 .. n : idxs[i] # 0}
           rs == Redirects(cmd)
<1>1. n \in 0 .. 3 /\ \A i \in 1 .. n : idxs[i] \in 0 .. 2
  <2>1. idxs \in Seq(0 .. 2) /\ n <= 3
    OBVIOUS
  <2> HIDE DEF idxs
  <2>2. n \in Nat
    BY <2>1, LenProperties
  <2>3. \A i \in 1 .. n : idxs[i] \in 0 .. 2
    BY <2>1, ElementOfSeq
  <2> HIDE DEF n
  <2>4. n \in 0 .. 3
    BY <2>1, <2>2
  <2> QED
    BY <2>3, <2>4
<1>2. rs = [i \in 1 .. n |-> [kind |-> idxs[i], file |-> files[idxs[i]]]]
  <2>1. Min({3, n}) = n
    BY <1>1 DEF Min
  <2> QED
    BY <2>1 DEF Redirects
<1>3. /\ rs \in Seq(Redirected) /\ Len(rs) = n
      /\ \A i \in 1 .. n : rs[i].kind = idxs[i] /\ rs[i].file = files[idxs[i]]
  <2>1. \A i \in 1 .. n : [kind |-> idxs[i], file |-> files[idxs[i]]] \in Redirected
    BY <1>1 DEF Redirected
  <2> QED
    BY <1>1, <1>2, <2>1
<1>4. PICK g : IsOpening(g, rs) /\ FoldLeft(Open, Closed, rs) = g[n]
  BY <1>3, OpeningOf
<1> HIDE DEF rs
<1>5. /\ g[0] = Closed
      /\ \A i \in 0 .. n : g[i] \in Opened
      /\ \A i \in 1 .. n : g[i] = Open(g[i - 1], rs[i])
  BY <1>1, <1>3, <1>4 DEF IsOpening
<1>6. Streams(cmd) = g[n]
  BY <1>4 DEF Streams, Closed, rs
<1> HIDE DEF n, idxs, files
<1> DEFINE In(i) == \/ g[i].in = files[0]
                    \/ g[i].in = None /\ \A m \in 1 .. i : idxs[m] # 0
           Out(i) == \/ g[i].out = None /\ \A m \in 1 .. i : idxs[m] = 0
                     \/ \E m \in 1 .. i :
                          /\ idxs[m] # 0 /\ g[i].out = files[idxs[m]]
                          /\ \A q \in 1 .. i : idxs[q] # 0 => q <= m
           T == {i \in 0 .. n : In(i) /\ Out(i)}
<1>7. 0 \in T
  BY <1>1, <1>5 DEF Closed
<1>8. ASSUME NEW i \in 1 .. n, i - 1 \in T PROVE i \in T
  <2>1. /\ In(i - 1) /\ Out(i - 1) /\ g[i] = Open(g[i - 1], rs[i]) /\ g[i - 1] \in Opened
        /\ rs[i].kind = idxs[i] /\ rs[i].file = files[idxs[i]]
    BY <1>1, <1>3, <1>5, <1>8
  <2>2. CASE idxs[i] = 0
    <3>1. g[i] = [g[i - 1] EXCEPT !.in = files[0]]
      BY <2>1, <2>2 DEF Open
    <3>2. g[i].in = files[0] /\ g[i].out = g[i - 1].out
      BY <2>1, <3>1 DEF Opened
    <3>3. Out(i)
      BY <1>1, <2>1, <2>2, <3>2
    <3> QED
      BY <1>1, <3>2, <3>3
  <2>3. CASE idxs[i] # 0
    <3>1. g[i] = [g[i - 1] EXCEPT !.out = files[idxs[i]], !.written = @ \cup {rs[i]}]
      BY <2>1, <2>3 DEF Open
    <3>2. g[i].in = g[i - 1].in /\ g[i].out = files[idxs[i]]
      BY <2>1, <3>1 DEF Opened
    <3>3. In(i)
      BY <1>1, <2>1, <2>3, <3>2
    <3>4. Out(i)
      BY <1>1, <2>3, <3>2
    <3> QED
      BY <1>1, <3>3, <3>4
  <2> QED
    BY <2>2, <2>3
<1>9. In(n) /\ Out(n)
  <2> HIDE DEF T
  <2>1. \A i \in 0 .. n : i \in T
    BY <1>1, <1>7, <1>8, Steps
  <2>2. n \in T
    BY <1>1, <2>1
  <2> QED
    BY <2>2 DEF T
<1>10. Streams(cmd).in = files[0]
  <2>1. (\A m \in 1 .. n : idxs[m] # 0) => files[0] = None
    BY DEF FilesNamed, n, idxs, files
  <2> QED
    BY <1>6, <1>9, <2>1
<1>11. Streams(cmd).out = IF outs = {} THEN None ELSE files[idxs[Max(outs)]]
  <2>1. CASE \A m \in 1 .. n : idxs[m] = 0
    <3>1. outs = {}
      BY <2>1
    <3>2. g[n].out = None
      BY <1>9, <2>1
    <3> QED
      BY <1>6, <3>1, <3>2
  <2>2. ASSUME NEW m \in 1 .. n, idxs[m] # 0, g[n].out = files[idxs[m]],
               \A q \in 1 .. n : idxs[q] # 0 => q <= m
        PROVE  Streams(cmd).out = IF outs = {} THEN None ELSE files[idxs[Max(outs)]]
    <3>1. m \in outs /\ \A q \in outs : q <= m /\ q \in 1 .. n
      BY <2>2
    <3>2. \A x \in outs : (\A y \in outs : x >= y) => x = m
      BY <1>1, <3>1
    <3>3. \A y \in outs : m >= y
      BY <1>1, <3>1
    <3> HIDE DEF outs
    <3>4. Max(outs) = m
      BY <3>1, <3>2, <3>3 DEF Max
    <3> QED
      BY <1>6, <2>2, <3>1, <3>4
  <2> QED
    BY <1>9, <2>1, <2>2
<1> QED
  BY <1>10, <1>11 DEF n, idxs, files

\* What parse_command makes of a text: the command says what the words say, and
\* has a file for each of its redirections and for no other (lines 346-489).
LEMMA ParsedText ==
  ASSUME NEW text \in Seq(Char), NEW p, p = ParseCommand(text)
  PROVE  /\ Says(Words(text), p)
         /\ FilesNamed(p.cmd)
         /\ p.cmd.args \in Seq(Word)
         /\ p.cmd.redirect_idxs \in Seq(0 .. 2)
         /\ p.cmd.redirect_files \in [0 .. 2 -> FileNames]
<1> DEFINE ws == Words(text)
           s == FoldLeft(ParseWord, Unread, ws)
           e == IF ws = <<>> THEN None ELSE Last(Last(ws))
           c == [s.cmd EXCEPT !.background = (e = "&"), !.auto_complete = (e = "?")]
<1>0. ws \in Seq(Word)
  BY ScanOf, ScanIs
<1>1. PICK g : IsParse(g, ws) /\ s = g[Len(ws)]
  <2> HIDE DEF s, ws
  <2>1. \E g : IsParse(g, ws) /\ FoldLeft(ParseWord, Unread, ws) = g[Len(ws)]
    BY <1>0, ParseOf
  <2> QED
    BY <2>1 DEF s
<1>2. p = [cmd |-> c, crashed |-> s.pending # -1]
  BY Zenon DEF ParseCommand
<1> HIDE DEF ws, s
<1>3. s \in Parses /\ HasRead(ws, Len(ws), s) /\ FilesNamed(s.cmd)
  BY <1>0, <1>1, ReadsWords, NamedAll
<1>4. s.cmd \in Commands
  BY <1>3 DEF Parses
<1> HIDE DEF e
<1>5. /\ c.name = s.cmd.name /\ c.args = s.cmd.args
      /\ c.redirect_files = s.cmd.redirect_files
      /\ c.redirect_idxs = s.cmd.redirect_idxs
      /\ c.next = s.cmd.next
  BY <1>4 DEF Commands
<1> HIDE DEF c
<1>6. p.cmd = c /\ p.crashed = (s.pending # -1)
  BY <1>2
<1>7. Says(ws, p)
  BY <1>0, <1>3, <1>5, <1>6, ReadSays
<1>8. FilesNamed(p.cmd)
  BY <1>3, <1>5, <1>6 DEF FilesNamed
<1>9. /\ p.cmd.args \in Seq(Word) /\ p.cmd.redirect_idxs \in Seq(0 .. 2)
      /\ p.cmd.redirect_files \in [0 .. 2 -> FileNames]
  BY <1>4, <1>5, <1>6 DEF Commands, FileNames
<1> QED
  BY <1>7, <1>8, <1>9 DEF ws

-----------------------------------------------------------------------------
(***************************************************************************)
(* Aliases: where a name stands in a text                                  *)
(***************************************************************************)
\* The sequence w ends at place e of s.
EndsAt(s, e, w) ==
  /\ Len(w) <= e
  /\ \A k \in 1 .. Len(w) : s[e - Len(w) + k] = w[k]

\* A suffix of a word is what it ends in.
LEMMA SuffixIs ==
  ASSUME NEW a \in Seq(Char), NEW w \in Seq(Char)
  PROVE  IsSuffix(a, w) <=> EndsAt(w, Len(w), a)
<1>1. PICK m \in Nat, n \in Nat : m = Len(a) /\ n = Len(w)
  BY LenProperties
<1> DEFINE ra == Reverse(a)
           rw == Reverse(w)
<1>2. /\ ra \in Seq(Char) /\ Len(ra) = m /\ \A k \in 1 .. m : ra[k] = a[m - k + 1]
      /\ rw \in Seq(Char) /\ Len(rw) = n /\ \A k \in 1 .. n : rw[k] = w[n - k + 1]
  <2>1. \A k \in 1 .. m : a[m - k + 1] \in Char
    <3> TAKE k \in 1 .. m
    <3>1. m - k + 1 \in 1 .. Len(a)
      BY <1>1
    <3> QED
      BY <3>1, ElementOfSeq
  <2>2. \A k \in 1 .. n : w[n - k + 1] \in Char
    <3> TAKE k \in 1 .. n
    <3>1. n - k + 1 \in 1 .. Len(w)
      BY <1>1
    <3> QED
      BY <3>1, ElementOfSeq
  <2> QED
    BY <1>1, <2>1, <2>2 DEF Reverse
<1>3. IsSuffix(a, w) <=> Len(ra) <= Len(rw) /\ SubSeq(ra, 1, Len(ra)) = SubSeq(rw, 1, Len(ra))
  BY Zenon DEF IsSuffix, IsPrefix
<1> HIDE DEF ra, rw
<1>4. SubSeq(ra, 1, Len(ra)) = ra
  BY <1>2, SubSeqFull
<1>5. CASE m > n
  BY <1>1, <1>2, <1>3, <1>5 DEF EndsAt
<1>6. CASE m <= n
  <2>1. 1 \in 1 .. Len(rw) + 1 /\ m \in 1 - 1 .. Len(rw) /\ m - 1 + 1 = m
    BY <1>2, <1>6
  <2> DEFINE h == SubSeq(rw, 1, m)
  <2>2. h \in Seq(Char) /\ Len(h) = m /\ \A k \in 1 .. m : h[k] = rw[1 + k - 1]
    BY <1>2, <2>1, PartOf
  <2> HIDE DEF h
  <2>3. IsSuffix(a, w) <=> ra = h
    BY <1>2, <1>3, <1>4, <1>6 DEF h
  <2>4. ra = h <=> \A k \in 1 .. m : ra[k] = h[k]
    BY <1>2, <2>2, SeqEqual
  <2>5. \A k \in 1 .. m : h[k] = w[n - k + 1] /\ ra[k] = a[m - k + 1]
    BY <1>2, <1>6, <2>2
  <2>6. ASSUME \A k \in 1 .. m : ra[k] = h[k], NEW k \in 1 .. m
        PROVE  w[n - m + k] = a[k]
    <3>1. m - k + 1 \in 1 .. m
      OBVIOUS
    <3>2. h[m - k + 1] = w[n - (m - k + 1) + 1] /\ ra[m - k + 1] = a[m - (m - k + 1) + 1]
      BY <2>5, <3>1
    <3>3. n - (m - k + 1) + 1 = n - m + k /\ m - (m - k + 1) + 1 = k
      OBVIOUS
    <3> QED
      BY <2>6, <3>1, <3>2, <3>3
  <2>7. ASSUME \A k \in 1 .. m : w[n - m + k] = a[k], NEW k \in 1 .. m
        PROVE  ra[k] = h[k]
    <3>1. m - k + 1 \in 1 .. m /\ n - m + (m - k + 1) = n - k + 1
      OBVIOUS
    <3>2. w[n - m + (m - k + 1)] = a[m - k + 1]
      BY <2>7, <3>1
    <3> QED
      BY <2>5, <3>1, <3>2
  <2>8. EndsAt(w, Len(w), a) <=> \A k \in 1 .. m : w[n - m + k] = a[k]
    BY <1>1, <1>6 DEF EndsAt
  <2> QED
    BY <2>3, <2>4, <2>6, <2>7, <2>8
<1> QED
  BY <1>1, <1>5, <1>6

\* What ends in a word that has a suffix ends in the suffix.
LEMMA EndsInSuffix ==
  ASSUME NEW s, NEW a \in Seq(Char), NEW w \in Seq(Char), NEW e \in Nat,
         EndsAt(s, e, w), EndsAt(w, Len(w), a)
  PROVE  EndsAt(s, e, a)
<1>1. PICK m \in Nat, n \in Nat : m = Len(a) /\ n = Len(w)
  BY LenProperties
<1>2. m <= n /\ n <= e
  BY <1>1 DEF EndsAt
<1>3. ASSUME NEW k \in 1 .. m PROVE s[e - m + k] = a[k]
  <2>1. n - m + k \in 1 .. n /\ e - n + (n - m + k) = e - m + k
    BY <1>2
  <2>2. s[e - n + (n - m + k)] = w[n - m + k]
    BY <1>1, <2>1 DEF EndsAt
  <2>3. w[n - m + k] = a[k]
    BY <1>1 DEF EndsAt
  <2> QED
    BY <2>1, <2>2, <2>3
<1> QED
  BY <1>1, <1>2, <1>3 DEF EndsAt

\* strstr finds the first place of a sequence that is not empty.
LEMMA FirstAtIs ==
  ASSUME NEW t \in Seq(Char), NEW s \in Seq(Char), s # <<>>, NEW loc, loc = FirstAt(s, t)
  PROVE  /\ loc \in 0 .. Len(t) - Len(s) + 1 \/ loc = 0
         /\ loc = 0 => \A i \in 1 .. Len(t) - Len(s) + 1 :
                         SubSeq(t, i, i + Len(s) - 1) # s
         /\ loc # 0 => /\ loc >= 1
                       /\ SubSeq(t, loc, loc + Len(s) - 1) = s
                       /\ \A i \in 1 .. loc - 1 : SubSeq(t, i, i + Len(s) - 1) # s
<1> DEFINE found == {i \in 1 .. Len(t) - Len(s) + 1 : SubSeq(t, i, i + Len(s) - 1) = s}
<1>1. Len(t) \in Nat /\ Len(s) \in Nat
  BY LenProperties
<1>2. loc = IF found = {} THEN 0 ELSE Min(found)
  BY DEF FirstAt
<1>3. CASE found = {}
  BY <1>1, <1>2, <1>3
<1>4. CASE found # {}
  <2>1. found \subseteq Nat
    BY <1>1
  <2>2. Min(found) \in found /\ \A y \in found : Min(found) <= y
    <3> HIDE DEF found
    <3> QED
      BY <1>4, <2>1, MinOfNats
  <2>3. loc = Min(found)
    BY <1>2, <1>4
  <2> HIDE DEF found
  <2>4. loc \in found /\ \A y \in found : loc <= y
    BY <2>2, <2>3
  <2>5. loc \in 1 .. Len(t) - Len(s) + 1 /\ SubSeq(t, loc, loc + Len(s) - 1) = s
    BY <2>4 DEF found
  <2>6. ASSUME NEW i \in 1 .. loc - 1 PROVE SubSeq(t, i, i + Len(s) - 1) # s
    <3>1. i \notin found /\ i \in 1 .. Len(t) - Len(s) + 1
      BY <1>1, <2>4, <2>5
    <3> QED
      BY <3>1 DEF found
  <2> QED
    BY <1>1, <2>5, <2>6
<1> QED
  BY <1>3, <1>4

\* The name of an alias with a blank behind it.
IsKey(key, a) == key = Append(a, Blank)

\* A name with a blank behind it stands where the name ends before a blank.
LEMMA KeyAt ==
  ASSUME NEW t \in Seq(Char), NEW a \in Seq(Char), NEW key, IsKey(key, a),
         NEW i \in 1 .. Len(t) - Len(a)
  PROVE  SubSeq(t, i, i + Len(a)) = key
           <=> t[i + Len(a)] = Blank /\ EndsAt(t, i + Len(a) - 1, a)
<1>1. PICK m \in Nat, n \in Nat : m = Len(a) /\ n = Len(t)
  BY LenProperties
<1>2. Blank \in Char
  BY SignsAreChars
<1>3. /\ key \in Seq(Char) /\ Len(key) = m + 1
      /\ \A k \in 1 .. m : key[k] = a[k]
      /\ key[m + 1] = Blank
  BY <1>1, <1>2, AppendProperties DEF IsKey
<1>4. i \in 1 .. Len(t) + 1 /\ i + m \in i - 1 .. Len(t) /\ i + m - i + 1 = m + 1 /\ i \in Nat
  BY <1>1
<1> DEFINE h == SubSeq(t, i, i + m)
<1>5. h \in Seq(Char) /\ Len(h) = m + 1 /\ \A k \in 1 .. m + 1 : h[k] = t[i + k - 1]
  BY ONLY t \in Seq(Char), <1>4, PartOf DEF h
<1> HIDE DEF h
<1>6. h = key <=> \A k \in 1 .. m + 1 : h[k] = key[k]
  BY <1>3, <1>5, SeqEqual
<1>7. h[m + 1] = t[i + m] /\ \A k \in 1 .. m : h[k] = t[i + m - 1 - m + k]
  <2>1. i + (m + 1) - 1 = i + m /\ m + 1 \in 1 .. m + 1
    BY <1>4
  <2>2. \A k \in 1 .. m : k \in 1 .. m + 1 /\ i + k - 1 = i + m - 1 - m + k
    BY <1>4
  <2> QED
    BY <1>5, <2>1, <2>2
<1>8. EndsAt(t, i + m - 1, a) <=> \A k \in 1 .. m : t[i + m - 1 - m + k] = a[k]
  <2>1. PICK e : e = i + m - 1
    OBVIOUS
  <2>2. m <= e
    BY <1>4, <2>1
  <2>3. EndsAt(t, e, a) <=> \A k \in 1 .. m : t[e - m + k] = a[k]
    <3>1. EndsAt(t, e, a)
            <=> (Len(a) <= e /\ \A k \in 1 .. Len(a) : t[e - Len(a) + k] = a[k])
      BY DEF EndsAt
    <3> QED
      BY ONLY <1>1, <2>2, <3>1, Zenon
  <2> QED
    BY <2>1, <2>3
<1>9. (\A k \in 1 .. m + 1 : h[k] = key[k])
        <=> h[m + 1] = key[m + 1] /\ \A k \in 1 .. m : h[k] = key[k]
  <2>1. \A k \in 1 .. m + 1 : k \in 1 .. m \/ k = m + 1
    OBVIOUS
  <2>2. m + 1 \in 1 .. m + 1 /\ \A k \in 1 .. m : k \in 1 .. m + 1
    OBVIOUS
  <2> QED
    BY <2>1, <2>2, Zenon
<1>10. h = key <=> t[i + m] = Blank /\ EndsAt(t, i + m - 1, a)
  BY ONLY <1>3, <1>6, <1>7, <1>8, <1>9
<1> QED
  BY ONLY <1>1, <1>10, Zenon DEF h

\* replace_alias finds the first name that ends before a blank (lines 80-92).
LEMMA KeyFound ==
  ASSUME NEW t \in Seq(Char), NEW a \in Seq(Char), NEW loc,
         loc = FirstAt(Append(a, Blank), t)
  PROVE  /\ loc \in Nat
         /\ loc = 0 => \A e \in 1 .. Len(t) : t[e] = Blank => ~EndsAt(t, e - 1, a)
         /\ loc # 0 => /\ loc + Len(a) <= Len(t)
                       /\ t[loc + Len(a)] = Blank
                       /\ EndsAt(t, loc + Len(a) - 1, a)
                       /\ \A e \in 1 .. loc + Len(a) - 1 :
                            t[e] = Blank => ~EndsAt(t, e - 1, a)
<1>1. PICK m \in Nat, n \in Nat : m = Len(a) /\ n = Len(t)
  BY LenProperties
<1>2. PICK key : key = Append(a, Blank)
  OBVIOUS
<1>3. key \in Seq(Char) /\ Len(key) = m + 1 /\ key # <<>>
  <2>1. Blank \in Char
    BY SignsAreChars
  <2>2. key \in Seq(Char) /\ Len(key) = m + 1
    BY <1>1, <1>2, <2>1, AppendProperties
  <2> QED
    BY <2>2
<1> DEFINE Stands(i) == SubSeq(t, i, i + m) = key
<1>4. /\ loc \in 0 .. n - (m + 1) + 1 \/ loc = 0
      /\ loc = 0 => \A i \in 1 .. n - (m + 1) + 1 : SubSeq(t, i, i + (m + 1) - 1) # key
      /\ loc # 0 => /\ loc >= 1
                    /\ SubSeq(t, loc, loc + (m + 1) - 1) = key
                    /\ \A i \in 1 .. loc - 1 : SubSeq(t, i, i + (m + 1) - 1) # key
  <2>1. loc = FirstAt(key, t)
    BY <1>2
  <2>2. /\ loc \in 0 .. Len(t) - Len(key) + 1 \/ loc = 0
        /\ loc = 0 => \A i \in 1 .. Len(t) - Len(key) + 1 : SubSeq(t, i, i + Len(key) - 1) # key
        /\ loc # 0 => /\ loc >= 1
                      /\ SubSeq(t, loc, loc + Len(key) - 1) = key
                      /\ \A i \in 1 .. loc - 1 : SubSeq(t, i, i + Len(key) - 1) # key
    BY <1>3, <2>1, FirstAtIs
  <2> QED
    BY ONLY <1>1, <1>3, <2>2, Zenon
<1>5. loc \in Nat /\ (loc # 0 => loc \in 1 .. n - m)
  BY <1>4
<1>6. \A i \in Nat : i + (m + 1) - 1 = i + m
  OBVIOUS
<1>7. ASSUME NEW i \in 1 .. n - m
      PROVE  Stands(i) <=> t[i + m] = Blank /\ EndsAt(t, i + m - 1, a)
  <2>1. i \in 1 .. Len(t) - Len(a)
    BY <1>1
  <2>2. SubSeq(t, i, i + Len(a)) = key
          <=> t[i + Len(a)] = Blank /\ EndsAt(t, i + Len(a) - 1, a)
    <3>1. IsKey(key, a)
      BY <1>2, Zenon DEF IsKey
    <3> QED
      BY ONLY t \in Seq(Char), a \in Seq(Char), <2>1, <3>1, KeyAt
  <2> QED
    BY ONLY <1>1, <2>2, Zenon
<1>8. /\ loc = 0 => \A i \in 1 .. n - m : ~Stands(i)
      /\ loc # 0 => Stands(loc) /\ \A i \in 1 .. loc - 1 : ~Stands(i)
  <2>1. n - (m + 1) + 1 = n - m
    OBVIOUS
  <2>2. \A i \in 1 .. n - m : i \in Nat
    OBVIOUS
  <2>3. loc \in Nat /\ \A i \in 1 .. loc - 1 : i \in Nat
    BY <1>5
  <2> QED
    BY <1>4, <1>6, <2>1, <2>2, <2>3
<1> HIDE DEF Stands
<1>9. ASSUME NEW e \in 1 .. n, t[e] = Blank, EndsAt(t, e - 1, a)
      PROVE  e - m \in 1 .. n - m /\ Stands(e - m)
  <2>1. m <= e - 1
    BY <1>1, <1>9 DEF EndsAt
  <2>2. e - m \in 1 .. n - m /\ e - m + m = e
    BY <2>1
  <2> QED
    BY <1>7, <1>9, <2>2
<1>10. CASE loc = 0
  BY <1>1, <1>5, <1>8, <1>9, <1>10
<1>11. CASE loc # 0
  <2>1. loc \in 1 .. n - m /\ Stands(loc) /\ \A i \in 1 .. loc - 1 : ~Stands(i)
    BY <1>5, <1>8, <1>11
  <2>2. t[loc + m] = Blank /\ EndsAt(t, loc + m - 1, a) /\ loc + m <= n
    BY <1>7, <2>1
  <2>3. ASSUME NEW e \in 1 .. loc + m - 1, t[e] = Blank PROVE ~EndsAt(t, e - 1, a)
    <3>1. e \in 1 .. n
      BY <2>1
    <3>2. EndsAt(t, e - 1, a) => e - m \in 1 .. n - m /\ Stands(e - m)
      BY <1>9, <2>3, <3>1
    <3>3. e - m \in 1 .. n - m => e - m \in 1 .. loc - 1
      BY <2>1
    <3> QED
      BY <2>1, <3>2, <3>3
  <2> QED
    BY <1>1, <1>5, <1>11, <2>2, <2>3
<1> QED
  BY <1>10, <1>11

\* Where the words stand that the split has read in front of place i, and the
\* one it is reading.
WordsEnd(g, s, i) ==
  /\ \A m \in 1 .. Len(g[i].words) :
       \E e \in 1 .. i : s[e] = Blank /\ EndsAt(s, e - 1, g[i].words[m])
  /\ EndsAt(s, i, g[i].word)
  /\ i > Len(g[i].word) => s[i - Len(g[i].word)] = Blank

\* Every word of a split stands in the text, with a blank behind it unless it
\* is the one being read.
LEMMA WordsStand ==
  ASSUME NEW s \in Seq(Char), NEW g, IsScan(g, s)
  PROVE  \A i \in 0 .. Len(s) : WordsEnd(g, s, i)
<1> DEFINE n == Len(s)
           T == {i \in 0 .. n : WordsEnd(g, s, i)}
<1>1. /\ n \in Nat
      /\ g[0] = Unscanned
      /\ \A i \in 0 .. n : g[i].words \in Seq(Word) /\ g[i].word \in Seq(Char)
      /\ \A i \in 1 .. n : g[i] = PutChar(g[i - 1], s[i])
  BY LenProperties DEF IsScan, Scans, Solid
<1>2. 0 \in T
  <2>1. g[0].words = <<>> /\ g[0].word = <<>>
    BY <1>1 DEF Unscanned
  <2>2. WordsEnd(g, s, 0)
    BY <2>1 DEF WordsEnd, EndsAt
  <2> QED
    BY <1>1, <2>2
<1>3. ASSUME NEW i \in 1 .. n, i - 1 \in T PROVE i \in T
  <2> DEFINE x == g[i - 1]
             y == g[i]
  <2>1. /\ WordsEnd(g, s, i - 1) /\ y = PutChar(x, s[i]) /\ i - 1 \in 0 .. n
        /\ x.words \in Seq(Word) /\ x.word \in Seq(Char)
    BY <1>1, <1>3
  <2>2. CASE s[i] = Blank
    <3>1. y.words = EndWord(x) /\ y.word = <<>>
      BY <2>1, <2>2 DEF PutChar
    <3>2. \A m \in 1 .. Len(x.words) :
            \E e \in 1 .. i : s[e] = Blank /\ EndsAt(s, e - 1, x.words[m])
      BY <2>1 DEF WordsEnd
    <3>3. EndsAt(s, i - 1, x.word)
      BY <2>1 DEF WordsEnd
    <3> HIDE DEF x, y
    <3>4. \A m \in 1 .. Len(y.words) :
            \E e \in 1 .. i : s[e] = Blank /\ EndsAt(s, e - 1, y.words[m])
      <4>1. CASE x.word = <<>>
        BY <3>1, <3>2, <4>1 DEF EndWord
      <4>2. CASE x.word # <<>>
        <5>1. y.words = Append(x.words, x.word)
          BY <3>1, <4>2 DEF EndWord
        <5>2. Len(x.words) \in Nat
          BY <2>1, LenProperties
        <5>3. PICK ws \in Seq(Seq(Char)) : ws = x.words
          <6>1. Word \subseteq Seq(Char)
            BY DEF Word, Solid
          <6> QED
            BY <2>1, <6>1, SeqMonotonic
        <5>4. /\ Len(y.words) = Len(x.words) + 1
              /\ \A m \in 1 .. Len(x.words) : y.words[m] = x.words[m]
              /\ y.words[Len(x.words) + 1] = x.word
          BY <2>1, <5>1, <5>3, AppendProperties
        <5>5. ASSUME NEW m \in 1 .. Len(y.words)
              PROVE  \E e \in 1 .. i : s[e] = Blank /\ EndsAt(s, e - 1, y.words[m])
          <6>1. CASE m \in 1 .. Len(x.words)
            BY <3>2, <5>4, <6>1
          <6>2. CASE m = Len(x.words) + 1
            <7>1. y.words[m] = x.word /\ i \in 1 .. i
              BY <5>4, <6>2
            <7> QED
              BY <2>2, <3>3, <7>1
          <6> QED
            BY <5>2, <5>4, <6>1, <6>2
        <5> QED
          BY <5>5
      <4> QED
        BY <4>1, <4>2
    <3>5. EndsAt(s, i, y.word) /\ (i > Len(y.word) => s[i - Len(y.word)] = Blank)
      <4>1. Len(y.word) = 0 /\ i - 0 = i
        BY <3>1
      <4> QED
        BY <2>2, <4>1 DEF EndsAt
    <3> QED
      BY <1>1, <3>4, <3>5 DEF WordsEnd, y
  <2>3. CASE s[i] # Blank
    <3>1. y.words = x.words /\ y.word = Append(x.word, s[i])
      BY <2>1, <2>3 DEF PutChar
    <3>2. /\ \A m \in 1 .. Len(x.words) :
               \E e \in 1 .. i : s[e] = Blank /\ EndsAt(s, e - 1, x.words[m])
          /\ EndsAt(s, i - 1, x.word)
          /\ i - 1 > Len(x.word) => s[i - 1 - Len(x.word)] = Blank
      <4>1. /\ \A m \in 1 .. Len(x.words) :
                 \E e \in 1 .. i - 1 : s[e] = Blank /\ EndsAt(s, e - 1, x.words[m])
            /\ EndsAt(s, i - 1, x.word)
            /\ i - 1 > Len(x.word) => s[i - 1 - Len(x.word)] = Blank
        BY <2>1, Zenon DEF WordsEnd
      <4>2. \A e \in 1 .. i - 1 : e \in 1 .. i
        OBVIOUS
      <4> QED
        BY <4>1, <4>2, Zenon
    <3>3. s[i] \in Char
      BY <1>1, ElementOfSeq
    <3>4. PICK p \in Nat : p = Len(x.word)
      BY <2>1, LenProperties
    <3> HIDE DEF x, y
    <3>5. /\ Len(y.word) = p + 1
          /\ \A k \in 1 .. p : y.word[k] = x.word[k]
          /\ y.word[p + 1] = s[i]
      BY <2>1, <3>1, <3>3, <3>4, AppendProperties
    <3>6. p <= i - 1 /\ \A k \in 1 .. p : s[i - 1 - p + k] = x.word[k]
      BY <3>2, <3>4 DEF EndsAt
    <3>7. ASSUME NEW k \in 1 .. p + 1 PROVE s[i - (p + 1) + k] = y.word[k]
      <4>1. CASE k \in 1 .. p
        <5>1. i - (p + 1) + k = i - 1 - p + k
          OBVIOUS
        <5> QED
          BY <3>5, <3>6, <4>1, <5>1
      <4>2. CASE k = p + 1
        <5>1. i - (p + 1) + k = i
          BY <4>2
        <5> QED
          BY <3>5, <4>2, <5>1
      <4> QED
        BY <4>1, <4>2
    <3>8. EndsAt(s, i, y.word)
      BY <3>5, <3>6, <3>7 DEF EndsAt
    <3>9. i > Len(y.word) => s[i - Len(y.word)] = Blank
      <4>1. i - (p + 1) = i - 1 - p /\ (i > p + 1 => i - 1 > p)
        OBVIOUS
      <4> QED
        BY <3>2, <3>4, <3>5, <4>1
    <3>10. WordsEnd(g, s, i)
      BY <3>1, <3>2, <3>8, <3>9, Zenon DEF WordsEnd, y
    <3> QED
      BY <1>1, <3>10
  <2> QED
    BY <2>2, <2>3
<1> HIDE DEF T
<1>4. \A i \in 0 .. n : i \in T
  BY <1>1, <1>2, <1>3, Steps
<1> QED
  BY <1>4 DEF T

\* The split of the beginning of a text is the beginning of its split.
LEMMA WordsOfPrefix ==
  ASSUME NEW s \in Seq(Char), NEW g, IsScan(g, s), NEW n \in 0 .. Len(s)
  PROVE  Words(SubSeq(s, 1, n)) = EndWord(g[n]) /\ SubSeq(s, 1, n) \in Seq(Char)
<1> DEFINE p == SubSeq(s, 1, n)
           h == [i \in 0 .. n |-> g[i]]
<1>1. 1 \in 1 .. Len(s) + 1 /\ n \in 1 - 1 .. Len(s) /\ n - 1 + 1 = n /\ n \in Nat /\ Len(s) \in Nat
  BY LenProperties
<1>2. p \in Seq(Char) /\ Len(p) = n /\ \A k \in 1 .. n : p[k] = s[k]
  <2>1. \A k \in 1 .. n : 1 + k - 1 = k
    BY <1>1
  <2>2. p \in Seq(Char) /\ Len(p) = n /\ \A k \in 1 .. n : p[k] = s[1 + k - 1]
    BY <1>1, PartOf
  <2> QED
    BY <2>1, <2>2
<1>3. /\ \A i \in 0 .. n : g[i] \in Scans
      /\ g[0] = Unscanned
      /\ \A i \in 1 .. n : g[i] = PutChar(g[i - 1], s[i])
  <2>1. /\ g \in [0 .. Len(s) -> Scans]
        /\ g[0] = Unscanned
        /\ \A i \in 1 .. Len(s) : g[i] = PutChar(g[i - 1], s[i])
    BY Zenon DEF IsScan
  <2>2. /\ \A i \in 0 .. n : i \in 0 .. Len(s)
        /\ \A i \in 1 .. n : i \in 1 .. Len(s)
    BY <1>1
  <2> QED
    BY ONLY <2>1, <2>2
<1> HIDE DEF p
<1>4. IsScan(h, p)
  BY <1>1, <1>2, <1>3 DEF IsScan
<1>5. h[n] = g[n]
  BY <1>1
<1> HIDE DEF h
<1>6. Words(p) = EndWord(h[Len(p)])
  BY <1>2, <1>4, ScanIs
<1> QED
  BY <1>2, <1>5, <1>6 DEF p

\* A sequence is what stands before a place, at it and behind it.
LEMMA PartsOf ==
  ASSUME NEW S, NEW s \in Seq(S), NEW j \in 1 .. Len(s)
  PROVE  /\ SubSeq(s, 1, j - 1) \in Seq(S) /\ SubSeq(s, j + 1, Len(s)) \in Seq(S)
         /\ Len(SubSeq(s, 1, j - 1)) = j - 1 /\ Len(SubSeq(s, j + 1, Len(s))) = Len(s) - j
         /\ \A i \in 1 .. j - 1 : SubSeq(s, 1, j - 1)[i] = s[i]
         /\ \A i \in 1 .. Len(s) - j : SubSeq(s, j + 1, Len(s))[i] = s[j + i]
         /\ s = SubSeq(s, 1, j - 1) \o <<s[j]>> \o SubSeq(s, j + 1, Len(s))
<1> DEFINE a == SubSeq(s, 1, j - 1)
           b == SubSeq(s, j + 1, Len(s))
<1>1. PICK n \in Nat : n = Len(s)
  BY LenProperties
<1>2. s[j] \in S
  BY ElementOfSeq
<1>3. a \in Seq(S) /\ Len(a) = j - 1 /\ \A i \in 1 .. j - 1 : a[i] = s[i]
  <2>1. 1 \in 1 .. Len(s) + 1 /\ j - 1 \in 1 - 1 .. Len(s) /\ j - 1 - 1 + 1 = j - 1
    BY <1>1
  <2>2. \A i \in 1 .. j - 1 : 1 + i - 1 = i
    BY <1>1
  <2>3. a \in Seq(S) /\ Len(a) = j - 1 /\ \A i \in 1 .. j - 1 : a[i] = s[1 + i - 1]
    BY <2>1, PartOf
  <2> QED
    BY <2>2, <2>3
<1>4. b \in Seq(S) /\ Len(b) = n - j /\ \A i \in 1 .. n - j : b[i] = s[j + i]
  <2>1. j + 1 \in 1 .. Len(s) + 1 /\ Len(s) \in j + 1 - 1 .. Len(s) /\ Len(s) - (j + 1) + 1 = n - j
    BY <1>1
  <2>2. \A i \in 1 .. n - j : j + 1 + i - 1 = j + i
    BY <1>1
  <2>3. b \in Seq(S) /\ Len(b) = n - j /\ \A i \in 1 .. n - j : b[i] = s[j + 1 + i - 1]
    BY <2>1, PartOf
  <2> QED
    BY <2>2, <2>3
<1> HIDE DEF a, b
<1>5. PICK c : c = <<s[j]>>
  OBVIOUS
<1>6. c \in Seq(S) /\ Len(c) = 1 /\ c[1] = s[j]
  BY <1>2, <1>5
<1> DEFINE ac == a \o c
           u == ac \o b
<1>7. /\ ac \in Seq(S) /\ Len(ac) = j
      /\ \A i \in 1 .. j : ac[i] = IF i <= j - 1 THEN a[i] ELSE c[i - (j - 1)]
  <2>1. /\ ac \in Seq(S) /\ Len(ac) = Len(a) + Len(c)
        /\ \A i \in 1 .. Len(a) + Len(c) : ac[i] = IF i <= Len(a) THEN a[i] ELSE c[i - Len(a)]
    BY <1>3, <1>6, ConcatProperties
  <2> HIDE DEF ac
  <2>2. j - 1 + 1 = j
    BY <1>1
  <2> QED
    BY <1>3, <1>6, <2>1, <2>2
<1>8. ac \in Seq(S) /\ Len(ac) = j /\ \A i \in 1 .. j : ac[i] = s[i]
  <2> HIDE DEF ac
  <2>1. ASSUME NEW i \in 1 .. j PROVE ac[i] = s[i]
    <3>1. CASE i = j
      <4>1. ~(i <= j - 1) /\ i - (j - 1) = 1
        BY <1>1, <3>1
      <4> QED
        BY <1>6, <1>7, <3>1, <4>1
    <3>2. CASE i # j
      <4>1. i <= j - 1 /\ i \in 1 .. j - 1
        BY <1>1, <3>2
      <4> QED
        BY <1>3, <1>7, <4>1
    <3> QED
      BY <3>1, <3>2
  <2> QED
    BY <1>7, <2>1
<1> HIDE DEF ac
<1>9. /\ u \in Seq(S) /\ Len(u) = n
      /\ \A i \in 1 .. n : u[i] = IF i <= j THEN ac[i] ELSE b[i - j]
  <2>1. /\ u \in Seq(S) /\ Len(u) = Len(ac) + Len(b)
        /\ \A i \in 1 .. Len(ac) + Len(b) : u[i] = IF i <= Len(ac) THEN ac[i] ELSE b[i - Len(ac)]
    BY <1>4, <1>8, ConcatProperties
  <2> HIDE DEF u
  <2>2. j + (n - j) = n
    BY <1>1
  <2> QED
    BY <1>4, <1>8, <2>1, <2>2
<1> HIDE DEF u
<1>10. ASSUME NEW i \in 1 .. n PROVE u[i] = s[i]
  <2>1. CASE i <= j
    <3>1. i \in 1 .. j
      BY <1>1, <2>1
    <3> QED
      BY <1>8, <1>9, <2>1, <3>1
  <2>2. CASE ~(i <= j)
    <3>1. i - j \in 1 .. n - j /\ j + (i - j) = i
      BY <1>1, <2>2
    <3> QED
      BY <1>4, <1>9, <2>2, <3>1
  <2> QED
    BY <2>1, <2>2
<1>11. s = u
  BY <1>1, <1>9, <1>10, SeqEqual
<1> QED
  BY <1>1, <1>3, <1>4, <1>5, <1>11 DEF a, b, u, ac

\* The two without the place.
LEMMA SidesOf ==
  ASSUME NEW S, NEW s \in Seq(S), NEW j \in 1 .. Len(s), NEW a, NEW b,
         a = SubSeq(s, 1, j - 1), b = SubSeq(s, j + 1, Len(s))
  PROVE  /\ a \in Seq(S) /\ b \in Seq(S) /\ Len(a) = j - 1 /\ Len(b) = Len(s) - j
         /\ \A i \in 1 .. j - 1 : a[i] = s[i]
         /\ \A i \in 1 .. Len(s) - j : b[i] = s[j + i]
  BY PartsOf

\* The words of a text are those before and those behind any blank of it.
LEMMA WordsAround ==
  ASSUME NEW s \in Seq(Char), NEW j \in 1 .. Len(s), s[j] = Blank
  PROVE  Words(s) = Words(SubSeq(s, 1, j - 1)) \o Words(SubSeq(s, j + 1, Len(s)))
<1>1. PICK a \in Seq(Char), b \in Seq(Char) :
        a = SubSeq(s, 1, j - 1) /\ b = SubSeq(s, j + 1, Len(s)) /\ s = a \o <<Blank>> \o b
  <2>1. /\ SubSeq(s, 1, j - 1) \in Seq(Char) /\ SubSeq(s, j + 1, Len(s)) \in Seq(Char)
        /\ s = SubSeq(s, 1, j - 1) \o <<s[j]>> \o SubSeq(s, j + 1, Len(s))
    BY PartsOf, Zenon
  <2> QED
    BY ONLY <2>1, s[j] = Blank, Zenon
<1>2. Words(a \o <<Blank>> \o b) = Words(a) \o Words(b)
  BY WordsApart
<1> QED
  BY <1>1, <1>2

-----------------------------------------------------------------------------
(***************************************************************************)
(* Aliases: what replaces a word                                           *)
(***************************************************************************)
\* An entry of alias.txt: a name without a blank, which may be empty, and a text.
Entries == [alias : Solid, comm : Seq(Char)]

\* Where no word ends in the alias nothing is replaced.
LEMMA ExpandNothing ==
  ASSUME NEW ws \in Seq(Word), NEW entry \in Entries,
         \A m \in 1 .. Len(ws) : ~EndsAt(ws[m], Len(ws[m]), entry.alias)
  PROVE  WordExpand(ws, entry) = ws
<1> DEFINE found == {i \in 1 .. Len(ws) : IsSuffix(entry.alias, ws[i])}
           i == SelectInSeq(ws, LAMBDA w : IsSuffix(entry.alias, w))
<1>1. entry.alias \in Seq(Char)
  BY DEF Entries, Word, Solid
<1>2. \A m \in 1 .. Len(ws) : ws[m] \in Seq(Char)
  BY ElementOfSeq DEF Word, Solid
<1>3. \A m \in 1 .. Len(ws) : ~IsSuffix(entry.alias, ws[m])
  BY <1>1, <1>2, SuffixIs
<1>4. found = {}
  BY <1>3
<1>5. i = IF found # {} THEN Min(found) ELSE 0
  BY Zenon DEF SelectInSeq
<1>6. i = 0
  BY <1>4, <1>5
<1> QED
  BY <1>6, Zenon DEF WordExpand

\* Of the words that end in the alias the first is replaced, if it is the alias.
LEMMA ExpandAt ==
  ASSUME NEW ws \in Seq(Word), NEW entry \in Entries, NEW k \in 1 .. Len(ws),
         \A m \in 1 .. k - 1 : ~EndsAt(ws[m], Len(ws[m]), entry.alias),
         EndsAt(ws[k], Len(ws[k]), entry.alias)
  PROVE  WordExpand(ws, entry) =
           IF ws[k] # entry.alias THEN ws
           ELSE SubSeq(ws, 1, k - 1) \o Words(entry.comm) \o SubSeq(ws, k + 1, Len(ws))
<1> DEFINE found == {i \in 1 .. Len(ws) : IsSuffix(entry.alias, ws[i])}
           i == SelectInSeq(ws, LAMBDA w : IsSuffix(entry.alias, w))
<1>1. entry.alias \in Seq(Char) /\ Len(ws) \in Nat
  BY LenProperties DEF Entries, Word, Solid
<1>2. \A m \in 1 .. Len(ws) : ws[m] \in Seq(Char)
  BY ElementOfSeq DEF Word, Solid
<1>3. /\ \A m \in 1 .. k - 1 : ~IsSuffix(entry.alias, ws[m])
      /\ IsSuffix(entry.alias, ws[k])
  <2>1. \A m \in 1 .. k - 1 : m \in 1 .. Len(ws)
    BY <1>1
  <2> QED
    BY <1>1, <1>2, <2>1, SuffixIs
<1>4. k \in found /\ \A m \in found : m >= k
  BY <1>1, <1>3
<1>5. i = IF found # {} THEN Min(found) ELSE 0
  BY Zenon DEF SelectInSeq
<1>6. Min(found) \in found /\ \A y \in found : Min(found) <= y
  <2>1. found \subseteq Nat /\ found # {}
    BY <1>1, <1>4
  <2> HIDE DEF found
  <2> QED
    BY <2>1, MinOfNats
<1>7. Min(found) = k
  <2>1. Min(found) \in Nat
    BY <1>1, <1>6
  <2> HIDE DEF found
  <2> QED
    BY <1>4, <1>6, <2>1
<1>8. i = k
  <2> HIDE DEF found
  <2> QED
    BY <1>4, <1>5, <1>7
<1> HIDE DEF i, found
<1>9. WordExpand(ws, entry) =
        IF i = 0 \/ (i > 0 /\ ws[i] # entry.alias) THEN ws
        ELSE SubSeq(ws, 1, i - 1) \o Words(entry.comm) \o SubSeq(ws, i + 1, Len(ws))
  BY Zenon DEF WordExpand, i
<1>10. k # 0 /\ k > 0
  OBVIOUS
<1> QED
  BY <1>8, <1>9, <1>10

\* An element between two sequences.
LEMMA Between ==
  ASSUME NEW S, NEW u \in Seq(S), NEW w \in S, NEW v \in Seq(S),
         NEW ws, ws = Append(u, w) \o v
  PROVE  /\ ws \in Seq(S)
         /\ Len(ws) = Len(u) + 1 + Len(v)
         /\ \A i \in 1 .. Len(u) : ws[i] = u[i]
         /\ ws[Len(u) + 1] = w
         /\ \A i \in 1 .. Len(v) : ws[Len(u) + 1 + i] = v[i]
<1>1. PICK m \in Nat, n \in Nat : m = Len(u) /\ n = Len(v)
  BY LenProperties
<1>2. PICK a : a = Append(u, w)
  OBVIOUS
<1>3. /\ a \in Seq(S) /\ Len(a) = m + 1 /\ a[m + 1] = w
      /\ \A i \in 1 .. m : a[i] = u[i]
  BY <1>1, <1>2, AppendProperties
<1>4. /\ ws \in Seq(S) /\ Len(ws) = m + 1 + n
      /\ \A i \in 1 .. m + 1 + n : ws[i] = IF i <= m + 1 THEN a[i] ELSE v[i - (m + 1)]
  <2> DEFINE c == a \o v
  <2>1. /\ c \in Seq(S) /\ Len(c) = Len(a) + Len(v)
        /\ \A i \in 1 .. Len(a) + Len(v) : c[i] = IF i <= Len(a) THEN a[i] ELSE v[i - Len(a)]
    BY <1>3, ConcatProperties
  <2>2. ws = c
    BY <1>2, Zenon
  <2> HIDE DEF c
  <2> QED
    BY <1>1, <1>3, <2>1, <2>2
<1>5. \A i \in 1 .. m : ws[i] = u[i]
  <2> TAKE i \in 1 .. m
  <2>1. i \in 1 .. m + 1 + n /\ i <= m + 1
    OBVIOUS
  <2> QED
    BY <1>3, <1>4, <2>1
<1>6. ws[m + 1] = w
  BY <1>3, <1>4
<1>7. \A i \in 1 .. n : ws[m + 1 + i] = v[i]
  <2> TAKE i \in 1 .. n
  <2>1. PICK q \in Nat : q = m + 1 + i
    OBVIOUS
  <2>2. q \in 1 .. m + 1 + n /\ ~(q <= m + 1) /\ q - (m + 1) = i
    BY <2>1
  <2>3. ws[q] = v[i]
    BY <1>4, <2>2
  <2> QED
    BY <2>1, <2>3
<1> QED
  BY <1>1, <1>4, <1>5, <1>6, <1>7

\* What stands before and behind it.
LEMMA BesidesIs ==
  ASSUME NEW S, NEW u \in Seq(S), NEW w \in S, NEW v \in Seq(S),
         NEW ws, ws = Append(u, w) \o v
  PROVE  SubSeq(ws, 1, Len(u)) = u /\ SubSeq(ws, Len(u) + 2, Len(ws)) = v
<1>1. PICK m \in Nat, n \in Nat : m = Len(u) /\ n = Len(v)
  BY LenProperties
<1>2. /\ ws \in Seq(S) /\ Len(ws) = m + 1 + n
      /\ \A i \in 1 .. m : ws[i] = u[i]
      /\ \A i \in 1 .. n : ws[m + 1 + i] = v[i]
  BY <1>1, Between
<1>3. m + 1 \in 1 .. Len(ws) /\ m + 1 - 1 = m /\ m + 1 + 1 = m + 2 /\ Len(ws) - (m + 1) = n
  BY <1>2
<1>4. PICK a, b : a = SubSeq(ws, 1, m) /\ b = SubSeq(ws, m + 2, Len(ws))
  OBVIOUS
<1>5. /\ a \in Seq(S) /\ b \in Seq(S) /\ Len(a) = m /\ Len(b) = n
      /\ \A i \in 1 .. m : a[i] = ws[i]
      /\ \A i \in 1 .. n : b[i] = ws[m + 1 + i]
  <2>1. PICK j \in 1 .. Len(ws) : j = m + 1
    BY <1>3
  <2>2. j - 1 = m /\ j + 1 = m + 2 /\ Len(ws) - j = n
    BY <1>3, <2>1
  <2>3. /\ a = SubSeq(ws, 1, j - 1) /\ b = SubSeq(ws, j + 1, Len(ws))
        /\ Len(ws) \in Nat /\ j + n = Len(ws)
    BY <1>1, <1>2, <1>4, <2>1, <2>2
  <2>4. /\ a \in Seq(S) /\ b \in Seq(S) /\ Len(a) = j - 1 /\ Len(b) = Len(ws) - j
        /\ \A i \in 1 .. j - 1 : a[i] = ws[i]
        /\ \A i \in 1 .. Len(ws) - j : b[i] = ws[j + i]
    BY ONLY <1>2, <2>3, SidesOf
  <2> QED
    BY ONLY <2>1, <2>2, <2>4, Zenon
<1>6. a = u /\ b = v
  <2>1. \A i \in 1 .. m : a[i] = u[i]
    BY <1>2, <1>5
  <2>2. \A i \in 1 .. n : b[i] = v[i]
    BY <1>2, <1>5
  <2> QED
    BY <1>1, <1>5, <2>1, <2>2, SeqEqual
<1> QED
  BY <1>1, <1>4, <1>6

\* A text that is empty or ends in a blank lets what follows begin a word.
Begins(s) == s = <<>> \/ \E u \in Seq(Char) : s = Append(u, Blank)

\* What follows it is split by itself.
LEMMA WordsBegin ==
  ASSUME NEW s \in Seq(Char), NEW t \in Seq(Char), Begins(s)
  PROVE  Words(s \o t) = Words(s) \o Words(t)
<1>1. Words(t) \in Seq(Word)
  BY ScanOf, ScanIs
<1>2. CASE s = <<>>
  <2>1. s \o t = t
    BY <1>2, ConcatEmptySeq
  <2>2. Words(s) \o Words(t) = Words(t)
    BY <1>1, <1>2, WordsOfNothing, ConcatEmptySeq
  <2> QED
    BY <2>1, <2>2
<1>3. ASSUME NEW u \in Seq(Char), s = Append(u, Blank)
      PROVE  Words(s \o t) = Words(s) \o Words(t)
  <2>1. s = u \o <<Blank>>
    BY <1>3, AppendIsConcat, SignsAreChars
  <2>2. Words(u \o <<Blank>> \o t) = Words(u) \o Words(t)
    BY WordsApart
  <2>3. Words(s) = Words(u)
    BY <1>3, WordsBeforeBlank
  <2> QED
    BY <2>1, <2>2, <2>3
<1> QED
  BY <1>2, <1>3 DEF Begins

\* What replace leaves of a text: p before a name, s behind it, c in its place.
Spliced(p, c, s) == p \o Append(c, Blank) \o s
InPlace(us, vs, ws) == us \o vs \o ws
Ends(s) == s = <<>> \/ s[Len(s)] = Blank

\* What is put into the place of a name (lines 80-92).
LEMMA WordsSpliced ==
  ASSUME NEW p \in Seq(Char), NEW c \in Seq(Char), NEW s \in Seq(Char), Begins(p), Ends(s),
         NEW r, r = Spliced(p, c, s)
  PROVE  /\ r \in Seq(Char) /\ Len(r) > 0 /\ r[Len(r)] = Blank
         /\ Words(r) = InPlace(Words(p), Words(c), Words(s))
<1>1. Blank \in Char
  BY SignsAreChars
<1>2. PICK x \in Nat, y \in Nat, n \in Nat : x = Len(p) /\ y = Len(c) /\ n = Len(s)
  BY LenProperties
<1> DEFINE k == Append(c, Blank)
           d == p \o c
           pk == p \o k
           u == pk \o s
<1>3. /\ k \in Seq(Char) /\ Len(k) = y + 1 /\ k[y + 1] = Blank
      /\ \A i \in 1 .. y : k[i] = c[i]
  BY <1>1, <1>2, AppendProperties
<1>4. /\ d \in Seq(Char) /\ Len(d) = x + y
      /\ \A i \in 1 .. x + y : d[i] = IF i <= x THEN p[i] ELSE c[i - x]
  <2>1. /\ d \in Seq(Char) /\ Len(d) = Len(p) + Len(c)
        /\ \A i \in 1 .. Len(p) + Len(c) : d[i] = IF i <= Len(p) THEN p[i] ELSE c[i - Len(p)]
    BY ConcatProperties
  <2> HIDE DEF d
  <2> QED
    BY <1>2, <2>1
<1>5. Words(d) = Words(p) \o Words(c)
  BY WordsBegin
<1>6. u = r
  BY Zenon DEF Spliced
<1> HIDE DEF k, d
<1>7. /\ pk \in Seq(Char) /\ Len(pk) = x + y + 1
      /\ \A i \in 1 .. x + y + 1 : pk[i] = IF i <= x THEN p[i] ELSE k[i - x]
  <2>1. /\ pk \in Seq(Char) /\ Len(pk) = Len(p) + Len(k)
        /\ \A i \in 1 .. Len(p) + Len(k) : pk[i] = IF i <= Len(p) THEN p[i] ELSE k[i - Len(p)]
    BY <1>3, ConcatProperties
  <2> HIDE DEF pk
  <2>2. x + (y + 1) = x + y + 1
    OBVIOUS
  <2> QED
    BY <1>2, <1>3, <2>1, <2>2
<1> HIDE DEF pk
<1>8. PICK q \in Nat : q = x + y + 1
  OBVIOUS
<1>9. /\ u \in Seq(Char) /\ Len(u) = q + n
      /\ \A i \in 1 .. q + n : u[i] = IF i <= q THEN pk[i] ELSE s[i - q]
  <2>1. /\ u \in Seq(Char) /\ Len(u) = Len(pk) + Len(s)
        /\ \A i \in 1 .. Len(pk) + Len(s) : u[i] = IF i <= Len(pk) THEN pk[i] ELSE s[i - Len(pk)]
    BY <1>7, ConcatProperties
  <2> HIDE DEF u
  <2> QED
    BY <1>2, <1>7, <1>8, <2>1
<1> HIDE DEF u
<1>10. q \in 1 .. Len(u) /\ u[q] = Blank
  <2>1. q \in 1 .. q + n /\ q \in 1 .. x + y + 1 /\ ~(q <= x) /\ q - x = y + 1
    BY <1>8
  <2>2. u[q] = pk[q] /\ pk[q] = k[q - x]
    BY <1>7, <1>9, <2>1
  <2> QED
    BY <1>3, <1>9, <2>1, <2>2
<1>11. PICK a, b : a = SubSeq(u, 1, q - 1) /\ b = SubSeq(u, q + 1, Len(u))
  OBVIOUS
<1>12. /\ a \in Seq(Char) /\ b \in Seq(Char) /\ Len(a) = q - 1 /\ Len(b) = Len(u) - q
       /\ \A i \in 1 .. q - 1 : a[i] = u[i]
       /\ \A i \in 1 .. Len(u) - q : b[i] = u[q + i]
  BY ONLY <1>9, <1>10, <1>11, SidesOf
<1>13. Words(u) = Words(a) \o Words(b)
  BY <1>9, <1>10, <1>11, WordsAround, Zenon
<1>14. a = d
  <2>1. Len(a) = x + y /\ q - 1 = x + y
    BY <1>8, <1>12
  <2>2. ASSUME NEW i \in 1 .. x + y PROVE a[i] = d[i]
    <3>1. i \in 1 .. q + n /\ i \in 1 .. x + y + 1 /\ i <= q
      BY <1>8
    <3>2. a[i] = u[i] /\ u[i] = pk[i]
      BY <1>9, <1>12, <2>1, <3>1
    <3>3. pk[i] = IF i <= x THEN p[i] ELSE k[i - x]
      BY <1>7, <3>1
    <3>4. ~(i <= x) => i - x \in 1 .. y
      OBVIOUS
    <3> QED
      BY <1>3, <1>4, <3>2, <3>3, <3>4
  <2> QED
    BY <1>4, <1>12, <2>1, <2>2, SeqEqual
<1>15. b = s
  <2>1. Len(u) - q = n
    BY <1>8, <1>9
  <2>2. ASSUME NEW i \in 1 .. n PROVE b[i] = s[i]
    <3>1. PICK j \in Nat : j = q + i
      OBVIOUS
    <3>2. j \in 1 .. q + n /\ ~(j <= q) /\ j - q = i
      BY <3>1
    <3>3. u[j] = s[i]
      BY <1>9, <3>2
    <3> QED
      BY <1>12, <2>1, <3>1, <3>3
  <2> QED
    BY <1>2, <1>12, <2>1, <2>2, SeqEqual
<1>16. u[Len(u)] = Blank /\ Len(u) > 0
  <2>1. CASE s = <<>>
    <3>1. n = 0
      BY <1>2, <2>1
    <3>2. Len(u) = q
      BY <1>9, <3>1
    <3> QED
      BY <1>8, <1>10, <3>2
  <2>2. CASE s # <<>> /\ s[Len(s)] = Blank
    <3>1. n # 0
      BY <1>2, <2>2, EmptySeq
    <3>2. q + n \in 1 .. q + n /\ ~(q + n <= q) /\ q + n - q = n /\ q + n > 0
      BY <1>8, <3>1
    <3> QED
      BY <1>2, <1>9, <2>2, <3>2
  <2> QED
    BY <2>1, <2>2 DEF Ends
<1>17. Words(r) = InPlace(Words(p), Words(c), Words(s))
  BY <1>5, <1>6, <1>13, <1>14, <1>15, Zenon DEF InPlace
<1> QED
  BY <1>6, <1>9, <1>16, <1>17

\* One alias: the entry of alias.txt does to the words of a text what it says of
\* words, when its name stands alone in the array (lines 77-127).
LEMMA ReplacedWords ==
  ASSUME NEW t \in Seq(Char), Len(t) > 0, t[Len(t)] = Blank,
         NEW entry \in Entries, entry.alias # <<>>,
         NEW r, r = ReplaceAlias(t, Append(entry.alias, Blank), entry.comm)
  PROVE  /\ r \in Seq(Char) /\ Len(r) > 0 /\ r[Len(r)] = Blank
         /\ Words(r) = WordExpand(Words(t), entry)
<1> DEFINE ws == Words(t)
<1>1. PICK n \in Nat : n = Len(t)
  BY LenProperties
<1>2. PICK a \in Word, c \in Seq(Char) : a = entry.alias /\ c = entry.comm
  BY DEF Entries, Word
<1>3. a \in Seq(Char) /\ a # <<>> /\ \A k \in 1 .. Len(a) : a[k] # Blank
  BY DEF Word, Solid
<1>4. PICK m \in Nat : m = Len(a) /\ m >= 1
  <2>1. Len(a) \in Nat /\ Len(a) # 0
    BY <1>3, EmptySeq, LenProperties
  <2> QED
    BY <2>1
<1>5. PICK g : IsScan(g, t)
  BY ScanOf
<1>6. /\ ws = EndWord(g[n]) /\ ws \in Seq(Word)
      /\ \A i \in 0 .. n : /\ WordsEnd(g, t, i)
                           /\ g[i].words \in Seq(Word) /\ g[i].word \in Solid
      /\ g[n] = PutChar(g[n - 1], t[n])
  <2>1. ws = EndWord(g[n]) /\ ws \in Seq(Word)
    BY <1>1, <1>5, ScanIs
  <2>2. \A i \in 0 .. n : WordsEnd(g, t, i)
    BY <1>1, <1>5, WordsStand
  <2>3. \A i \in 0 .. n : g[i].words \in Seq(Word) /\ g[i].word \in Solid
    BY <1>1, <1>5 DEF IsScan, Scans
  <2>4. g[n] = PutChar(g[n - 1], t[n])
    BY <1>1, <1>5 DEF IsScan
  <2> QED
    BY <2>1, <2>2, <2>3, <2>4
<1> HIDE DEF ws
<1>7. ws = g[n].words
  <2>1. g[n] = [words |-> EndWord(g[n - 1]), word |-> <<>>]
    BY <1>1, <1>6 DEF PutChar
  <2> QED
    BY <1>6, <2>1 DEF EndWord
<1>8. PICK loc : loc = FirstAt(Append(a, Blank), t)
  OBVIOUS
<1>9. /\ loc \in Nat
      /\ loc = 0 => \A e \in 1 .. n : t[e] = Blank => ~EndsAt(t, e - 1, a)
      /\ loc # 0 => /\ loc + m <= n /\ t[loc + m] = Blank
                    /\ EndsAt(t, loc + m - 1, a)
                    /\ \A e \in 1 .. loc + m - 1 : t[e] = Blank => ~EndsAt(t, e - 1, a)
  BY <1>1, <1>3, <1>4, <1>8, KeyFound
\* A word that ends before a blank where the alias does not end has no such suffix.
<1>10. ASSUME NEW i \in 0 .. n, \A e \in 1 .. i : t[e] = Blank => ~EndsAt(t, e - 1, a),
              NEW k \in 1 .. Len(g[i].words)
       PROVE  ~EndsAt(g[i].words[k], Len(g[i].words[k]), a)
  <2>1. PICK e \in 1 .. i : t[e] = Blank /\ EndsAt(t, e - 1, g[i].words[k])
    <3>1. WordsEnd(g, t, i)
      BY <1>6
    <3> QED
      BY ONLY <3>1, k \in 1 .. Len(g[i].words), Zenon DEF WordsEnd
  <2>2. g[i].words[k] \in Seq(Char)
    <3>1. PICK us \in Seq(Word) : us = g[i].words
      BY <1>6
    <3>2. us[k] \in Word
      BY ONLY k \in 1 .. Len(g[i].words), <3>1, ElementOfSeq
    <3> QED
      BY <3>1, <3>2 DEF Word, Solid
  <2>3. e - 1 \in Nat
    OBVIOUS
  <2>4. EndsAt(g[i].words[k], Len(g[i].words[k]), a) => EndsAt(t, e - 1, a)
    BY <1>3, <2>1, <2>2, <2>3, EndsInSuffix
  <2> QED
    BY <1>10, <2>1, <2>4
<1>11. r = IF loc = 0 THEN t
           ELSE IF loc > 1 /\ t[loc - 1] # Blank THEN t
           ELSE SubSeq(t, 1, loc - 1) \o Append(c, Blank)
                  \o SubSeq(t, loc + Len(Append(a, Blank)), Len(t))
  BY <1>2, <1>8, Zenon DEF ReplaceAlias, Replace, ReplaceSubSeqAt
<1>12. CASE loc = 0
  <2>1. \A k \in 1 .. Len(ws) : ~EndsAt(ws[k], Len(ws[k]), a)
    <3>1. n \in 0 .. n
      OBVIOUS
    <3> QED
      BY <1>7, <1>9, <1>10, <1>12, <3>1
  <2>2. WordExpand(ws, entry) = ws
    BY <1>2, <1>6, <2>1, ExpandNothing
  <2>3. r = t
    BY <1>11, <1>12
  <2> QED
    BY <2>2, <2>3 DEF ws
<1>13. CASE loc # 0
  <2>1. PICK j \in 1 .. n : j = loc + m
    BY <1>4, <1>9, <1>13
  <2>2. /\ t[j] = Blank /\ EndsAt(t, j - 1, a) /\ j - 1 \in 0 .. n
        /\ \A e \in 1 .. j - 1 : t[e] = Blank => ~EndsAt(t, e - 1, a)
    BY <1>9, <1>13, <2>1
  <2>3. PICK v, s : v = SubSeq(t, 1, j - 1) /\ s = SubSeq(t, j + 1, Len(t))
    OBVIOUS
  <2>4. /\ v \in Seq(Char) /\ s \in Seq(Char) /\ Len(v) = j - 1 /\ Len(s) = n - j
        /\ \A i \in 1 .. j - 1 : v[i] = t[i]
        /\ \A i \in 1 .. n - j : s[i] = t[j + i]
    <3>1. j \in 1 .. Len(t)
      BY <1>1
    <3>2. /\ v \in Seq(Char) /\ s \in Seq(Char) /\ Len(v) = j - 1 /\ Len(s) = Len(t) - j
          /\ \A i \in 1 .. j - 1 : v[i] = t[i]
          /\ \A i \in 1 .. Len(t) - j : s[i] = t[j + i]
      BY ONLY t \in Seq(Char), <2>3, <3>1, SidesOf
    <3> QED
      BY ONLY <1>1, <3>2, Zenon
  <2>5. ws = Words(v) \o Words(s) /\ Words(s) \in Seq(Word)
    <3>1. j \in 1 .. Len(t)
      BY <1>1
    <3>2. Words(t) = Words(SubSeq(t, 1, j - 1)) \o Words(SubSeq(t, j + 1, Len(t)))
      BY <2>2, <3>1, WordsAround
    <3>3. Words(s) \in Seq(Word)
      BY <2>4, ScanOf, ScanIs
    <3> QED
      BY <2>3, <3>2, <3>3, Zenon DEF ws
  <2>6. PICK us \in Seq(Word), x \in Solid : us = g[j - 1].words /\ x = g[j - 1].word
    BY <1>6, <2>2
  <2>7. PICK p \in Nat : p = Len(x)
    BY LenProperties DEF Solid
  <2>8. /\ x \in Seq(Char) /\ \A k \in 1 .. p : x[k] # Blank
        /\ p <= j - 1 /\ \A k \in 1 .. p : t[j - 1 - p + k] = x[k]
        /\ j - 1 > p => t[j - 1 - p] = Blank
    <3>1. EndsAt(t, j - 1, x) /\ (j - 1 > Len(x) => t[j - 1 - Len(x)] = Blank)
      BY <1>6, <2>2, <2>6 DEF WordsEnd
    <3> QED
      BY <2>7, <3>1 DEF EndsAt, Solid
  <2>9. m <= j - 1 /\ \A k \in 1 .. m : t[j - 1 - m + k] = a[k]
    BY <1>4, <2>2 DEF EndsAt
  <2>10. m <= p
    <3> SUFFICES ASSUME p < m PROVE FALSE
      OBVIOUS
    <3>1. t[j - 1 - p] = Blank
      BY <2>8, <2>9
    <3>2. m - p \in 1 .. m /\ j - 1 - m + (m - p) = j - 1 - p
      OBVIOUS
    <3>3. t[j - 1 - m + (m - p)] = a[m - p]
      BY <2>9, <3>2
    <3> QED
      BY <1>3, <1>4, <3>1, <3>2, <3>3
  <2>11. EndsAt(x, Len(x), a)
    <3>1. ASSUME NEW k \in 1 .. m PROVE x[p - m + k] = a[k]
      <4>1. p - m + k \in 1 .. p /\ j - 1 - p + (p - m + k) = j - 1 - m + k
        BY <2>10
      <4>2. t[j - 1 - p + (p - m + k)] = x[p - m + k]
        BY <2>8, <4>1
      <4> QED
        BY <2>9, <4>1, <4>2
    <3> QED
      BY <1>4, <2>7, <2>10, <3>1 DEF EndsAt
  <2>12. x \in Word
    <3>1. x # <<>>
      BY <1>4, <2>7, <2>10
    <3> QED
      BY <3>1 DEF Word
  <2>13. Words(v) = Append(us, x)
    <3>1. Words(v) = EndWord(g[j - 1])
      BY <1>1, <1>5, <2>2, <2>3, WordsOfPrefix
    <3>2. x # <<>>
      BY <2>12 DEF Word
    <3> QED
      BY <2>6, <3>1, <3>2 DEF EndWord
  <2>14. PICK k \in Nat : k = Len(us) + 1
    BY LenProperties
  <2>15. /\ k \in 1 .. Len(ws) /\ ws[k] = x
         /\ \A i \in 1 .. k - 1 : ws[i] = us[i]
         /\ SubSeq(ws, 1, k - 1) = us
         /\ SubSeq(ws, k + 1, Len(ws)) = Words(s)
    <3>1. PICK z \in Seq(Word) : z = Words(s)
      BY <2>5
    <3>2. ws = Append(us, x) \o z
      BY <2>5, <2>13, <3>1
    <3>3. /\ Len(ws) = Len(us) + 1 + Len(z)
          /\ \A i \in 1 .. Len(us) : ws[i] = us[i]
          /\ ws[Len(us) + 1] = x
      BY <2>12, <3>2, Between
    <3>4. SubSeq(ws, 1, Len(us)) = us /\ SubSeq(ws, Len(us) + 2, Len(ws)) = z
      BY <2>12, <3>2, BesidesIs
    <3>5. Len(us) = k - 1 /\ Len(us) + 1 = k /\ Len(us) + 2 = k + 1 /\ Len(us) \in Nat /\ Len(z) \in Nat
      BY <2>14, LenProperties
    <3>6. k \in 1 .. Len(ws) /\ ws[k] = x /\ \A i \in 1 .. k - 1 : ws[i] = us[i]
      BY <3>3, <3>5
    <3>7. SubSeq(ws, 1, k - 1) = us /\ SubSeq(ws, k + 1, Len(ws)) = z
      BY ONLY <3>4, <3>5, Zenon
    <3> QED
      BY ONLY <3>1, <3>6, <3>7, Zenon
  <2>16. \A i \in 1 .. k - 1 : ~EndsAt(ws[i], Len(ws[i]), a)
    <3> TAKE i \in 1 .. k - 1
    <3>1. i \in 1 .. Len(us) /\ ws[i] = us[i]
      BY <2>14, <2>15
    <3>2. ~EndsAt(us[i], Len(us[i]), a)
      BY <1>10, <2>2, <2>6, <3>1
    <3> QED
      BY <3>1, <3>2
  <2>17. WordExpand(ws, entry) = IF x # a THEN ws ELSE InPlace(us, Words(c), Words(s))
    <3>1. EndsAt(ws[k], Len(ws[k]), a)
      BY <2>11, <2>15
    <3>2. WordExpand(ws, entry) =
            IF ws[k] # entry.alias THEN ws
            ELSE SubSeq(ws, 1, k - 1) \o Words(entry.comm) \o SubSeq(ws, k + 1, Len(ws))
      BY <1>2, <1>6, <2>15, <2>16, <3>1, ExpandAt
    <3> QED
      BY <1>2, <2>15, <3>2, Zenon DEF InPlace
  <2>18. CASE p > m
    <3>1. x # a
      BY <1>4, <2>7, <2>18
    <3>2. p - m \in 1 .. p /\ j - 1 - p + (p - m) = loc - 1 /\ loc > 1
      <4>1. loc \in Nat /\ j = loc + m /\ p <= j - 1
        BY <1>9, <2>1, <2>8
      <4> QED
        BY <2>18, <4>1
    <3>3. t[loc - 1] # Blank
      <4>1. t[j - 1 - p + (p - m)] = x[p - m]
        BY <2>8, <3>2
      <4> QED
        BY <2>8, <3>2, <4>1
    <3>4. r = t
      BY <1>11, <3>2, <3>3
    <3> QED
      BY <2>17, <3>1, <3>4 DEF ws
  <2>19. CASE p = m
    <3>1. x = a
      <4>1. ASSUME NEW i \in 1 .. m PROVE x[i] = a[i]
        BY <2>8, <2>9, <2>19
      <4> QED
        BY <1>3, <1>4, <2>7, <2>8, <2>19, <4>1, SeqEqual
    <3>2. loc - 1 = j - 1 - p /\ loc \in 1 .. n
      BY <1>9, <1>13, <2>1, <2>19
    <3>3. loc > 1 => t[loc - 1] = Blank
      BY <2>1, <2>8, <2>19, <3>2
    <3>4. loc + Len(Append(a, Blank)) = j + 1
      <4>1. Blank \in Char
        BY SignsAreChars
      <4>2. Len(Append(a, Blank)) = m + 1
        BY <1>3, <1>4, <4>1, AppendProperties
      <4> QED
        BY <1>9, <2>1, <4>2
    <3>5. PICK h : h = SubSeq(t, 1, loc - 1)
      OBVIOUS
    <3>6. r = h \o Append(c, Blank) \o s
      <4>1. r = SubSeq(t, 1, loc - 1) \o Append(c, Blank)
                  \o SubSeq(t, loc + Len(Append(a, Blank)), Len(t))
        BY <1>11, <1>13, <3>3
      <4> QED
        BY <2>3, <3>4, <3>5, <4>1, Zenon
    <3>7. h \in Seq(Char) /\ Len(h) = loc - 1 /\ \A i \in 1 .. loc - 1 : h[i] = t[i]
      BY ONLY t \in Seq(Char), <1>1, <3>2, <3>5, SidesOf
    <3>8. Begins(h)
      <4>1. CASE loc = 1
        <5>1. Len(h) = 0
          BY <3>7, <4>1
        <5> QED
          BY <3>7, <5>1, EmptySeq DEF Begins
      <4>2. CASE loc # 1
        <5>1. loc - 1 \in 1 .. Len(h) /\ h[loc - 1] = Blank
          BY <3>2, <3>3, <3>7, <4>2
        <5>2. SubSeq(h, 1, loc - 1) = Append(SubSeq(h, 1, loc - 1 - 1), h[loc - 1])
          BY <3>7, <5>1, PrefixStep
        <5>3. SubSeq(h, 1, loc - 1) = h
          BY <3>7, SubSeqFull
        <5>4. SubSeq(h, 1, loc - 1 - 1) \in Seq(Char)
          BY <3>7, <5>1, PartsOf
        <5> QED
          BY <5>1, <5>2, <5>3, <5>4 DEF Begins
      <4> QED
        BY <4>1, <4>2
    <3>9. s = <<>> \/ s[Len(s)] = Blank
      <4>1. CASE j = n
        <5>1. Len(s) = 0
          BY <2>4, <4>1
        <5> QED
          BY <2>4, <5>1, EmptySeq
      <4>2. CASE j # n
        <5>1. n - j \in 1 .. n - j /\ j + (n - j) = n
          BY <4>2
        <5> QED
          BY <1>1, <2>4, <5>1
      <4> QED
        BY <4>1, <4>2
    <3>10. /\ r \in Seq(Char) /\ Len(r) > 0 /\ r[Len(r)] = Blank
           /\ Words(r) = InPlace(Words(h), Words(c), Words(s))
      <4>1. r = Spliced(h, c, s)
        BY <3>6, Zenon DEF Spliced
      <4>2. Ends(s)
        BY <3>9 DEF Ends
      <4>3. /\ s \in Seq(Char) /\ h \in Seq(Char) /\ c \in Seq(Char)
            /\ r = Spliced(h, c, s) /\ Begins(h) /\ Ends(s)
        BY <2>4, <3>7, <3>8, <4>1, <4>2
      <4> QED
        BY ONLY <4>3, WordsSpliced, SMTT(60)
    <3>11. us = Words(h)
      <4> DEFINE ha == h \o a
      <4>1. /\ ha \in Seq(Char) /\ Len(ha) = loc - 1 + m
            /\ \A i \in 1 .. loc - 1 + m : ha[i] = IF i <= loc - 1 THEN h[i] ELSE a[i - (loc - 1)]
        <5>1. /\ ha \in Seq(Char) /\ Len(ha) = Len(h) + Len(a)
              /\ \A i \in 1 .. Len(h) + Len(a) : ha[i] = IF i <= Len(h) THEN h[i] ELSE a[i - Len(h)]
          BY <1>3, <3>7, ConcatProperties
        <5> HIDE DEF ha
        <5> QED
          BY <1>4, <3>7, <5>1
      <4>2. Words(ha) = Words(h) \o Words(a)
        BY <1>3, <3>7, <3>8, WordsBegin
      <4> HIDE DEF ha
      <4>3. v = ha
        <5>1. loc - 1 + m = j - 1
          BY <2>1, <3>2
        <5>2. ASSUME NEW i \in 1 .. j - 1 PROVE v[i] = ha[i]
          <6>1. CASE i <= loc - 1
            <7>1. i \in 1 .. loc - 1
              BY <3>2, <6>1
            <7> QED
              BY <2>4, <3>7, <4>1, <5>1, <6>1, <7>1
          <6>2. CASE ~(i <= loc - 1)
            <7>1. i - (loc - 1) \in 1 .. m /\ j - 1 - m + (i - (loc - 1)) = i
              BY <3>2, <5>1, <6>2
            <7>2. t[j - 1 - m + (i - (loc - 1))] = a[i - (loc - 1)]
              BY <2>9, <7>1
            <7>3. ha[i] = a[i - (loc - 1)]
              BY <4>1, <5>1, <6>2
            <7> QED
              BY <2>4, <7>1, <7>2, <7>3
          <6> QED
            BY <6>1, <6>2
        <5>3. v \in Seq(Char) /\ ha \in Seq(Char) /\ Len(v) = j - 1 /\ Len(ha) = j - 1
          BY <2>4, <4>1, <5>1
        <5> QED
          BY ONLY <5>2, <5>3, SeqEqual
      <4>4. PICK hs \in Seq(Word) : hs = Words(h)
        BY <3>7, ScanOf, ScanIs
      <4>5. Append(us, a) = Append(hs, a)
        <5>1. hs \o <<a>> = Append(hs, a)
          BY AppendIsConcat
        <5> QED
          BY <2>13, <3>1, <4>2, <4>3, <4>4, <5>1, WordsOfWord
      <4>6. us = hs
        BY <4>5, AppendInjective
      <4> QED
        BY <4>4, <4>6
    <3> QED
      BY <2>17, <3>1, <3>10, <3>11 DEF ws
  <2> QED
    BY <2>10, <2>18, <2>19
<1> QED
  BY <1>9, <1>12, <1>13

\* Words that are expanded are words.
LEMMA ExpandType ==
  ASSUME NEW ws \in Seq(Word), NEW entry \in Entries
  PROVE  WordExpand(ws, entry) \in Seq(Word)
<1>1. \A m \in 1 .. Len(ws) : ws[m] \in Seq(Char)
  BY ElementOfSeq DEF Word, Solid
<1>2. CASE \A m \in 1 .. Len(ws) : ~EndsAt(ws[m], Len(ws[m]), entry.alias)
  <2>1. WordExpand(ws, entry) = ws
    BY <1>2, ExpandNothing
  <2> QED
    BY <2>1
<1>3. CASE \E m \in 1 .. Len(ws) : EndsAt(ws[m], Len(ws[m]), entry.alias)
  <2> DEFINE found == {m \in 1 .. Len(ws) : EndsAt(ws[m], Len(ws[m]), entry.alias)}
  <2>1. Len(ws) \in Nat
    BY LenProperties
  <2>2. Min(found) \in found /\ \A y \in found : Min(found) <= y
    <3>1. found \subseteq Nat /\ found # {}
      BY <1>3, <2>1
    <3> HIDE DEF found
    <3> QED
      BY <3>1, MinOfNats
  <2>3. PICK k \in 1 .. Len(ws) :
          /\ EndsAt(ws[k], Len(ws[k]), entry.alias)
          /\ \A m \in 1 .. k - 1 : ~EndsAt(ws[m], Len(ws[m]), entry.alias)
    <3>1. PICK k : k = Min(found)
      OBVIOUS
    <3>2. k \in 1 .. Len(ws) /\ EndsAt(ws[k], Len(ws[k]), entry.alias)
      BY <2>2, <3>1
    <3>3. \A m \in 1 .. k - 1 : ~EndsAt(ws[m], Len(ws[m]), entry.alias)
      <4> SUFFICES ASSUME NEW m \in 1 .. k - 1, EndsAt(ws[m], Len(ws[m]), entry.alias)
                   PROVE  FALSE
        OBVIOUS
      <4>1. m \in found
        BY <2>1, <3>2
      <4> HIDE DEF found
      <4> QED
        BY <2>2, <3>1, <3>2, <4>1
    <3> QED
      BY <3>2, <3>3
  <2>4. WordExpand(ws, entry) =
          IF ws[k] # entry.alias THEN ws
          ELSE SubSeq(ws, 1, k - 1) \o Words(entry.comm) \o SubSeq(ws, k + 1, Len(ws))
    BY <2>3, ExpandAt
  <2>5. PICK a \in Seq(Word), b \in Seq(Word), c \in Seq(Word) :
          a = SubSeq(ws, 1, k - 1) /\ b = Words(entry.comm) /\ c = SubSeq(ws, k + 1, Len(ws))
    <3>1. entry.comm \in Seq(Char)
      BY DEF Entries
    <3> QED
      BY <3>1, PartsOf, ScanOf, ScanIs
  <2>6. a \o b \o c \in Seq(Word)
    BY ConcatProperties
  <2> QED
    BY <2>4, <2>5, <2>6
<1> QED
  BY <1>2, <1>3

\* g[i] are the words behind i aliases.
IsExpansion(g, base, entries) ==
  /\ g \in [0 .. Len(entries) -> Seq(Word)]
  /\ g[0] = base
  /\ \A i \in 1 .. Len(entries) : g[i] = WordExpand(g[i - 1], entries[i])

\* The words of AliasesAreWords run through these.
LEMMA ExpansionOf ==
  ASSUME NEW base \in Seq(Word), NEW entries \in Seq(Entries)
  PROVE  \E g : IsExpansion(g, base, entries)
                 /\ FoldLeft(WordExpand, base, entries) = g[Len(entries)]
<1> DEFINE n == Len(entries)
           f == [i \in 1 .. n |-> [x \in Seq(Word) |-> WordExpand(x, entries[i])]]
           iter == CHOOSE h : h = [S \in SUBSET (DOMAIN entries) |->
                     IF S = {} THEN base
                     ELSE WordExpand(h[S \ {Max(S)}], entries[Max(S)])]
           g == [i \in 0 .. n |-> iter[1 .. i]]
<1>1. n \in Nat /\ DOMAIN entries = 1 .. n /\ \A i \in 1 .. n : entries[i] \in Entries
  BY LenProperties, ElementOfSeq
<1>2. f \in [1 .. n -> [Seq(Word) -> Seq(Word)]]
  BY <1>1, ExpandType
<1>3. \E h : h = [S \in SUBSET (DOMAIN entries) |->
                    IF S = {} THEN base
                    ELSE WordExpand(h[S \ {Max(S)}], entries[Max(S)])]
  <2>1. PICK h \in [SUBSET (1 .. n) -> Seq(Word)] : FoldsBy(h, base, f, n)
    <3>1. base \in Seq(Word)
      BY ExpandType
    <3> HIDE DEF f, n
    <3> QED
      BY ONLY <1>1, <1>2, <3>1, FoldExists
  <2>2. ASSUME NEW S \in SUBSET (1 .. n), S # {}
        PROVE  f[Max(S)][h[S \ {Max(S)}]] = WordExpand(h[S \ {Max(S)}], entries[Max(S)])
    <3>1. Max(S) \in 1 .. n /\ h[S \ {Max(S)}] \in Seq(Word)
      BY <1>1, <2>2, MaxOfSubset
    <3> QED
      BY <3>1
  <2> HIDE DEF f
  <2>3. h = [S \in SUBSET (1 .. n) |->
               IF S = {} THEN base ELSE WordExpand(h[S \ {Max(S)}], entries[Max(S)])]
    BY <2>1, <2>2 DEF FoldsBy
  <2> QED
    BY <1>1, <2>3
<1>4. iter = [S \in SUBSET (DOMAIN entries) |->
                IF S = {} THEN base
                ELSE WordExpand(iter[S \ {Max(S)}], entries[Max(S)])]
  BY <1>3
<1>5. FoldLeft(WordExpand, base, entries) = iter[DOMAIN entries]
  BY DEF FoldLeft, MapThenFoldSet
<1> HIDE DEF iter, f
<1>6. g[0] = base
  <2>1. 1 .. 0 = {} /\ 0 \in 0 .. n
    BY <1>1
  <2> QED
    BY <1>1, <1>4, <2>1
<1>7. ASSUME NEW i \in 1 .. n PROVE g[i] = WordExpand(g[i - 1], entries[i])
  <2>1. 1 .. i # {} /\ Max(1 .. i) = i /\ (1 .. i) \ {i} = 1 .. i - 1
    <3>1. i \in Nat /\ i > 0
      BY <1>1
    <3> QED
      BY ONLY <3>1, MaxOfPrefix
  <2>2. 1 .. i \in SUBSET (DOMAIN entries) /\ i \in 0 .. n /\ i - 1 \in 0 .. n
    BY <1>1
  <2> QED
    BY <1>4, <2>1, <2>2
<1>8. g[n] = FoldLeft(WordExpand, base, entries)
  BY <1>1, <1>5
<1> DEFINE T == {i \in 0 .. n : g[i] \in Seq(Word)}
<1>9. \A i \in 0 .. n : i \in T
  <2>1. 0 \in T
    BY <1>1, <1>6, ExpandType
  <2>2. ASSUME NEW i \in 1 .. n, i - 1 \in T PROVE i \in T
    <3>1. g[i - 1] \in Seq(Word) /\ entries[i] \in Entries /\ i \in 0 .. n
      BY <1>1, <2>2
    <3> HIDE DEF g
    <3>2. g[i] \in Seq(Word)
      BY <1>7, <3>1, ExpandType
    <3> QED
      BY <3>1, <3>2
  <2> HIDE DEF T
  <2> QED
    BY <1>1, <2>1, <2>2, Steps
<1>10. g \in [0 .. n -> Seq(Word)]
  BY <1>9
<1> HIDE DEF g
<1> QED
  BY <1>6, <1>7, <1>8, <1>10 DEF IsExpansion

\* A blank behind a text.
LEMMA BlankBehind ==
  ASSUME NEW s \in Seq(Char), NEW t, t = Append(s, Blank)
  PROVE  t \in Seq(Char) /\ Len(t) = Len(s) + 1 /\ Len(t) > 0 /\ t[Len(t)] = Blank
<1>1. Blank \in Char /\ Len(s) \in Nat
  BY LenProperties, SignsAreChars
<1> QED
  BY <1>1, AppendProperties

\* The array, whether it was large enough, and the text that check_for_aliases
\* works on.
Tries == [left : Seq(Cell), fits : BOOLEAN, text : Seq(Char)]

\* What an entry makes of the array: the name is stored, the key is what is read
\* there with a blank behind it, and kept is the array with the key.
IsTry(left, alias, named, key, kept) ==
  /\ named = Store(left, 0, alias)
  /\ key = Append(Text(named), Blank)
  /\ kept = Overwrite(named, key)

\* A name in the array, and what an entry before it or the stack has left behind
\* it, is a text with a blank at its end.
LEMMA ArrayType ==
  ASSUME NEW left \in Seq(Cell), NEW alias \in Seq(Char),
         NEW named, NEW key, NEW kept, IsTry(left, alias, named, key, kept)
  PROVE  /\ named \in Seq(Cell) /\ Len(named) = Len(left)
         /\ key \in Seq(Char) /\ key # <<>>
         /\ kept \in Seq(Cell) /\ Len(kept) = Len(left)
<1> /\ named = Store(left, 0, alias)
    /\ key = Append(Text(named), Blank)
    /\ kept = Overwrite(named, key)
  BY Zenon DEF IsTry
<1>1. named \in Seq(Cell) /\ Len(named) = Len(left)
  <2>1. alias \in Seq(Cell)
    BY SeqMonotonic DEF Cell
  <2>2. 0 \in Nat
    OBVIOUS
  <2> QED
    BY ONLY <2>1, <2>2, left \in Seq(Cell), named = Store(left, 0, alias), StoreType
<1>2. PICK t \in Seq(Char) : t = Text(named)
  BY <1>1, TextOf
<1>3. key \in Seq(Char) /\ key # <<>>
  <2>1. key \in Seq(Char) /\ Len(key) > 0
    BY <1>2, BlankBehind
  <2> QED
    BY ONLY <2>1, EmptySeq
<1> QED
  BY ONLY <1>1, <1>3, kept = Overwrite(named, key), OverwriteType

\* A name that meets a NUL behind it stands alone, and is followed by a blank and
\* a NUL when it has been looked for.
LEMMA ArrayIsName ==
  ASSUME NEW left \in Seq(Cell), NEW alias \in Seq(Char),
         NEW named, NEW key, NEW o, IsTry(left, alias, named, key, o),
         Len(alias) + 2 <= Len(left), left[Len(alias) + 1] = NUL
  PROVE  /\ Text(named) = alias
         /\ Len(key) < Len(named)
         /\ o[Len(alias) + 2] = NUL
         /\ \A j \in 1 .. Len(left) : j > Len(alias) + 2 => o[j] = left[j]
<1>m. PICK m \in Nat : m = Len(alias)
  BY LenProperties
<1> /\ named = Store(left, 0, alias)
    /\ key = Append(Text(named), Blank)
    /\ o = Overwrite(named, key)
  BY Zenon DEF IsTry
<1>1. PICK n \in Nat : n = Len(left)
  BY LenProperties
<1>2. /\ named \in Seq(Cell) /\ Len(named) = n
      /\ \A i \in 1 .. n : named[i] = IF i \in 0 + 1 .. 0 + m THEN alias[i - 0] ELSE left[i]
  <2>1. alias \in Seq(Cell)
    BY SeqMonotonic DEF Cell
  <2>2. 0 \in Nat
    OBVIOUS
  <2> QED
    BY ONLY <1>1, <2>1, <2>2, left \in Seq(Cell), <1>m,
            named = Store(left, 0, alias), StoreType
<1>3. \A i \in 1 .. n : named[i] = IF i <= m THEN alias[i] ELSE left[i]
  <2> TAKE i \in 1 .. n
  <2>1. (i \in 0 + 1 .. 0 + m <=> i <= m) /\ i - 0 = i
    OBVIOUS
  <2> QED
    BY <1>2, <2>1
<1>4. m + 2 <= n /\ m + 1 \in 1 .. n
  BY <1>1, <1>m
<1>5. Text(named) = alias
  <2>1. \A i \in 1 .. Len(alias) : named[i] = alias[i]
    BY <1>3, <1>4, <1>m
  <2>2. named[Len(alias) + 1] = NUL /\ Len(alias) < Len(named)
    <3>1. left[m + 1] = NUL /\ ~(m + 1 <= m)
      BY <1>m
    <3>2. named[m + 1] = NUL /\ m < n
      BY <1>3, <1>4, <3>1
    <3> QED
      BY <1>2, <1>m, <3>2
  <2> QED
    BY <1>2, <2>1, <2>2, TextIs
<1>6. key \in Seq(Char) /\ Len(key) = m + 1
  <2>1. key = Append(alias, Blank)
    BY <1>5
  <2> QED
    BY ONLY <2>1, alias \in Seq(Char), <1>m, BlankBehind
<1>7. /\ o[Len(key) + 1] = NUL
      /\ \A i \in 1 .. n : i > Len(key) + 1 => o[i] = named[i]
  <2>1. Len(key) < Len(named)
    BY <1>2, <1>4, <1>6
  <2> QED
    BY ONLY <1>2, <1>6, <2>1, o = Overwrite(named, key), OverwriteType
<1>8. Len(key) + 1 = m + 2 /\ Len(key) < Len(named)
  BY <1>2, <1>4, <1>6
<1>9. \A j \in 1 .. n : j > m + 2 => o[j] = left[j]
  <2> SUFFICES ASSUME NEW j \in 1 .. n, j > m + 2 PROVE o[j] = left[j]
    OBVIOUS
  <2>1. ~(j <= m)
    OBVIOUS
  <2> QED
    BY <1>3, <1>7, <1>8, <2>1
<1> QED
  BY <1>1, <1>m, <1>5, <1>7, <1>8, <1>9

\* Replacing a name leaves a text.
LEMMA ReplaceType ==
  ASSUME NEW t \in Seq(Char), NEW key \in Seq(Char), key # <<>>, NEW c \in Seq(Char)
  PROVE  ReplaceAlias(t, key, c) \in Seq(Char)
<1>1. PICK loc : loc = FirstAt(key, t)
  OBVIOUS
<1>2. /\ loc \in 0 .. Len(t) - Len(key) + 1 \/ loc = 0
      /\ loc # 0 => loc >= 1
  BY <1>1, FirstAtIs
<1>3. PICK m \in Nat, n \in Nat : m = Len(key) /\ n = Len(t) /\ m >= 1
  <2>1. Len(key) \in Nat /\ Len(t) \in Nat /\ Len(key) # 0
    BY EmptySeq, LenProperties
  <2> QED
    BY <2>1
<1>4. ReplaceAlias(t, key, c) =
        IF loc = 0 THEN t
        ELSE IF loc > 1 /\ t[loc - 1] # Blank THEN t
        ELSE SubSeq(t, 1, loc - 1) \o Append(c, Blank) \o SubSeq(t, loc + Len(key), Len(t))
  BY <1>1, Zenon DEF ReplaceAlias, Replace, ReplaceSubSeqAt
<1>5. ASSUME loc # 0
      PROVE  SubSeq(t, 1, loc - 1) \o Append(c, Blank) \o SubSeq(t, loc + Len(key), Len(t))
               \in Seq(Char)
  <2>1. loc \in 1 .. n - m + 1
    BY <1>2, <1>3, <1>5
  <2>2. SubSeq(t, 1, loc - 1) \in Seq(Char)
    <3>1. 1 \in 1 .. Len(t) + 1 /\ loc - 1 \in 1 - 1 .. Len(t)
      BY <1>3, <2>1
    <3> QED
      BY <3>1, PartOf
  <2>3. SubSeq(t, loc + Len(key), Len(t)) \in Seq(Char)
    <3>1. loc + Len(key) \in 1 .. Len(t) + 1 /\ Len(t) \in loc + Len(key) - 1 .. Len(t)
      BY <1>3, <2>1
    <3> QED
      BY <3>1, PartOf
  <2>4. PICK x \in Seq(Char), y \in Seq(Char), z \in Seq(Char) :
          /\ x = SubSeq(t, 1, loc - 1) /\ y = Append(c, Blank)
          /\ z = SubSeq(t, loc + Len(key), Len(t))
    <3>1. Append(c, Blank) \in Seq(Char)
      BY AppendProperties, SignsAreChars
    <3> QED
      BY <2>2, <2>3, <3>1
  <2>5. x \o y \o z \in Seq(Char)
    BY ConcatProperties
  <2> QED
    BY <2>4, <2>5
<1> QED
  BY <1>4, <1>5

\* An entry of alias.txt makes an array and a text of an array and a text.
LEMMA TryType ==
  ASSUME NEW s \in Tries, NEW entry \in Entries
  PROVE  TryAlias(s, entry) \in Tries
<1>1. s.left \in Seq(Cell) /\ s.fits \in BOOLEAN /\ s.text \in Seq(Char)
  BY DEF Tries
<1>2. entry.alias \in Seq(Char) /\ entry.comm \in Seq(Char)
  BY DEF Entries, Solid
<1>3. PICK named : named = Store(s.left, 0, entry.alias)
  OBVIOUS
<1>4. PICK key : key = Append(Text(named), Blank)
  OBVIOUS
<1>5. PICK o : o = Overwrite(named, key)
  OBVIOUS
<1>6. key \in Seq(Char) /\ key # <<>> /\ o \in Seq(Cell)
  <2>1. IsTry(s.left, entry.alias, named, key, o)
    BY <1>3, <1>4, <1>5, Zenon DEF IsTry
  <2> QED
    BY ONLY <1>1, <1>2, <2>1, ArrayType
<1>7. PICK r \in Seq(Char) : r = ReplaceAlias(s.text, key, entry.comm)
  BY <1>1, <1>2, <1>6, ReplaceType
<1>8. TryAlias(s, entry) =
        [left |-> o, fits |-> s.fits /\ Len(key) < Len(named), text |-> r]
  BY <1>3, <1>4, <1>5, <1>7, Zenon DEF TryAlias
<1> QED
  BY <1>6, <1>8 DEF Tries

\* g[i] is what check_for_aliases has behind i entries of alias.txt.
IsTrial(g, base, entries) ==
  /\ g \in [0 .. Len(entries) -> Tries]
  /\ g[0] = base
  /\ \A i \in 1 .. Len(entries) : g[i] = TryAlias(g[i - 1], entries[i])

\* The loop of check_for_aliases runs through these.
LEMMA TrialOf ==
  ASSUME NEW base \in Tries, NEW entries \in Seq(Entries)
  PROVE  \E g : IsTrial(g, base, entries)
                 /\ FoldLeft(TryAlias, base, entries) = g[Len(entries)]
<1> DEFINE n == Len(entries)
           f == [i \in 1 .. n |-> [x \in Tries |-> TryAlias(x, entries[i])]]
           iter == CHOOSE h : h = [S \in SUBSET (DOMAIN entries) |->
                     IF S = {} THEN base
                     ELSE TryAlias(h[S \ {Max(S)}], entries[Max(S)])]
           g == [i \in 0 .. n |-> iter[1 .. i]]
<1>1. n \in Nat /\ DOMAIN entries = 1 .. n /\ \A i \in 1 .. n : entries[i] \in Entries
  BY LenProperties, ElementOfSeq
<1>2. f \in [1 .. n -> [Tries -> Tries]]
  BY <1>1, TryType
<1>3. \E h : h = [S \in SUBSET (DOMAIN entries) |->
                    IF S = {} THEN base
                    ELSE TryAlias(h[S \ {Max(S)}], entries[Max(S)])]
  <2>1. PICK h \in [SUBSET (1 .. n) -> Tries] : FoldsBy(h, base, f, n)
    <3>1. base \in Tries
      BY TryType
    <3> HIDE DEF f, n
    <3> QED
      BY ONLY <1>1, <1>2, <3>1, FoldExists
  <2>2. ASSUME NEW S \in SUBSET (1 .. n), S # {}
        PROVE  f[Max(S)][h[S \ {Max(S)}]] = TryAlias(h[S \ {Max(S)}], entries[Max(S)])
    <3>1. Max(S) \in 1 .. n /\ h[S \ {Max(S)}] \in Tries
      BY <1>1, <2>2, MaxOfSubset
    <3> QED
      BY <3>1
  <2> HIDE DEF f
  <2>3. h = [S \in SUBSET (1 .. n) |->
               IF S = {} THEN base ELSE TryAlias(h[S \ {Max(S)}], entries[Max(S)])]
    BY <2>1, <2>2 DEF FoldsBy
  <2> QED
    BY <1>1, <2>3
<1>4. iter = [S \in SUBSET (DOMAIN entries) |->
                IF S = {} THEN base
                ELSE TryAlias(iter[S \ {Max(S)}], entries[Max(S)])]
  BY <1>3
<1>5. FoldLeft(TryAlias, base, entries) = iter[DOMAIN entries]
  BY DEF FoldLeft, MapThenFoldSet
<1> HIDE DEF iter, f
<1>6. g[0] = base
  <2>1. 1 .. 0 = {} /\ 0 \in 0 .. n
    BY <1>1
  <2> QED
    BY <1>1, <1>4, <2>1
<1>7. ASSUME NEW i \in 1 .. n PROVE g[i] = TryAlias(g[i - 1], entries[i])
  <2>1. 1 .. i # {} /\ Max(1 .. i) = i /\ (1 .. i) \ {i} = 1 .. i - 1
    <3>1. i \in Nat /\ i > 0
      BY <1>1
    <3> QED
      BY ONLY <3>1, MaxOfPrefix
  <2>2. 1 .. i \in SUBSET (DOMAIN entries) /\ i \in 0 .. n /\ i - 1 \in 0 .. n
    BY <1>1
  <2> QED
    BY <1>4, <2>1, <2>2
<1>8. g[n] = FoldLeft(TryAlias, base, entries)
  BY <1>1, <1>5
<1> DEFINE T == {i \in 0 .. n : g[i] \in Tries}
<1>9. \A i \in 0 .. n : i \in T
  <2>1. 0 \in T
    BY <1>1, <1>6, TryType
  <2>2. ASSUME NEW i \in 1 .. n, i - 1 \in T PROVE i \in T
    <3>1. g[i - 1] \in Tries /\ entries[i] \in Entries /\ i \in 0 .. n
      BY <1>1, <2>2
    <3> HIDE DEF g
    <3>2. g[i] \in Tries
      BY <1>7, <3>1, TryType
    <3> QED
      BY <3>1, <3>2
  <2> HIDE DEF T
  <2> QED
    BY <1>1, <2>1, <2>2, Steps
<1>10. g \in [0 .. n -> Tries]
  BY <1>9
<1> HIDE DEF g
<1> QED
  BY <1>6, <1>7, <1>8, <1>10 DEF IsTrial

\* check_for_aliases works on words, and has room for the names, when these
\* increase in length and stand alone in the array (lines 86-127).
LEMMA ExpandedWords ==
  ASSUME NEW entered \in Seq(Char), NEW entries \in Seq(Entries), NEW left \in Seq(Cell),
         Lengthening(entries, left)
  PROVE  /\ Words(CheckForAliases(entered, entries, left).text)
              = FoldLeft(WordExpand, Words(entered), entries)
         /\ CheckForAliases(entered, entries, left).fits
<1> DEFINE n == Len(entries)
           base == [left |-> left, fits |-> TRUE, text |-> Append(entered, Blank)]
<1>1. n \in Nat /\ \A i \in 1 .. n : entries[i] \in Entries
  BY LenProperties, ElementOfSeq
<1>2. Words(entered) \in Seq(Word)
  BY ScanOf, ScanIs
<1>3. PICK e : IsExpansion(e, Words(entered), entries)
                 /\ FoldLeft(WordExpand, Words(entered), entries) = e[n]
  BY <1>2, ExpansionOf
<1>4. base \in Tries
  BY BlankBehind DEF Tries
<1>5. PICK g : IsTrial(g, base, entries) /\ FoldLeft(TryAlias, base, entries) = g[n]
  <2> HIDE DEF base
  <2> QED
    BY <1>4, TrialOf
<1>6. PICK z \in Nat : z = Len(left)
  BY LenProperties
\* The array behind i entries: the last name, and the stack behind it.
<1> DEFINE NameSize(i) == Len(entries[i].alias)
           Array(i) ==
             /\ Len(g[i].left) = z
             /\ i > 0 => g[i].left[NameSize(i) + 2] = NUL
             /\ \A j \in 1 .. z : i = 0 \/ j > NameSize(i) + 2 => g[i].left[j] = left[j]
           Fine(i) ==
             /\ Len(g[i].text) > 0 /\ g[i].text[Len(g[i].text)] = Blank
             /\ Words(g[i].text) = e[i]
             /\ g[i].fits
             /\ Array(i)
           T == {i \in 0 .. n : Fine(i)}
<1>7. /\ g[0] = base /\ e[0] = Words(entered)
      /\ \A i \in 1 .. n : /\ g[i] = TryAlias(g[i - 1], entries[i])
                           /\ e[i] = WordExpand(e[i - 1], entries[i])
      /\ \A i \in 0 .. n : g[i].left \in Seq(Cell) /\ g[i].text \in Seq(Char)
  <2> HIDE DEF base
  <2> QED
    BY <1>1, <1>3, <1>5 DEF IsExpansion, IsTrial, Tries
<1>8. g[0].left = left /\ g[0].fits /\ g[0].text = Append(entered, Blank)
  BY <1>7
<1> HIDE DEF base
<1>9. \A i \in 1 .. n :
        /\ NameSize(i) \in Nat /\ NameSize(i) > 0 /\ NameSize(i) + 2 <= z
        /\ i > 1 => NameSize(i - 1) \in Nat /\ NameSize(i - 1) < NameSize(i)
        /\ left[NameSize(i) + 1] = NUL \/ (i > 1 /\ NameSize(i) = NameSize(i - 1) + 1)
  <2>1. \A i \in 1 .. n : NameSize(i) \in Nat
    <3> TAKE i \in 1 .. n
    <3>1. entries[i].alias \in Seq(Char)
      BY <1>1 DEF Entries, Solid
    <3> QED
      BY <3>1, LenProperties
  <2>2. ASSUME NEW i \in 1 .. n
        PROVE  /\ (IF i = 1 THEN 0 ELSE NameSize(i - 1)) < NameSize(i) /\ NameSize(i) + 2 <= z
               /\ left[NameSize(i) + 1] = NUL
                    \/ (i > 1 /\ NameSize(i) = (IF i = 1 THEN 0 ELSE NameSize(i - 1)) + 1)
    BY <1>6 DEF Lengthening
  <2> HIDE DEF NameSize
  <2>3. ASSUME NEW i \in 1 .. n
        PROVE  /\ NameSize(i) \in Nat /\ NameSize(i) > 0 /\ NameSize(i) + 2 <= z
               /\ i > 1 => NameSize(i - 1) \in Nat /\ NameSize(i - 1) < NameSize(i)
               /\ left[NameSize(i) + 1] = NUL \/ (i > 1 /\ NameSize(i) = NameSize(i - 1) + 1)
    <3>1. CASE i = 1
      BY <2>1, <2>2, <3>1
    <3>2. CASE i # 1
      <4>1. i - 1 \in 1 .. n /\ i > 1
        BY <1>1, <3>2
      <4> QED
        BY <2>1, <2>2, <3>2, <4>1
    <3> QED
      BY <3>1, <3>2
  <2> QED
    BY <2>3
<1> HIDE DEF NameSize
<1>10. 0 \in T
  <2>1. Words(g[0].text) = Words(entered)
    BY <1>8, WordsBeforeBlank
  <2>2. PICK t : t = Append(entered, Blank)
    OBVIOUS
  <2>3. Len(t) > 0 /\ t[Len(t)] = Blank
    BY <2>2, BlankBehind
  <2>4. Len(g[0].text) > 0 /\ g[0].text[Len(g[0].text)] = Blank
    BY <1>8, <2>2, <2>3, Zenon
  <2>5. Array(0)
    BY <1>6, <1>8
  <2> HIDE DEF Array
  <2>6. Fine(0)
    BY <1>7, <1>8, <2>1, <2>4, <2>5
  <2> QED
    BY <1>1, <2>6
<1>11. ASSUME NEW i \in 1 .. n, i - 1 \in T PROVE i \in T
  <2>1. /\ Fine(i - 1) /\ i - 1 \in 0 .. n
        /\ entries[i] \in Entries
    BY <1>1, <1>11
  <2>2. PICK entry \in Entries : entry = entries[i]
    BY <2>1
  <2>3. PICK l \in Seq(Cell), t \in Seq(Char) : l = g[i - 1].left /\ t = g[i - 1].text
    BY <1>7, <2>1
  <2>4. PICK a \in Seq(Char), m \in Nat : a = entry.alias /\ m = Len(a)
    <3>1. entry.alias \in Seq(Char)
      BY DEF Entries, Solid
    <3> QED
      BY <3>1, LenProperties
  <2>5. m = NameSize(i) /\ m > 0 /\ m + 2 <= z
    <3>1. m = NameSize(i)
      BY <2>2, <2>4 DEF NameSize
    <3> QED
      BY <1>9, <3>1
  <2>6. Len(l) = z /\ l[m + 1] = NUL /\ m + 1 \in 1 .. z
    <3>1. Array(i - 1) /\ m + 1 \in 1 .. z
      <4>1. Array(i - 1)
        BY ONLY <2>1, Zenon DEF Fine
      <4>2. m + 1 \in 1 .. z
        BY ONLY <2>5, m \in Nat, z \in Nat
      <4> QED
        BY ONLY <4>1, <4>2
    <3>2. CASE i = 1
      <4>1. left[m + 1] = NUL
        BY <1>9, <2>5, <3>2
      <4>2. l[m + 1] = left[m + 1]
        BY <2>3, <3>1, <3>2
      <4> QED
        BY <2>3, <3>1, <4>1, <4>2
    <3>3. CASE i # 1
      <4>1. i - 1 > 0 /\ i > 1
        BY <1>1, <3>3
      <4>2. PICK q \in Nat : q = NameSize(i - 1) /\ q < m
        BY <1>9, <2>5, <4>1
      <4>3. /\ l[q + 2] = NUL
            /\ \A j \in 1 .. z : j > q + 2 => l[j] = left[j]
        BY <2>3, <3>1, <4>1, <4>2
      <4>4. CASE m = q + 1
        <5>1. m + 1 = q + 2
          BY <4>4
        <5> QED
          BY <2>3, <3>1, <4>3, <5>1
      <4>5. CASE m # q + 1
        <5>1. m + 1 > q + 2
          <6>1. q < m
            BY ONLY <4>2, Zenon
          <6> QED
            BY ONLY <4>5, <6>1, m \in Nat, q \in Nat
        <5>2. left[m + 1] = NUL
          BY <1>9, <2>5, <4>2, <4>5
        <5> QED
          BY <2>3, <3>1, <4>3, <5>1, <5>2
      <4> QED
        BY <4>4, <4>5
    <3> QED
      BY <3>2, <3>3
  <2>7. PICK named : named = Store(l, 0, a)
    OBVIOUS
  <2>8. PICK key : key = Append(Text(named), Blank)
    OBVIOUS
  <2>9. PICK o : o = Overwrite(named, key)
    OBVIOUS
  <2>try. IsTry(l, a, named, key, o)
    BY <2>7, <2>8, <2>9, Zenon DEF IsTry
  <2>10. /\ Text(named) = a
         /\ Len(key) < Len(named)
         /\ o[m + 2] = NUL
         /\ \A j \in 1 .. z : j > m + 2 => o[j] = l[j]
         /\ Len(o) = z
    <3>1. m + 2 <= Len(l)
      BY <2>5, <2>6
    <3>2. /\ Text(named) = a
          /\ Len(key) < Len(named)
          /\ o[m + 2] = NUL
          /\ \A j \in 1 .. Len(l) : j > m + 2 => o[j] = l[j]
      <4>1. l \in Seq(Cell) /\ a \in Seq(Char)
        OBVIOUS
      <4>2. Len(a) + 2 <= Len(l) /\ l[Len(a) + 1] = NUL
        BY <2>4, <2>6, <3>1
      <4>3. /\ Text(named) = a
            /\ Len(key) < Len(named)
            /\ o[Len(a) + 2] = NUL
            /\ \A j \in 1 .. Len(l) : j > Len(a) + 2 => o[j] = l[j]
        BY ONLY <2>try, <4>1, <4>2, ArrayIsName
      <4> QED
        BY ONLY <2>4, <4>3, Zenon
    <3>3. Len(o) = Len(l)
      <4>1. l \in Seq(Cell) /\ a \in Seq(Char)
        OBVIOUS
      <4> QED
        BY ONLY <2>try, <4>1, ArrayType
    <3> QED
      BY <2>6, <3>2, <3>3
  <2>11. PICK r : r = ReplaceAlias(t, key, entry.comm)
    OBVIOUS
  <2>12. g[i] = [left |-> o, fits |-> g[i - 1].fits /\ Len(key) < Len(named), text |-> r]
    <3>1. g[i] = TryAlias(g[i - 1], entry)
      BY <1>7, <2>2
    <3> QED
      BY ONLY <2>3, <2>4, <2>7, <2>8, <2>9, <2>11, <3>1, Zenon DEF TryAlias
  <2>13. g[i].left = o /\ g[i].text = r /\ g[i].fits
    <3>1. g[i - 1].fits /\ Len(key) < Len(named)
      BY <2>1, <2>10
    <3>2. PICK f : f = (g[i - 1].fits /\ Len(key) < Len(named))
      OBVIOUS
    <3>3. g[i] = [left |-> o, fits |-> f, text |-> r]
      BY <2>12, <3>2
    <3>4. f
      BY <3>1, <3>2
    <3> QED
      BY ONLY <3>3, <3>4
  <2>14. Len(t) > 0 /\ t[Len(t)] = Blank /\ Words(t) = e[i - 1]
    BY <2>1, <2>3
  <2>15. /\ r \in Seq(Char) /\ Len(r) > 0 /\ r[Len(r)] = Blank
         /\ Words(r) = WordExpand(Words(t), entry)
    <3>1. r = ReplaceAlias(t, Append(entry.alias, Blank), entry.comm)
      <4>1. key = Append(a, Blank) /\ a = entry.alias
        BY <2>4, <2>8, <2>10, Zenon
      <4>2. Append(a, Blank) = Append(entry.alias, Blank)
        BY ONLY <4>1, Zenon
      <4>3. key = Append(entry.alias, Blank)
        BY ONLY <4>1, <4>2, Zenon
      <4> QED
        BY ONLY <2>11, <4>3, Zenon
    <3>2. entry.alias # <<>>
      <4>1. Len(a) # 0
        BY <2>4, <2>5
      <4>2. a # <<>>
        BY <4>1, EmptySeq
      <4> QED
        BY <2>4, <4>2, Zenon
    <3> QED
      BY ONLY <2>14, <3>1, <3>2, t \in Seq(Char), entry \in Entries, ReplacedWords
  <2>16. Words(r) = e[i]
    BY <1>7, <2>2, <2>14, <2>15
  <2>17. Array(i)
    <3>1. ASSUME NEW j \in 1 .. z, j > m + 2 PROVE o[j] = left[j]
      <4>1. o[j] = l[j] /\ Array(i - 1)
        BY <2>1, <2>10, <3>1
      <4>2. CASE i = 1
        BY <2>3, <4>1, <4>2
      <4>3. CASE i # 1
        <5>1. i > 1
          BY <4>3
        <5>2. NameSize(i - 1) \in Nat /\ NameSize(i - 1) < m
          BY <1>9, <2>5, <5>1
        <5>3. j > NameSize(i - 1) + 2
          BY <3>1, <5>2
        <5> QED
          BY <2>3, <4>1, <5>3
      <4> QED
        BY <4>2, <4>3
    <3>2. i # 0
      BY <1>1
    <3> QED
      BY <2>5, <2>10, <2>13, <3>1, <3>2
  <2> HIDE DEF Array
  <2>18. Fine(i)
    BY <2>13, <2>15, <2>16, <2>17
  <2> QED
    BY <1>1, <2>18
<1> HIDE DEF T
<1>12. \A i \in 0 .. n : i \in T
  BY <1>1, <1>10, <1>11, Steps
<1>13. Words(g[n].text) = e[n] /\ g[n].fits
  <2>1. n \in T
    BY <1>1, <1>12
  <2> QED
    BY <2>1 DEF T
<1>14. CASE entries = <<>>
  <2>1. CheckForAliases(entered, entries, left) = [text |-> entered, fits |-> TRUE]
    BY <1>14, Zenon DEF CheckForAliases
  <2>2. n = 0
    BY <1>14
  <2> QED
    BY <1>3, <1>7, <2>1, <2>2
<1>15. CASE entries # <<>>
  <2>1. CheckForAliases(entered, entries, left) = [text |-> g[n].text, fits |-> g[n].fits]
    <3>1. PICK tried : tried = FoldLeft(TryAlias, base, entries)
      OBVIOUS
    <3>2. CheckForAliases(entered, entries, left) = [text |-> tried.text, fits |-> tried.fits]
      BY <1>15, <3>1, Zenon DEF CheckForAliases, base
    <3> QED
      BY <1>5, <3>1, <3>2
  <2> QED
    BY <1>3, <1>13, <2>1
<1> QED
  BY <1>14, <1>15

\* check_for_aliases makes a text of a text, whatever the array held.
LEMMA ExpandedType ==
  ASSUME NEW entered \in Seq(Char), NEW entries \in Seq(Entries), NEW left \in Seq(Cell)
  PROVE  CheckForAliases(entered, entries, left).text \in Seq(Char)
<1> DEFINE base == [left |-> left, fits |-> TRUE, text |-> Append(entered, Blank)]
<1>1. base \in Tries
  BY BlankBehind DEF Tries
<1>2. PICK tried \in Tries : tried = FoldLeft(TryAlias, base, entries)
  <2> HIDE DEF base
  <2>1. PICK g : IsTrial(g, base, entries)
                   /\ FoldLeft(TryAlias, base, entries) = g[Len(entries)]
    BY <1>1, TrialOf
  <2>2. Len(entries) \in 0 .. Len(entries)
    BY LenProperties
  <2> QED
    BY <2>1, <2>2 DEF IsTrial
<1>3. CheckForAliases(entered, entries, left) =
        IF entries = <<>> THEN [text |-> entered, fits |-> TRUE]
        ELSE [text |-> tried.text, fits |-> tried.fits]
  BY <1>2, Zenon DEF CheckForAliases
<1>4. tried.text \in Seq(Char)
  BY DEF Tries
<1> QED
  BY <1>3, <1>4

-----------------------------------------------------------------------------
(***************************************************************************)
(* The command alias                                                       *)
(***************************************************************************)
\* Two texts that are joined are a text.
LEMMA JoinedType ==
  ASSUME NEW s \in Seq(Char), NEW w \in Word
  PROVE  Joined(s, w) \in Seq(Char)
<1>1. w \in Seq(Char) /\ <<Blank>> \in Seq(Char)
  BY SignsAreChars DEF Word, Solid
<1>2. s \o <<Blank>> \in Seq(Char)
  BY <1>1, ConcatProperties
<1> QED
  BY <1>1, <1>2, ConcatProperties DEF Joined

\* g[i] is the text behind i more words.
IsJoining(g, base, ws) ==
  /\ g \in [0 .. Len(ws) -> Seq(Char)]
  /\ g[0] = base
  /\ \A i \in 1 .. Len(ws) : g[i] = Joined(g[i - 1], ws[i])

\* The loop of the command alias runs through these texts.
LEMMA JoiningOf ==
  ASSUME NEW base \in Seq(Char), NEW ws \in Seq(Word)
  PROVE  \E g : IsJoining(g, base, ws) /\ FoldLeft(Joined, base, ws) = g[Len(ws)]
<1> DEFINE n == Len(ws)
           f == [i \in 1 .. n |-> [x \in Seq(Char) |-> Joined(x, ws[i])]]
           iter == CHOOSE h : h = [S \in SUBSET (DOMAIN ws) |->
                     IF S = {} THEN base
                     ELSE Joined(h[S \ {Max(S)}], ws[Max(S)])]
           g == [i \in 0 .. n |-> iter[1 .. i]]
<1>1. n \in Nat /\ DOMAIN ws = 1 .. n /\ \A i \in 1 .. n : ws[i] \in Word
  BY LenProperties, ElementOfSeq
<1>2. f \in [1 .. n -> [Seq(Char) -> Seq(Char)]]
  BY <1>1, JoinedType
<1>3. \E h : h = [S \in SUBSET (DOMAIN ws) |->
                    IF S = {} THEN base
                    ELSE Joined(h[S \ {Max(S)}], ws[Max(S)])]
  <2>1. PICK h \in [SUBSET (1 .. n) -> Seq(Char)] : FoldsBy(h, base, f, n)
    <3>1. base \in Seq(Char)
      BY JoinedType
    <3> HIDE DEF f, n
    <3> QED
      BY ONLY <1>1, <1>2, <3>1, FoldExists
  <2>2. ASSUME NEW S \in SUBSET (1 .. n), S # {}
        PROVE  f[Max(S)][h[S \ {Max(S)}]] = Joined(h[S \ {Max(S)}], ws[Max(S)])
    <3>1. Max(S) \in 1 .. n /\ h[S \ {Max(S)}] \in Seq(Char)
      BY <1>1, <2>2, MaxOfSubset
    <3> QED
      BY <3>1
  <2> HIDE DEF f
  <2>3. h = [S \in SUBSET (1 .. n) |->
               IF S = {} THEN base ELSE Joined(h[S \ {Max(S)}], ws[Max(S)])]
    BY <2>1, <2>2 DEF FoldsBy
  <2> QED
    BY <1>1, <2>3
<1>4. iter = [S \in SUBSET (DOMAIN ws) |->
                IF S = {} THEN base
                ELSE Joined(iter[S \ {Max(S)}], ws[Max(S)])]
  BY <1>3
<1>5. FoldLeft(Joined, base, ws) = iter[DOMAIN ws]
  BY DEF FoldLeft, MapThenFoldSet
<1> HIDE DEF iter, f
<1>6. g[0] = base
  <2>1. 1 .. 0 = {} /\ 0 \in 0 .. n
    BY <1>1
  <2> QED
    BY <1>1, <1>4, <2>1
<1>7. ASSUME NEW i \in 1 .. n PROVE g[i] = Joined(g[i - 1], ws[i])
  <2>1. 1 .. i # {} /\ Max(1 .. i) = i /\ (1 .. i) \ {i} = 1 .. i - 1
    <3>1. i \in Nat /\ i > 0
      BY <1>1
    <3> QED
      BY ONLY <3>1, MaxOfPrefix
  <2>2. 1 .. i \in SUBSET (DOMAIN ws) /\ i \in 0 .. n /\ i - 1 \in 0 .. n
    BY <1>1
  <2> QED
    BY <1>4, <2>1, <2>2
<1>8. g[n] = FoldLeft(Joined, base, ws)
  BY <1>1, <1>5
<1> DEFINE T == {i \in 0 .. n : g[i] \in Seq(Char)}
<1>9. \A i \in 0 .. n : i \in T
  <2>1. 0 \in T
    BY <1>1, <1>6, JoinedType
  <2>2. ASSUME NEW i \in 1 .. n, i - 1 \in T PROVE i \in T
    <3>1. g[i - 1] \in Seq(Char) /\ ws[i] \in Word /\ i \in 0 .. n
      BY <1>1, <2>2
    <3> HIDE DEF g
    <3>2. g[i] \in Seq(Char)
      BY <1>7, <3>1, JoinedType
    <3> QED
      BY <3>1, <3>2
  <2> HIDE DEF T
  <2> QED
    BY <1>1, <2>1, <2>2, Steps
<1>10. g \in [0 .. n -> Seq(Char)]
  BY <1>9
<1> HIDE DEF g
<1> QED
  BY <1>6, <1>7, <1>8, <1>10 DEF IsJoining

\* Words that are joined are the words of the text (lines 776-786).
LEMMA WordsJoined ==
  ASSUME NEW ws \in Seq(Word), Len(ws) >= 1
  PROVE  Join(ws) \in Seq(Char) /\ Words(Join(ws)) = ws
<1>1. PICK n \in Nat : Len(ws) = n + 1
  <2>1. Len(ws) \in Nat
    BY LenProperties
  <2> WITNESS Len(ws) - 1 \in Nat
  <2> QED
    BY <2>1
<1>2. PICK ts \in Seq(Word) : ts = Tail(ws) /\ Len(ts) = n /\ \A i \in 1 .. n : ts[i] = ws[i + 1]
  <2>1. ws # <<>>
    <3>1. Len(ws) # 0
      BY <1>1
    <3> QED
      BY <3>1
  <2>2. /\ Tail(ws) \in Seq(Word) /\ Len(Tail(ws)) = Len(ws) - 1
        /\ \A i \in 1 .. Len(ws) - 1 : Tail(ws)[i] = ws[i + 1]
    BY <2>1, HeadTailProperties
  <2>3. Len(ws) - 1 = n
    BY <1>1
  <2> QED
    BY <2>2, <2>3
<1>3. ws[1] \in Word /\ ws[1] \in Seq(Char)
  <2>1. 1 \in 1 .. Len(ws)
    BY <1>1
  <2>2. ws[1] \in Word
    BY <2>1, ElementOfSeq
  <2> QED
    BY <2>2 DEF Word, Solid
<1>4. PICK g : IsJoining(g, ws[1], ts) /\ FoldLeft(Joined, ws[1], ts) = g[n]
  BY <1>2, <1>3, JoiningOf
<1>5. /\ g[0] = ws[1]
      /\ \A i \in 0 .. n : g[i] \in Seq(Char)
      /\ \A i \in 1 .. n : g[i] = Joined(g[i - 1], ts[i])
  BY <1>2, <1>4 DEF IsJoining
<1> DEFINE T == {i \in 0 .. n : Words(g[i]) = SubSeq(ws, 1, i + 1)}
<1>6. 0 \in T
  <2>1. SubSeq(ws, 1, 1) = Append(SubSeq(ws, 1, 1 - 1), ws[1])
    BY <1>1, PrefixStep
  <2>2. SubSeq(ws, 1, 1 - 1) = <<>>
    BY SubSeqEmpty
  <2>3. SubSeq(ws, 1, 0 + 1) = <<ws[1]>>
    <3>1. Append(<<>>, ws[1]) = <<ws[1]>>
      OBVIOUS
    <3>2. SubSeq(ws, 1, 1) = <<ws[1]>>
      BY <2>1, <2>2, <3>1, Zenon
    <3>3. 0 + 1 = 1
      OBVIOUS
    <3> QED
      BY <3>2, <3>3, Zenon
  <2> QED
    BY <1>3, <1>5, <2>3, WordsOfWord
<1>7. ASSUME NEW i \in 1 .. n, i - 1 \in T PROVE i \in T
  <2>1. PICK w \in Word : w = ws[i + 1] /\ w = ts[i]
    <3>1. i + 1 \in 1 .. Len(ws)
      BY <1>1
    <3> QED
      BY <1>2, <3>1, ElementOfSeq
  <2>2. PICK s \in Seq(Char) : s = g[i - 1]
    BY <1>5
  <2>3. w \in Seq(Char)
    BY DEF Word, Solid
  <2>4. g[i] = s \o <<Blank>> \o w
    <3>1. g[i] = Joined(s, w)
      BY <1>5, <2>1, <2>2
    <3> QED
      BY <3>1, Zenon DEF Joined
  <2>5. Words(g[i]) = Words(s) \o <<w>>
    <3>1. Words(s \o <<Blank>> \o w) = Words(s) \o Words(w)
      BY <2>3, WordsApart
    <3> QED
      BY <2>4, <3>1, WordsOfWord, Zenon
  <2>6. PICK us \in Seq(Word) : us = SubSeq(ws, 1, i) /\ us = Words(s)
    <3>1. Words(s) = SubSeq(ws, 1, i - 1 + 1)
      BY <1>7, <2>2
    <3>2. i - 1 + 1 = i /\ 1 \in 1 .. Len(ws) + 1 /\ i \in 1 - 1 .. Len(ws)
      BY <1>1
    <3> QED
      BY <3>1, <3>2, PartOf
  <2>7. SubSeq(ws, 1, i + 1) = Append(us, w)
    <3>1. PICK k \in 1 .. Len(ws) : k = i + 1
      BY <1>1
    <3>2. SubSeq(ws, 1, k) = Append(SubSeq(ws, 1, k - 1), ws[k])
      BY PrefixStep
    <3>3. k - 1 = i
      BY <3>1
    <3> QED
      BY <2>1, <2>6, <3>1, <3>2, <3>3
  <2>8. Append(us, w) = us \o <<w>>
    BY AppendIsConcat
  <2>9. Words(g[i]) = SubSeq(ws, 1, i + 1)
    BY <2>5, <2>6, <2>7, <2>8, Zenon
  <2> QED
    BY <2>9
<1> HIDE DEF T
<1>8. n \in T
  <2>1. \A i \in 0 .. n : i \in T
    BY <1>6, <1>7, Steps
  <2> QED
    BY <2>1
<1>9. Words(g[n]) = ws
  <2>1. SubSeq(ws, 1, n + 1) = ws
    BY <1>1, SubSeqFull
  <2> QED
    BY <1>8, <2>1 DEF T
<1>10. Join(ws) = g[n]
  BY <1>2, <1>4, Zenon DEF Join
<1> QED
  BY <1>5, <1>9, <1>10

\* What is written behind the ";" is a text, and with two arguments or more its
\* words are all but the first (lines 776-786).
LEMMA DefinitionWords ==
  ASSUME NEW args \in Seq(Word), NEW c, c = Definition(args)
  PROVE  /\ c \in Seq(Char)
         /\ Len(args) >= 2 => Words(c) = Tail(args)
<1>1. PICK n \in Nat : n = Len(args)
  BY LenProperties
<1>2. c = CASE n < 2 -> <<Junk>>
            [] n = 2 -> Append(args[2], Blank)
            [] OTHER -> Join(Tail(args))
  BY <1>1, Zenon DEF Definition
<1>3. CASE n < 2
  <2>1. c = <<Junk>>
    BY <1>2, <1>3
  <2>2. Junk \in Char
    BY SignsAreChars
  <2> QED
    BY <1>1, <1>3, <2>1, <2>2
<1>4. CASE n = 2
  <2>1. PICK w \in Word : w = args[2]
    <3>1. 2 \in 1 .. Len(args)
      BY <1>1, <1>4
    <3> QED
      BY <3>1, ElementOfSeq
  <2>2. w \in Seq(Char)
    BY DEF Word, Solid
  <2>3. c = Append(w, Blank)
    <3>1. ~(n < 2)
      BY <1>4
    <3> QED
      BY <1>2, <1>4, <2>1, <3>1, Zenon
  <2>4. Words(Append(w, Blank)) = <<w>>
    BY <2>2, WordsBeforeBlank, WordsOfWord
  <2>5. c \in Seq(Char)
    BY <2>2, <2>3, BlankBehind
  <2>6. Tail(args) = <<w>>
    <3>1. args # <<>>
      <4>1. Len(args) # 0
        BY <1>1, <1>4
      <4> QED
        BY ONLY <4>1, args \in Seq(Word), EmptySeq
    <3>2. PICK ts \in Seq(Word) : ts = Tail(args) /\ Len(ts) = n - 1
      BY <1>1, <3>1, HeadTailProperties
    <3>3. Len(ts) = 1 /\ ts[1] = args[2]
      <4>1. \A i \in 1 .. Len(ts) : ts[i] = args[i + 1]
        BY <3>1, <3>2, HeadTailProperties
      <4> QED
        BY <1>4, <3>2, <4>1
    <3>4. ts = <<w>>
      BY <2>1, <3>3
    <3> QED
      BY <3>2, <3>4
  <2>7. Words(c) = Tail(args)
    BY ONLY <2>3, <2>4, <2>6, Zenon
  <2> QED
    BY <2>5, <2>7
<1>5. CASE n > 2
  <2>1. args # <<>>
    BY <1>1, <1>5
  <2>2. PICK ts \in Seq(Word) : ts = Tail(args) /\ Len(ts) = n - 1
    BY <1>1, <2>1, HeadTailProperties
  <2>3. c = Join(ts)
    <3>1. ~(n < 2) /\ n # 2
      BY <1>5
    <3> QED
      BY <1>2, <2>2, <3>1, Zenon
  <2>4. Join(ts) \in Seq(Char) /\ Words(Join(ts)) = ts
    <3>1. Len(ts) >= 1
      BY <1>5, <2>2
    <3> QED
      BY <3>1, WordsJoined
  <2> QED
    BY <2>2, <2>3, <2>4
<1> QED
  BY <1>3, <1>4, <1>5

\* A line of alias.txt is split at its first ";", which stands behind the name if
\* none is in it (line 97).
LEMMA EntryIs ==
  ASSUME NEW a \in Solid, NEW c \in Seq(Char),
         NEW text, text = a \o <<Semicolon>> \o c
  PROVE  /\ Entry(text) \in Entries
         /\ Semicolon \notin ToSet(a) => Entry(text).alias = a /\ Entry(text).comm = c
<1>1. PICK m \in Nat, n \in Nat : m = Len(a) /\ n = Len(c)
  BY LenProperties DEF Solid
<1>2. a \in Seq(Char) /\ \A i \in 1 .. m : a[i] # Blank
  BY <1>1 DEF Solid
<1>3. Semicolon \in Char
  BY SignsAreChars
<1>4. /\ text \in Seq(Char)
      /\ Len(text) = m + 1 + n
      /\ \A i \in 1 .. m : text[i] = a[i]
      /\ text[m + 1] = Semicolon
      /\ \A i \in 1 .. n : text[m + 1 + i] = c[i]
  <2>1. PICK b : b = a \o <<Semicolon>>
    OBVIOUS
  <2>2. Append(a, Semicolon) = a \o <<Semicolon>>
    BY <1>2, <1>3, AppendIsConcat
  <2>3. text = Append(a, Semicolon) \o c
    BY <2>2, Zenon
  <2> QED
    BY ONLY <1>1, <1>2, <1>3, <2>3, c \in Seq(Char), Between
<1>5. PICK s \in Seq(Char) : s = <<Semicolon>>
  <2>1. <<Semicolon>> \in Seq(Char)
    BY <1>3
  <2> QED
    BY <2>1, Zenon
<1>6. Len(s) = 1 /\ s # <<>> /\ s[1] = Semicolon
  BY <1>5
<1>7. PICK loc : loc = FirstAt(s, text)
  OBVIOUS
<1>8. ASSUME NEW i \in 1 .. m + 1 + n
      PROVE  SubSeq(text, i, i + Len(s) - 1) = s <=> text[i] = Semicolon
  <2>1. PICK h : h = SubSeq(text, i, i)
    OBVIOUS
  <2>2. h \in Seq(Char) /\ Len(h) = 1 /\ h[1] = text[i]
    <3>1. i \in 1 .. Len(text) + 1 /\ i \in i - 1 .. Len(text)
      BY <1>4
    <3>2. /\ h \in Seq(Char) /\ Len(h) = i - i + 1
          /\ \A k \in 1 .. i - i + 1 : h[k] = text[i + k - 1]
      BY ONLY <1>4, <2>1, <3>1, PartOf
    <3>3. i - i + 1 = 1 /\ 1 \in 1 .. i - i + 1 /\ i + 1 - 1 = i
      OBVIOUS
    <3>4. h[1] = text[i + 1 - 1]
      BY <3>2, <3>3
    <3> QED
      BY <3>2, <3>3, <3>4
  <2>3. h = s <=> h[1] = s[1]
    <3>1. (\A k \in 1 .. 1 : h[k] = s[k]) <=> h[1] = s[1]
      OBVIOUS
    <3> QED
      BY <1>6, <2>2, <3>1, SeqEqual
  <2>4. i + Len(s) - 1 = i
    BY <1>6
  <2> QED
    BY <1>6, <2>1, <2>2, <2>3, <2>4
<1>9. /\ loc \in 0 .. m + 1 + n
      /\ loc = 0 => \A i \in 1 .. m + 1 + n : SubSeq(text, i, i + Len(s) - 1) # s
      /\ loc # 0 => /\ loc >= 1
                    /\ SubSeq(text, loc, loc + Len(s) - 1) = s
                    /\ \A i \in 1 .. loc - 1 : SubSeq(text, i, i + Len(s) - 1) # s
  <2>1. /\ loc \in 0 .. Len(text) - Len(s) + 1 \/ loc = 0
        /\ loc = 0 => \A i \in 1 .. Len(text) - Len(s) + 1 :
                         SubSeq(text, i, i + Len(s) - 1) # s
        /\ loc # 0 => /\ loc >= 1
                      /\ SubSeq(text, loc, loc + Len(s) - 1) = s
                      /\ \A i \in 1 .. loc - 1 : SubSeq(text, i, i + Len(s) - 1) # s
    <3>1. text \in Seq(Char) /\ s # <<>>
      BY ONLY <1>4, <1>6
    <3> QED
      BY ONLY <3>1, <1>7, s \in Seq(Char), FirstAtIs, ZenonT(30)
  <2>2. Len(text) - Len(s) + 1 = m + 1 + n
    BY <1>4, <1>6
  <2>3. /\ loc \in 0 .. m + 1 + n \/ loc = 0
        /\ loc = 0 => \A i \in 1 .. m + 1 + n : SubSeq(text, i, i + Len(s) - 1) # s
        /\ loc # 0 => /\ loc >= 1
                      /\ SubSeq(text, loc, loc + Len(s) - 1) = s
                      /\ \A i \in 1 .. loc - 1 : SubSeq(text, i, i + Len(s) - 1) # s
    BY ONLY <2>1, <2>2, Zenon
  <2>4. 0 \in 0 .. m + 1 + n
    OBVIOUS
  <2> QED
    BY ONLY <2>3, <2>4, Zenon
<1>10. m + 1 \in 1 .. m + 1 + n
  OBVIOUS
<1>11. loc \in 1 .. m + 1 /\ text[loc] = Semicolon /\ \A i \in 1 .. loc - 1 : text[i] # Semicolon
  <2>1. loc # 0
    BY <1>4, <1>8, <1>9, <1>10
  <2>2. loc \in 1 .. m + 1 + n
    BY <1>9, <2>1
  <2>3. text[loc] = Semicolon
    BY <1>8, <1>9, <2>1, <2>2
  <2>4. \A i \in 1 .. loc - 1 : text[i] # Semicolon
    <3> TAKE i \in 1 .. loc - 1
    <3>1. i \in 1 .. m + 1 + n
      BY <2>2
    <3> QED
      BY <1>8, <1>9, <2>1, <3>1
  <2>5. ~(loc > m + 1)
    <3> SUFFICES ASSUME loc > m + 1 PROVE FALSE
      OBVIOUS
    <3>1. m + 1 \in 1 .. loc - 1
      BY <2>2
    <3> QED
      BY <1>4, <2>4, <3>1
  <2> QED
    BY <2>2, <2>3, <2>4, <2>5
<1>12. PICK x, y : x = SubSeq(text, 1, loc - 1) /\ y = SubSeq(text, loc + 1, Len(text))
  OBVIOUS
<1>13. /\ x \in Seq(Char) /\ y \in Seq(Char)
       /\ Len(x) = loc - 1 /\ Len(y) = m + 1 + n - loc
       /\ \A i \in 1 .. loc - 1 : x[i] = text[i]
       /\ \A i \in 1 .. m + 1 + n - loc : y[i] = text[loc + i]
  <2>1. loc \in 1 .. Len(text)
    BY <1>4, <1>11
  <2>2. /\ x \in Seq(Char) /\ y \in Seq(Char)
        /\ Len(x) = loc - 1 /\ Len(y) = Len(text) - loc
        /\ \A i \in 1 .. loc - 1 : x[i] = text[i]
        /\ \A i \in 1 .. Len(text) - loc : y[i] = text[loc + i]
    BY ONLY <1>4, <1>12, <2>1, SidesOf
  <2>3. PICK q : q = Len(text)
    OBVIOUS
  <2>4. q = m + 1 + n
    BY <1>4, <2>3
  <2>5. /\ x \in Seq(Char) /\ y \in Seq(Char)
        /\ Len(x) = loc - 1 /\ Len(y) = q - loc
        /\ \A i \in 1 .. loc - 1 : x[i] = text[i]
        /\ \A i \in 1 .. q - loc : y[i] = text[loc + i]
    BY ONLY <2>2, <2>3, Zenon
  <2>6. q - loc = m + 1 + n - loc
    BY <1>11, <2>4
  <2>7. Len(y) = m + 1 + n - loc
    BY ONLY <2>5, <2>6, Zenon
  <2>8. \A i \in 1 .. m + 1 + n - loc : y[i] = text[loc + i]
    <3> TAKE i \in 1 .. m + 1 + n - loc
    <3>1. i \in 1 .. q - loc
      BY ONLY <2>6, i \in 1 .. m + 1 + n - loc, Zenon
    <3> QED
      BY ONLY <2>5, <3>1, Zenon
  <2> QED
    BY ONLY <2>5, <2>7, <2>8, Zenon
<1>14. Entry(text) = [alias |-> x, comm |-> y]
  <2>1. loc = FirstAt(<<Semicolon>>, text)
    BY ONLY <1>5, <1>7, Zenon
  <2> QED
    BY ONLY <1>12, <2>1, Zenon DEF Entry
<1>15. x \in Solid
  <2>1. \A i \in 1 .. Len(x) : x[i] # Blank
    <3> TAKE i \in 1 .. Len(x)
    <3>1. loc \in 1 .. m + 1 /\ i \in 1 .. loc - 1
      BY ONLY <1>11, <1>13, i \in 1 .. Len(x), Zenon
    <3>2. i \in 1 .. m
      BY ONLY <3>1, m \in Nat
    <3>3. x[i] = text[i] /\ text[i] = a[i] /\ a[i] # Blank
      BY ONLY <1>2, <1>4, <1>13, <3>1, <3>2, Zenon
    <3> QED
      BY ONLY <3>3, Zenon
  <2> QED
    BY <1>13, <2>1 DEF Solid
<1>16. ASSUME Semicolon \notin ToSet(a) PROVE x = a /\ y = c
  <2>1. \A i \in 1 .. m : a[i] # Semicolon
    BY <1>1, <1>2, <1>16, LenProperties DEF ToSet
  <2>2. loc = m + 1
    <3> SUFFICES ASSUME loc # m + 1 PROVE FALSE
      OBVIOUS
    <3>1. loc \in 1 .. m
      BY <1>11
    <3> QED
      BY <1>4, <1>11, <2>1, <3>1
  <2>3. Len(x) = Len(a) /\ \A i \in 1 .. Len(x) : x[i] = a[i]
    BY <1>1, <1>4, <1>13, <2>2
  <2>4. Len(y) = Len(c) /\ \A i \in 1 .. Len(y) : y[i] = c[i]
    <3>1. m + 1 + n - loc = n
      BY <2>2
    <3>2. Len(y) = n /\ \A i \in 1 .. n : y[i] = text[loc + i]
      BY ONLY <1>13, <3>1, Zenon
    <3>3. \A i \in 1 .. n : y[i] = c[i]
      BY ONLY <1>4, <2>2, <3>2, Zenon
    <3> QED
      BY ONLY <1>1, <3>2, <3>3, Zenon
  <2> QED
    BY <1>2, <1>13, <2>3, <2>4, SeqEqual
<1>17. Entry(text) \in Entries
  <2>1. x \in Solid /\ y \in Seq(Char)
    BY <1>13, <1>15
  <2>2. [alias |-> x, comm |-> y] \in Entries
    BY ONLY <2>1 DEF Entries
  <2> QED
    BY ONLY <1>14, <2>2, Zenon
<1>18. Entry(text).alias = x /\ Entry(text).comm = y
  BY <1>14
<1> QED
  BY ONLY <1>16, <1>17, <1>18, Zenon

\* What the command alias writes is an entry; it gives the words of the definition
\* back if there is one and no ";" is in the name (lines 773-790).
LEMMA EntryWords ==
  ASSUME NEW args \in Seq(Word), NEW entry, entry = AliasEntry(args)
  PROVE  /\ entry \in Entries
         /\ Len(args) >= 2 /\ Semicolon \notin ToSet(args[1]) =>
              entry.alias = args[1] /\ Words(entry.comm) = Tail(args)
<1>1. PICK a \in Word : a = IF args = <<>> THEN <<Junk>> ELSE args[1]
  <2>1. CASE args = <<>>
    <3>1. Junk \in Char /\ Junk # Blank
      BY SignsAreChars DEF Junk, Blank
    <3>2. <<Junk>> \in Word
      BY <3>1 DEF Word, Solid
    <3> QED
      BY <2>1, <3>2
  <2>2. CASE args # <<>>
    <3>1. 1 \in 1 .. Len(args)
      BY <2>2, EmptySeq, LenProperties
    <3>2. args[1] \in Word
      BY <3>1, ElementOfSeq
    <3> QED
      BY <2>2, <3>2
  <2> QED
    BY <2>1, <2>2
<1>2. PICK c \in Seq(Char) : c = Definition(args)
  BY DefinitionWords
<1>3. PICK text : text = a \o <<Semicolon>> \o c
  OBVIOUS
<1>4. entry = Entry(text)
  BY ONLY <1>1, <1>2, <1>3, entry = AliasEntry(args), Zenon DEF AliasEntry
<1>5. /\ Entry(text) \in Entries
      /\ Semicolon \notin ToSet(a) => Entry(text).alias = a /\ Entry(text).comm = c
  <2>1. a \in Solid /\ c \in Seq(Char)
    BY DEF Word
  <2> QED
    BY ONLY <1>3, <2>1, EntryIs
<1>6. ASSUME Len(args) >= 2, Semicolon \notin ToSet(args[1])
      PROVE  entry.alias = args[1] /\ Words(entry.comm) = Tail(args)
  <2>1. args # <<>>
    BY <1>6
  <2>2. a = args[1]
    BY <1>1, <2>1
  <2>3. Words(c) = Tail(args)
    BY <1>2, <1>6, DefinitionWords
  <2> QED
    BY ONLY <1>4, <1>5, <1>6, <2>2, <2>3, Zenon
<1> QED
  BY <1>4, <1>5, <1>6

\* Where the only word is another than the name nothing is replaced.
LEMMA ExpandOther ==
  ASSUME NEW a \in Word, NEW entry \in Entries, entry.alias # a
  PROVE  WordExpand(<<a>>, entry) = <<a>>
<1>1. PICK ws \in Seq(Word) : ws = <<a>>
  <2>1. <<a>> \in Seq(Word)
    OBVIOUS
  <2> QED
    BY <2>1, Zenon
<1>2. Len(ws) = 1 /\ ws[1] = a
  BY <1>1
<1>3. CASE EndsAt(a, Len(a), entry.alias)
  <2>1. /\ 1 \in 1 .. Len(ws)
        /\ \A m \in 1 .. 1 - 1 : ~EndsAt(ws[m], Len(ws[m]), entry.alias)
        /\ EndsAt(ws[1], Len(ws[1]), entry.alias)
        /\ ws[1] # entry.alias
    BY <1>2, <1>3
  <2>2. WordExpand(ws, entry) = ws
    BY <2>1, ExpandAt
  <2> QED
    BY <1>1, <2>2
<1>4. CASE ~EndsAt(a, Len(a), entry.alias)
  <2>1. \A m \in 1 .. Len(ws) : ~EndsAt(ws[m], Len(ws[m]), entry.alias)
    BY <1>2, <1>4
  <2>2. WordExpand(ws, entry) = ws
    BY <2>1, ExpandNothing
  <2> QED
    BY <1>1, <2>2
<1> QED
  BY <1>3, <1>4

\* A name that is the only word becomes what was defined.
LEMMA ExpandName ==
  ASSUME NEW a \in Word, NEW entry \in Entries, entry.alias = a,
         NEW ts \in Seq(Word), ts = Words(entry.comm)
  PROVE  WordExpand(<<a>>, entry) = ts
<1>1. PICK ws \in Seq(Word) : ws = <<a>>
  <2>1. <<a>> \in Seq(Word)
    OBVIOUS
  <2> QED
    BY <2>1, Zenon
<1>2. WordExpand(ws, entry)
        = SubSeq(ws, 1, 1 - 1) \o Words(entry.comm) \o SubSeq(ws, 1 + 1, Len(ws))
  <2>1. 1 \in 1 .. Len(ws) /\ ws[1] = a
    BY <1>1
  <2>2. \A m \in 1 .. 1 - 1 : ~EndsAt(ws[m], Len(ws[m]), entry.alias)
    OBVIOUS
  <2>3. EndsAt(ws[1], Len(ws[1]), entry.alias)
    <3>1. a \in Seq(Char)
      BY DEF Word, Solid
    <3>2. Len(a) \in Nat
      BY <3>1, LenProperties
    <3>3. EndsAt(a, Len(a), a)
      BY <3>2 DEF EndsAt
    <3> QED
      BY <2>1, <3>3
  <2> QED
    BY <2>1, <2>2, <2>3, ExpandAt
<1>3. Len(ws) = 1
  BY <1>1
<1>4. SubSeq(ws, 1, 1 - 1) = <<>> /\ SubSeq(ws, 1 + 1, Len(ws)) = <<>>
  BY <1>3, SubSeqEmpty
<1>5. <<>> \o ts \o <<>> = ts
  BY ConcatEmptySeq
<1>6. WordExpand(ws, entry) = <<>> \o ts \o <<>>
  BY ONLY <1>2, <1>4, ts = Words(entry.comm), Zenon
<1> QED
  BY ONLY <1>1, <1>5, <1>6, Zenon

\* A line that is nothing but the name of the last entry becomes what was defined,
\* behind older entries: their names are shorter.
LEMMA EntryExpands ==
  ASSUME NEW args \in Seq(Word), Len(args) >= 2, Semicolon \notin ToSet(args[1]),
         NEW f \in Seq(Entries), NEW left \in Seq(Cell),
         NEW h, h = Append(f, AliasEntry(args)), Lengthening(h, left)
  PROVE  Words(CheckForAliases(args[1], h, left).text) = Tail(args)
<1>1. PICK entry \in Entries : entry = AliasEntry(args)
  BY EntryWords
<1>2. PICK a \in Word : a = args[1]
  <2>1. 1 \in 1 .. Len(args)
    BY LenProperties
  <2> QED
    BY <2>1, ElementOfSeq
<1>3. a \in Seq(Char)
  BY DEF Word, Solid
<1>4. entry.alias = a /\ Words(entry.comm) = Tail(args)
  BY <1>1, <1>2, EntryWords
<1>5. PICK k \in Nat : k = Len(f)
  BY LenProperties
<1>6. h \in Seq(Entries) /\ Len(h) = k + 1 /\ h[k + 1] = entry
  BY <1>1, <1>5, AppendProperties
<1>7. \A i \in 1 .. k + 1 : h[i] \in Entries
  BY <1>6, ElementOfSeq
<1> DEFINE NameSize(i) == Len(h[i].alias)
<1>8. \A i \in 1 .. k + 1 : NameSize(i) \in Nat
  <2> TAKE i \in 1 .. k + 1
  <2>1. h[i].alias \in Seq(Char)
    BY <1>7 DEF Entries, Solid
  <2> QED
    BY <2>1, LenProperties
<1>9. \A i \in 2 .. k + 1 : NameSize(i - 1) < NameSize(i)
  <2> TAKE i \in 2 .. k + 1
  <2>1. i \in 1 .. Len(h) /\ i # 1
    BY <1>6
  <2>2. (IF i = 1 THEN 0 ELSE NameSize(i - 1)) < NameSize(i)
    BY <2>1 DEF Lengthening
  <2> QED
    BY <2>1, <2>2
<1> HIDE DEF NameSize
<1>10. \A i \in 1 .. k : NameSize(i) < NameSize(k + 1)
  <2> DEFINE S == {i \in 0 .. k + 1 : \A j \in 1 .. i : j < i => NameSize(j) < NameSize(i)}
  <2>1. 0 \in S
    OBVIOUS
  <2>2. ASSUME NEW i \in 1 .. k + 1, i - 1 \in S PROVE i \in S
    <3>1. ASSUME NEW j \in 1 .. i, j < i PROVE NameSize(j) < NameSize(i)
      <4>1. i \in 2 .. k + 1 /\ i - 1 \in 1 .. k + 1 /\ j \in 1 .. k + 1 /\ j \in 1 .. i - 1
        BY <3>1
      <4>2. NameSize(i - 1) < NameSize(i)
        BY <1>9, <4>1
      <4>3. j < i - 1 => NameSize(j) < NameSize(i - 1)
        BY <2>2, <4>1
      <4>4. j < i - 1 \/ j = i - 1
        BY <3>1, <4>1
      <4>5. NameSize(j) \in Nat /\ NameSize(i) \in Nat /\ NameSize(i - 1) \in Nat
        BY <1>8, <4>1
      <4> QED
        BY <4>2, <4>3, <4>4, <4>5
    <3> QED
      BY <3>1
  <2> HIDE DEF S
  <2>3. \A i \in 0 .. k + 1 : i \in S
    <3>1. PICK q \in Nat : q = k + 1
      OBVIOUS
    <3>2. \A i \in 1 .. q : i - 1 \in S => i \in S
      BY <2>2, <3>1
    <3>3. \A i \in 0 .. q : i \in S
      BY ONLY <2>1, <3>2, q \in Nat, Steps
    <3> QED
      BY <3>1, <3>3
  <2>4. k + 1 \in S
    BY <2>3
  <2> QED
    BY <2>4 DEF S
<1>11. Words(CheckForAliases(a, h, left).text) = FoldLeft(WordExpand, Words(a), h)
  BY <1>3, <1>6, ExpandedWords
<1>12. PICK ws \in Seq(Word) : ws = <<a>>
  <2>1. <<a>> \in Seq(Word)
    OBVIOUS
  <2> QED
    BY <2>1, Zenon
<1>13. Words(a) = ws
  BY <1>12, WordsOfWord
<1>14. PICK e : IsExpansion(e, ws, h) /\ FoldLeft(WordExpand, ws, h) = e[k + 1]
  BY <1>6, ExpansionOf
<1>15. e[0] = ws /\ \A i \in 1 .. k + 1 : e[i] = WordExpand(e[i - 1], h[i])
  BY <1>6, <1>14 DEF IsExpansion
<1>16. e[k] = ws
  <2> DEFINE S == {i \in 0 .. k : e[i] = ws}
  <2>1. 0 \in S
    BY <1>15
  <2>2. ASSUME NEW i \in 1 .. k, i - 1 \in S PROVE i \in S
    <3>1. i \in 1 .. k + 1 /\ e[i - 1] = ws /\ h[i] \in Entries
      <4>1. i \in 1 .. k + 1
        OBVIOUS
      <4>2. e[i - 1] = ws
        BY <2>2
      <4> QED
        BY ONLY <1>7, <4>1, <4>2, Zenon
    <3>2. e[i] = WordExpand(ws, h[i])
      BY <1>15, <3>1
    <3>3. h[i].alias # a
      <4>1. NameSize(i) < NameSize(k + 1) /\ NameSize(k + 1) = Len(a)
        BY <1>4, <1>6, <1>10 DEF NameSize
      <4>2. Len(a) \in Nat
        BY <1>3, LenProperties
      <4>3. NameSize(i) # Len(a)
        BY <1>8, <3>1, <4>1, <4>2
      <4> QED
        BY <4>3 DEF NameSize
    <3>4. WordExpand(<<a>>, h[i]) = <<a>>
      BY <3>1, <3>3, ExpandOther
    <3>5. e[i] = ws
      BY ONLY <1>12, <3>2, <3>4, Zenon
    <3> QED
      BY <3>5
  <2> HIDE DEF S
  <2>3. \A i \in 0 .. k : i \in S
    BY <2>1, <2>2, Steps
  <2>4. k \in S
    BY <2>3
  <2> QED
    BY <2>4 DEF S
<1>17. e[k + 1] = WordExpand(ws, entry)
  <2>1. PICK q \in 1 .. k + 1 : q = k + 1 /\ q - 1 = k
    OBVIOUS
  <2>2. e[q] = WordExpand(e[q - 1], h[q])
    BY <1>15
  <2> QED
    BY ONLY <1>6, <1>16, <2>1, <2>2, Zenon
<1>18. PICK ts \in Seq(Word) : ts = Tail(args)
  <2>1. args # <<>>
    OBVIOUS
  <2> QED
    BY <2>1, HeadTailProperties
<1>19. WordExpand(<<a>>, entry) = ts
  <2>1. ts = Words(entry.comm)
    BY <1>4, <1>18
  <2> QED
    BY <1>4, <2>1, ExpandName
<1> QED
  BY ONLY <1>2, <1>11, <1>12, <1>13, <1>14, <1>17, <1>18, <1>19, Zenon

-----------------------------------------------------------------------------
(***************************************************************************)
(* What is run is what was entered                                         *)
(***************************************************************************)
\* alias.txt has entries, now and when the line was entered, and the command is
\* what the parser makes of that line with the aliases of that file.
LineMeant ==
  /\ file \in Seq(Entries)
  /\ before \in Seq(Entries)
  /\ stack \in Seq(Cell)
  /\ at \in {"run", "crashed"} => command = ParseCommand(Expanded)

\* What check_for_aliases finds in its array is an array.
LEMMA StacksAreArrays ==
  ASSUME NEW left \in Stacks
  PROVE  left \in Seq(Cell)
<1>1. \A x \in STRING : x \in Cell
  BY Zenon DEF Cell, Char
<1>2. left \in Seq(STRING)
  BY ArraysAssumption
<1> QED
  BY <1>1, <1>2, SeqMonotonic

\* alias.txt has entries at the start, and there is no command.
LEMMA InitMeant ==
  ASSUME Init
  PROVE  LineMeant
<1>1. file \in Files /\ before = <<>> /\ stack = <<>> /\ at = "prompt"
  BY DEF Init
<1>2. PICK f : f = file
  OBVIOUS
<1>3. /\ f \in Seq([alias : Seq(Letters), comm : Seq(Letters)])
      /\ \A i \in 1 .. Len(f) : Blank \notin ToSet(f[i].alias)
  BY <1>1, <1>2, FilesAssumption
<1>4. \A x \in Letters : x \in Char
  BY Zenon DEF Letters, Char
<1>5. ASSUME NEW i \in 1 .. Len(f) PROVE f[i] \in Entries
  <2>1. f[i] \in [alias : Seq(Letters), comm : Seq(Letters)]
    BY <1>3, ElementOfSeq
  <2>2. PICK a \in Seq(Letters), c \in Seq(Letters) : f[i] = [alias |-> a, comm |-> c]
    BY <2>1
  <2>3. Blank \notin ToSet(a)
    BY <1>3, <2>2
  <2>4. a \in Seq(Char) /\ c \in Seq(Char)
    BY <1>4, SeqMonotonic
  <2>5. \A k \in 1 .. Len(a) : a[k] # Blank
    BY <2>3, LenProperties DEF ToSet
  <2>6. a \in Solid
    BY <2>4, <2>5 DEF Solid
  <2> QED
    BY <2>2, <2>4, <2>6 DEF Entries
<1>6. f \in Seq(Entries)
  <2>1. PICK n \in Nat : n = Len(f)
    BY <1>3, LenProperties
  <2>2. f = [i \in 1 .. n |-> f[i]]
    BY <1>3, <2>1
  <2>3. f \in [1 .. n -> Entries]
    BY <1>5, <2>1, <2>2
  <2> QED
    BY <2>3, SeqDef
<1> QED
  BY <1>1, <1>2, <1>6 DEF LineMeant

\* The end of a prompt parses the line with the aliases of the file as it is.
LEMMA AcceptMeant ==
  ASSUME LineMeant, NEW b, NEW n, Accept(b, n)
  PROVE  LineMeant'
<1>1. CASE n >= Size
  <2>1. at' = "overrun" /\ UNCHANGED <<file, before, stack>>
    BY <1>1 DEF Accept
  <2> QED
    BY <2>1 DEF LineMeant
<1>2. CASE ~(n >= Size)
  <2> DEFINE entered == Text(Store(b, n, <<NUL>>))
  <2>1. /\ line' = entered /\ before' = file /\ file' = file
        /\ \E left \in Stacks :
             /\ stack' = left
             /\ command' = ParseCommand(CheckForAliases(entered, file, left).text)
    BY <1>2, Zenon DEF Accept
  <2> HIDE DEF entered
  <2>2. PICK left \in Stacks :
          /\ stack' = left
          /\ command' = ParseCommand(CheckForAliases(entered, file, left).text)
    BY <2>1, Zenon
  <2>3. stack' \in Seq(Cell)
    BY <2>2, StacksAreArrays
  <2>4. command' = ParseCommand(CheckForAliases(line', before', stack').text)
    BY ONLY <2>1, <2>2, Zenon
  <2> QED
    BY <2>1, <2>3, <2>4 DEF LineMeant, Expanded
<1> QED
  BY <1>1, <1>2

\* A step that keeps the file and the line waits for a command or parses one.
LEMMA NextMeant ==
  ASSUME LineInv, LineMeant, [Next]_vars
  PROVE  LineMeant'
<1>1. ASSUME NEW s, Type(s) PROVE LineMeant'
  <2>1. CASE index + Len(s) >= Size - 1
    <3>1. Accept(Store(buf, index, s), index + Len(s))
      BY <1>1, <2>1 DEF Type
    <3> QED
      BY <3>1, AcceptMeant
  <2>2. CASE ~(index + Len(s) >= Size - 1)
    <3>1. at = "edit" /\ UNCHANGED <<at, file, before, stack>>
      BY <1>1, <2>2 DEF Type, Pressing
    <3> QED
      BY <3>1 DEF LineMeant
  <2> QED
    BY <2>1, <2>2
<1>2. CASE Prompt
  <2>1. at' = "edit" /\ UNCHANGED <<file, before, stack>>
    BY <1>2 DEF Prompt
  <2> QED
    BY <2>1 DEF LineMeant
<1>3. CASE Backspace \/ UpArrow
  <2>1. at' \in {"edit", "overrun"} /\ UNCHANGED <<file, before, stack>>
    BY <1>3 DEF Backspace, UpArrow, Pressing
  <2> QED
    BY <2>1 DEF LineMeant
<1>4. CASE Enter
  BY <1>4, AcceptMeant DEF Enter
<1>5. CASE Tab
  BY <1>5, AcceptMeant DEF Tab
<1>6. CASE CtrlD
  <2>1. CASE index + 1 >= Size - 1
    <3>1. Type(<<EndOfInput>>)
      BY <1>6, <2>1 DEF CtrlD
    <3> QED
      BY <1>1, <3>1
  <2>2. CASE ~(index + 1 >= Size - 1)
    <3>1. at' = "ended" /\ UNCHANGED <<file, before, stack>>
      BY <1>6, <2>2 DEF CtrlD
    <3> QED
      BY <3>1 DEF LineMeant
  <2> QED
    BY <2>1, <2>2
<1>7. CASE Run
  <2>1. /\ at = "run" /\ at' = "prompt" /\ before' = <<>> /\ stack' = <<>>
        /\ file' = IF command.cmd.name = AliasName
                   THEN Append(file, AliasEntry(command.cmd.args)) ELSE file
    BY <1>7 DEF Run
  <2>2. Expanded \in Seq(Char)
    BY ExpandedType DEF LineInv, LineTypes, CString, LineMeant, Expanded
  <2>3. command.cmd.args \in Seq(Word)
    BY <2>1, <2>2, ParsedText DEF LineMeant
  <2>4. AliasEntry(command.cmd.args) \in Entries
    BY <2>3, EntryWords
  <2>5. file' \in Seq(Entries)
    BY <2>1, <2>4, AppendProperties DEF LineMeant
  <2>6. before' \in Seq(Entries) /\ stack' \in Seq(Cell)
    BY <2>1
  <2> QED
    BY <2>1, <2>5, <2>6 DEF LineMeant
<1>8. CASE UNCHANGED vars
  BY <1>8 DEF vars, LineMeant, Expanded
<1> QED
  BY <1>1, <1>2, <1>3, <1>4, <1>5, <1>6, <1>7, <1>8 DEF Next

\* What is run is what was entered: alias.txt has nothing but entries of a name
\* without a blank and a text, and from the end of a prompt the command is the one
\* the parser makes of the line kept in oldbuf, with the aliases of the file as it
\* was then and with what the array alias held (lines 517-611).
THEOREM LineMeaning == Spec => [](LineInv /\ LineMeant)
<1>1. Init => LineInv /\ LineMeant
  BY InitLine, InitMeant
<1>2. LineInv /\ LineMeant /\ [Next]_vars => LineInv' /\ LineMeant'
  BY NextLine, NextMeant
<1> QED
  BY <1>1, <1>2, PTL DEF Spec

\* The text with its aliases replaced is a text.
LEMMA ExpandedIsText ==
  ASSUME LineInv, LineMeant
  PROVE  Expanded \in Seq(Char)
BY ExpandedType DEF LineInv, LineTypes, CString, LineMeant, Expanded

\* The parser gives each word of the line its meaning, whatever the line, the alias
\* file and the leftovers of the stack: the first is the name, a sign takes the next
\* word whatever it is, an & alone is dropped and a | ends the command (lines
\* 371-483).
THEOREM LineParses == Spec => []ParsesWords
<1>1. LineInv /\ LineMeant => ParsesWords
  <2> SUFFICES ASSUME LineInv, LineMeant, at \in {"run", "crashed"}
               PROVE  Says(Words(Expanded), command)
    BY DEF ParsesWords
  <2>1. command = ParseCommand(Expanded)
    BY DEF LineMeant
  <2> QED
    BY <2>1, ExpandedIsText, ParsedText
<1> QED
  BY <1>1, LineMeaning, PTL

\* Of up to three redirections the last output counts, although the files are kept
\* by kind and not by place: a kind without a sign has no file (lines 445, 822-859).
THEOREM LineStreams == Spec => []LastStreams
<1>1. LineInv /\ LineMeant => LastStreams
  <2> SUFFICES ASSUME LineInv, LineMeant, at = "run",
                      Len(command.cmd.redirect_idxs) <= 3
               PROVE  LastStreams
    BY DEF LastStreams
  <2>1. command = ParseCommand(Expanded)
    BY DEF LineMeant
  <2>2. PICK cmd : cmd = command.cmd
    OBVIOUS
  <2>3. /\ FilesNamed(cmd) /\ cmd.redirect_idxs \in Seq(0 .. 2)
        /\ cmd.redirect_files \in [0 .. 2 -> FileNames]
        /\ Len(cmd.redirect_idxs) <= 3
    BY <2>1, <2>2, ExpandedIsText, ParsedText
  <2>4. LET idxs == cmd.redirect_idxs
            outs == {i \in 1 .. Len(idxs) : idxs[i] # 0}
        IN /\ Streams(cmd).out = IF outs = {} THEN None ELSE cmd.redirect_files[idxs[Max(outs)]]
           /\ Streams(cmd).in = cmd.redirect_files[0]
    BY ONLY <2>3, StreamsAre, Zenon
  <2> QED
    BY <2>2, <2>4, Zenon DEF LastStreams
<1> QED
  BY <1>1, LineMeaning, PTL

\* Replacing text is replacing words, for any texts and any number of entries, when
\* the names in alias.txt increase in length and those that are not one longer than
\* the one before meet a NUL in the array alias (lines 77-127).
THEOREM LineAliases == Spec => []AliasesAreWords
<1>1. LineInv /\ LineMeant => AliasesAreWords
  <2> SUFFICES ASSUME LineInv, LineMeant, Lengthening(before, stack)
               PROVE  Words(Expanded) = FoldLeft(WordExpand, Words(line), before)
    BY DEF AliasesAreWords
  <2>1. line \in Seq(Char) /\ before \in Seq(Entries) /\ stack \in Seq(Cell)
    BY DEF LineInv, LineTypes, CString, LineMeant
  <2> QED
    BY <2>1, ExpandedWords DEF Expanded
<1> QED
  BY <1>1, LineMeaning, PTL

\* An alias that has been defined gives the words of its definition back, however
\* many they are and however many entries alias.txt has before it, if its name has
\* no ";" and all names stand alone in the array (lines 773-790 and 77-127).
THEOREM LineRoundTrip == Spec => AliasRoundTrip
<1> DEFINE Given == at = "run" /\ file' # file /\ Len(command.cmd.args) >= 2 =>
              LET args == command.cmd.args
              IN \A left \in Stacks :
                   Semicolon \notin ToSet(args[1]) /\ Lengthening(file', left) =>
                     Words(CheckForAliases(args[1], file', left).text) = Tail(args)
<1>1. ASSUME LineInv, LineMeant, [Next]_vars PROVE [Given]_vars
  <2> SUFFICES ASSUME Next, at = "run", file' # file, Len(command.cmd.args) >= 2,
                      NEW left \in Stacks,
                      Semicolon \notin ToSet(command.cmd.args[1]), Lengthening(file', left)
               PROVE  Words(CheckForAliases(command.cmd.args[1], file', left).text)
                        = Tail(command.cmd.args)
    BY <1>1, Zenon
  <2>1. Run
    <3>1. /\ \A s : ~Type(s)
          /\ ~Prompt /\ ~Backspace /\ ~UpArrow /\ ~Enter /\ ~Tab
      BY DEF Type, Pressing, Prompt, Backspace, UpArrow, Enter, Tab
    <3>2. ~CtrlD
      BY <3>1 DEF CtrlD, Pressing
    <3> QED
      BY <3>1, <3>2 DEF Next
  <2>2. PICK args : args = command.cmd.args
    OBVIOUS
  <2>3. args \in Seq(Word)
    <3>1. command = ParseCommand(Expanded)
      BY <1>1 DEF LineMeant
    <3> QED
      BY <1>1, <2>2, <3>1, ExpandedIsText, ParsedText
  <2>4. file' = Append(file, AliasEntry(args))
    BY <2>1, <2>2 DEF Run
  <2>5. PICK f \in Seq(Entries) : f = file
    BY <1>1 DEF LineMeant
  <2>6. PICK h : h = file'
    OBVIOUS
  <2>7. h = Append(f, AliasEntry(args))
    BY ONLY <2>4, <2>5, <2>6, Zenon
  <2>8. Len(args) >= 2 /\ Semicolon \notin ToSet(args[1]) /\ Lengthening(h, left)
    BY ONLY <2>2, <2>6, Len(command.cmd.args) >= 2, Zenon,
            Semicolon \notin ToSet(command.cmd.args[1]), Lengthening(file', left)
  <2>9. left \in Seq(Cell)
    BY StacksAreArrays
  <2>10. Words(CheckForAliases(args[1], h, left).text) = Tail(args)
    BY ONLY <2>3, <2>5, <2>7, <2>8, <2>9, EntryExpands
  <2> QED
    BY ONLY <2>2, <2>6, <2>10, Zenon
<1> QED
  BY <1>1, LineMeaning, PTL DEF Spec, AliasRoundTrip

-----------------------------------------------------------------------------
(***************************************************************************)
(* The arrays                                                              *)
(***************************************************************************)
\* With room for the terminator in buf, the end of a prompt overruns only the array
\* alias, and only when the names do not stand alone in it.
LEMMA AcceptOverruns ==
  ASSUME LineMeant, NEW b \in Seq(Cell), NEW n \in Nat, n < Size,
         Accept(b, n), at' = "overrun"
  PROVE  ~Lengthening(file, stack')
<1> DEFINE entered == Text(Store(b, n, <<NUL>>))
<1>1. entered \in Seq(Char)
  <2>1. <<NUL>> \in Seq(Cell)
    BY DEF Cell
  <2>2. Store(b, n, <<NUL>>) \in Seq(Cell)
    BY <2>1, StoreType
  <2> QED
    BY <2>2, TextOf
<1>2. PICK left \in Stacks :
        /\ stack' = left
        /\ at' \in IF ~CheckForAliases(entered, file, left).fits THEN {"overrun"}
                   ELSE {"crashed", "run"}
  <2>1. ~(n >= Size)
    BY SizeAssumption
  <2>2. \E left \in Stacks :
          /\ stack' = left
          /\ at' \in IF ~CheckForAliases(entered, file, left).fits THEN {"overrun"}
                     ELSE IF command'.crashed THEN {"crashed"}
                     ELSE IF EndsInPipe(CheckForAliases(entered, file, left).text)
                          THEN {"crashed", "run"} ELSE {"run"}
    BY <2>1, Zenon DEF Accept
  <2> HIDE DEF entered
  <2> QED
    BY <2>2
<1> HIDE DEF entered
<1>3. ~CheckForAliases(entered, file, left).fits
  BY <1>2
<1>4. file \in Seq(Entries) /\ left \in Seq(Cell)
  BY StacksAreArrays DEF LineMeant
<1>5. Lengthening(file, left) => CheckForAliases(entered, file, left).fits
  BY ONLY <1>1, <1>4, ExpandedWords
<1> QED
  BY <1>2, <1>3, <1>5

\* buf and the array alias are overrun by three kinds of step only: the key behind
\* a recalled line that fills buf but for the terminator, since line 596
\* stores a terminator wherever index stands; the up arrow when every NUL in buf has been typed
\* over, which takes another key in the same prompt (line 573); and the end of a line
\* when the names in alias.txt do not stand alone in the array alias (line 101).
THEOREM LineOverrun ==
  Spec => [][at' = "overrun" /\ at # "overrun" =>
               /\ at = "edit"
               /\ \/ index = Size - 1
                  \/ UpArrow /\ ~onlyUp /\ ~Terminated(buf)
                  \/ ~Lengthening(file, stack')]_vars
<1> DEFINE Cause == \/ index = Size - 1
                    \/ UpArrow /\ ~onlyUp /\ ~Terminated(buf)
                    \/ ~Lengthening(file, stack')
           Given == at' = "overrun" /\ at # "overrun" => at = "edit" /\ Cause
<1>1. ASSUME LineInv, LineMeant, [Next]_vars PROVE [Given]_vars
  <2> SUFFICES ASSUME Next, at' = "overrun", at # "overrun"
               PROVE  at = "edit" /\ Cause
    BY <1>1
  <2>1. /\ Size \in Nat /\ index \in Nat /\ (at = "edit" => index < Size)
        /\ buf \in Seq(Cell) /\ Len(buf) = Size
    BY <1>1, SizeAssumption DEF LineInv, LineTypes, Shown
  <2>2. ASSUME at = "edit", NEW b \in Seq(Cell), NEW n \in Nat, n <= index + 1, Accept(b, n)
        PROVE  Cause
    <3>1. CASE n < Size
      BY <1>1, <2>2, <3>1, AcceptOverruns
    <3>2. CASE ~(n < Size)
      BY <2>1, <2>2, <3>2
    <3> QED
      BY <3>1, <3>2
  <2>3. ASSUME NEW s \in Seq(Char), Type(s) PROVE at = "edit" /\ Cause
    <3>1. at = "edit" /\ (index + Len(s) < Size \/ Len(s) = 1) /\ Len(s) \in Nat
      BY <2>3, LenProperties DEF Type, Pressing
    <3>2. PICK n \in Nat : n = index + Len(s)
      BY <2>1, <3>1
    <3>3. s \in Seq(Cell)
      BY SignsAreChars, SeqMonotonic
    <3>4. Accept(Store(buf, index, s), n)
      BY <2>3, <3>1, <3>2 DEF Type
    <3>5. Store(buf, index, s) \in Seq(Cell)
      BY <2>1, <3>3, StoreType
    <3>6. CASE n < Size
      BY <1>1, <3>1, <3>4, <3>5, <3>6, AcceptOverruns
    <3>7. CASE ~(n < Size)
      <4>1. Len(s) = 1
        BY <2>1, <3>1, <3>2, <3>7
      <4>2. n <= index + 1
        BY <2>1, <3>2, <4>1
      <4> QED
        BY <2>2, <3>1, <3>4, <3>5, <4>2
    <3> QED
      BY <3>6, <3>7
  <2>4. ASSUME NEW s \in Chunks, Type(s) PROVE at = "edit" /\ Cause
    <3>1. \A x \in Letters : x \in Char
      BY Zenon DEF Letters, Char
    <3>2. s \in Seq(Char)
      BY <3>1, TextAssumption, SeqMonotonic
    <3> QED
      BY <2>3, <2>4, <3>2
  <2>5. CASE Enter
    <3>1. at = "edit" /\ Accept(buf, index)
      BY <2>5 DEF Enter, Pressing
    <3>2. index <= index + 1
      BY <2>1
    <3> QED
      BY <2>1, <2>2, <3>1, <3>2
  <2>6. CASE Tab
    <3>1. at = "edit" /\ Accept(Store(buf, index, <<"?">>), index + 1)
      BY <2>6 DEF Tab, Pressing
    <3>2. <<"?">> \in Seq(Cell)
      BY DEF Cell, Char, NUL
    <3>3. Store(buf, index, <<"?">>) \in Seq(Cell)
      BY <2>1, <3>2, StoreType
    <3>4. index + 1 \in Nat /\ index + 1 <= index + 1
      BY <2>1
    <3> QED
      BY <2>2, <3>1, <3>3, <3>4
  <2>7. CASE CtrlD
    <3>1. Type(<<EndOfInput>>)
      BY <2>7 DEF CtrlD
    <3>2. <<EndOfInput>> \in Seq(Char)
      BY DEF Char, EndOfInput, NUL
    <3> QED
      BY <2>3, <3>1, <3>2
  <2>8. CASE UpArrow
    <3>1. at = "edit" /\ ~Terminated(buf)
      BY <2>8 DEF UpArrow, Pressing
    <3>2. PICK t \in Seq(Char) : t = Text(buf)
      BY <2>1, TextOf
    <3>3. ~(Len(t) < Size)
      BY <2>1, <3>1, <3>2, TextOf
    <3>4. Len(line) < Size /\ Len(<<>>) < Size
      BY <1>1, SizeAssumption DEF LineInv, LineTypes, CString
    <3>5. t # line /\ t # <<>>
      BY <3>3, <3>4
    <3>6. ~onlyUp
      BY <1>1, <3>1, <3>2, <3>5 DEF LineInv, RecallAlternates
    <3> QED
      BY <2>8, <3>1, <3>6
  <2>9. ~Prompt /\ ~Backspace /\ ~Run
    BY DEF Prompt, Backspace, Run
  <2> QED
    BY <2>4, <2>5, <2>6, <2>7, <2>8, <2>9 DEF Next
<1> QED
  BY <1>1, LineMeaning, PTL DEF Spec
=============================================================================
