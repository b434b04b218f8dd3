----------------------------- MODULE ShellLine -----------------------------
(***************************************************************************)
(* The line: prompt (shell-skeleton.c:517) reads keys into buf, keeps the  *)
(* line before in oldbuf for the up arrow, replaces aliases and parses.    *)
(* Of the commands only alias is run here, which adds to alias.txt; Shell  *)
(* models the others.                                                      *)
(*                                                                         *)
(* buf is an array of Size characters on the stack.  Each prompt finds in  *)
(* it what an earlier call left, except for the first character.  The user *)
(* types a chunk at a time; a letter whose code is that of an arrow key    *)
(* (66-68, 91) is dropped and is no part of a chunk.                       *)
(***************************************************************************)
EXTENDS ShellText

CONSTANTS
  Size,       \* sizeof(buf)
  AliasSize,  \* sizeof(alias) in check_for_aliases
  Chunks,     \* the texts the user types
  Files,      \* what alias.txt may hold at the start
  Leftovers,  \* what prompt may find in buf
  Stacks,     \* what check_for_aliases may find in alias
  MaxKeys     \* bound on the number of keys and chunks

EndOfInput == "^D"
AliasName == <<"alias">>     \* a name is one letter here
Letters == STRING \ {NUL}

ASSUME SizeAssumption == Size \in Nat /\ Size > 1 /\ AliasSize \in Nat
ASSUME KeysAssumption == MaxKeys \in Nat
ASSUME TextAssumption == \A s \in Chunks : s \in Seq(Letters) /\ s # <<>>
ASSUME ArraysAssumption == /\ \A b \in Leftovers : b \in Seq(STRING) /\ Len(b) = Size
                           /\ \A b \in Stacks : b \in Seq(STRING) /\ Len(b) = AliasSize

\* alias.txt is what the command alias has written to it: its names have no blank.
ASSUME FilesAssumption ==
  \A f \in Files :
    /\ f \in Seq([alias : Seq(Letters), comm : Seq(Letters)])
    /\ \A i \in 1 .. Len(f) : Blank \notin ToSet(f[i].alias)

VARIABLES
  at,        \* "prompt", "edit", "run", "ended", "overrun", "crashed"
  buf, index, oldbuf,
  screen,    \* what the terminal shows behind the prompt
  file,      \* alias.txt
  command,   \* what parse_command has made of the line
  line,      \* the line as entered, before aliases
  stack,     \* what the array alias held for this line
  before,    \* alias.txt when the line was entered
  onlyUp,    \* no key but the up arrow was pressed in this prompt
  keys
vars == <<at, buf, index, oldbuf, screen, file, command, line, stack, before,
          onlyUp, keys>>

NoCommand == [cmd |-> Unparsed, crashed |-> FALSE]

Init ==
  /\ at = "prompt"
  /\ buf = [i \in 1 .. Size |-> NUL]
  /\ index = 0
  /\ oldbuf = <<>>
  /\ screen = <<>>
  /\ file \in Files
  /\ command = NoCommand
  /\ line = <<>>
  /\ stack = <<>>
  /\ before = <<>>
  /\ onlyUp = TRUE
  /\ keys = 0

-----------------------------------------------------------------------------
\* The array is not emptied.
PromptFault ==
  /\ at = "prompt"
  /\ buf' \in Leftovers
  /\ at' = "edit"
  /\ index' = 0
  /\ screen' = <<>>
  /\ onlyUp' = TRUE
  /\ UNCHANGED <<oldbuf, file, command, line, stack, before, keys>>

Prompt ==
  /\ at = "prompt"
  /\ \E left \in Leftovers : buf' = [left EXCEPT ![1] = NUL]
  /\ at' = "edit"
  /\ index' = 0
  /\ screen' = <<>>
  /\ onlyUp' = TRUE
  /\ UNCHANGED <<oldbuf, file, command, line, stack, before, keys>>

Pressing == at = "edit" /\ keys < MaxKeys /\ keys' = keys + 1

(***************************************************************************)
(* The end of a prompt, with n characters in b: the line is kept for the   *)
(* up arrow, its aliases are replaced and it is parsed.  Behind a recalled *)
(* line that fills buf there is no room left for the terminator.           *)
(***************************************************************************)
Accept(b, n) ==
  IF n >= Size
  THEN /\ at' = "overrun"
       /\ UNCHANGED <<buf, index, oldbuf, file, command, line, stack, before>>
  ELSE LET ended == Store(b, n, <<NUL>>)
           entered == Text(ended)
       IN /\ buf' = ended
          /\ index' = n + 1
          /\ oldbuf' = entered
          /\ line' = entered
          /\ before' = file
          /\ \E left \in Stacks :
               LET expanded == CheckForAliases(entered, file, left)
               IN /\ stack' = left
                  /\ command' = ParseCommand(expanded.text)
                  /\ at' \in IF ~expanded.fits THEN {"overrun"}
                            ELSE IF command'.crashed THEN {"crashed"}
                            ELSE IF EndsInPipe(expanded.text) THEN {"crashed", "run"}
                            ELSE {"run"}
          /\ UNCHANGED file

\* buf is full: the line ends without a newline.
Type(s) ==
  /\ Pressing
  /\ index + Len(s) < Size \/ Len(s) = 1
  /\ onlyUp' = FALSE
  /\ screen' = screen \o s
  /\ LET n == index + Len(s)
         b == Store(buf, index, s)
     IN IF n >= Size - 1
        THEN Accept(b, n)
        ELSE /\ buf' = b
             /\ index' = n
             /\ UNCHANGED <<at, oldbuf, file, command, line, stack, before>>

Backspace ==
  /\ Pressing
  /\ onlyUp' = FALSE
  /\ index > 0
  /\ index' = index - 1
  /\ screen' = Front(screen)
  /\ UNCHANGED <<at, buf, oldbuf, file, command, line, stack, before>>

Terminated(b) == NUL \in ToSet(b)

\* The line on the screen is erased, not the one in buf.
UpArrowFault ==
  /\ Pressing
  /\ Terminated(buf)
  /\ screen' = oldbuf
  /\ oldbuf' = Text(buf)
  /\ buf' = Overwrite(buf, oldbuf)
  /\ index' = index + Len(oldbuf)
  /\ UNCHANGED <<at, file, command, line, stack, before, onlyUp>>

\* The line is erased and changes places with oldbuf; buf has no terminator at
\* the cursor, so that what lies behind it goes along, and what lies behind buf
\* if the only one has been typed over.
UpArrow ==
  /\ Pressing
  /\ \/ /\ Terminated(buf)
        /\ screen' = oldbuf
        /\ oldbuf' = Text(buf)
        /\ buf' = Overwrite(buf, oldbuf)
        /\ index' = Len(oldbuf)
        /\ UNCHANGED at
     \/ /\ ~Terminated(buf)
        /\ at' = "overrun"
        /\ UNCHANGED <<screen, oldbuf, buf, index>>
  /\ UNCHANGED <<file, command, line, stack, before, onlyUp>>

Enter ==
  /\ Pressing
  /\ Accept(buf, index)
  /\ UNCHANGED <<screen, onlyUp>>

\* The completion sign is stored and not shown.
Tab ==
  /\ Pressing
  /\ Accept(Store(buf, index, <<"?">>), index + 1)
  /\ UNCHANGED <<screen, onlyUp>>

\* Where the next character fills buf, ctrl-D is that character.
CtrlD ==
  IF index + 1 >= Size - 1
  THEN Type(<<EndOfInput>>)
  ELSE /\ Pressing
       /\ at' = "ended"
       /\ UNCHANGED <<buf, index, oldbuf, screen, file, command, line, stack, before, onlyUp>>

\* The command alias appends to alias.txt; the others leave the line alone.
\* free_command drops what was parsed.
Run ==
  /\ at = "run"
  /\ file' = IF command.cmd.name = AliasName
             THEN Append(file, AliasEntry(command.cmd.args)) ELSE file
  /\ at' = "prompt"
  /\ command' = NoCommand
  /\ stack' = <<>>
  /\ before' = <<>>
  /\ UNCHANGED <<buf, index, oldbuf, screen, line, onlyUp, keys>>

Next ==
  \/ Prompt
  \/ \E s \in Chunks : Type(s)
  \/ Backspace
  \/ UpArrow
  \/ Enter
  \/ Tab
  \/ CtrlD
  \/ Run

Spec == Init /\ [][Next]_vars
-----------------------------------------------------------------------------
(***************************************************************************)
(* Properties                                                              *)
(***************************************************************************)
\* What the user sees is what the shell has, whatever is deleted and recalled,
\* although characters that were deleted stay in buf (lines 555-578).
ScreenIsLine ==
  at = "edit" => SubSeq(buf, 1, index) = screen

\* The up arrow alone alternates between the line before, as it was entered
\* and not as aliases made it, and an empty line, although the buffer it
\* swaps was never initialised (lines 541, 571-575, 598).
RecallAlternates ==
  at = "edit" /\ onlyUp =>
    /\ screen \in {line, <<>>}
    /\ {oldbuf, Text(buf)} = {line, <<>>}

\* Aliases work on words: of the words that end in the alias the first is
\* replaced if it is nothing but the alias.  For that the names in alias.txt must
\* increase in length, and a name that is not one longer than the one before must
\* meet a NUL of the stack behind it (lines 86-121).
Lengthening(entries, left) ==
  \A i \in 1 .. Len(entries) :
    LET m == Len(entries[i].alias)
        n == IF i = 1 THEN 0 ELSE Len(entries[i - 1].alias)
    IN /\ n < m /\ m + 2 <= Len(left)
       /\ left[m + 1] = NUL \/ (i > 1 /\ m = n + 1)

WordExpand(ws, entry) ==
  LET i == SelectInSeq(ws, LAMBDA w : IsSuffix(entry.alias, w))
  IN IF i = 0 \/ (i > 0 /\ ws[i] # entry.alias) THEN ws
     ELSE SubSeq(ws, 1, i - 1) \o Words(entry.comm) \o SubSeq(ws, i + 1, Len(ws))

Expanded == CheckForAliases(line, before, stack).text

AliasesAreWords ==
  at = "run" /\ Lengthening(before, stack) =>
    Words(Expanded) = FoldLeft(WordExpand, Words(line), before)

\* The words of a line by their places: a sign takes the word behind it, unless
\* it is taken itself; a | that is not taken ends the command.
IsSign(ws, i) == i \in 2 .. Len(ws) /\ Redirection(ws[i]) # -1

SignsFrom(ws, i) ==
  CHOOSE k \in 2 .. i : (\A j \in k .. i : IsSign(ws, j)) /\ ~IsSign(ws, k - 1)

Takes(ws, i) == IsSign(ws, i) /\ (i - SignsFrom(ws, i)) % 2 = 0

IsPipe(ws, i) == i \in 2 .. Len(ws) /\ ws[i] = <<"|">> /\ ~Takes(ws, i - 1)

Body(ws) == {i \in 2 .. Len(ws) : \A j \in 2 .. i : ~IsPipe(ws, j)}

Plain(ws) == {i \in Body(ws) : ~Takes(ws, i) /\ ~Takes(ws, i - 1) /\ ws[i] # <<"&">>}

SignsOf(ws, k) ==
  {i \in Body(ws) : Takes(ws, i) /\ Redirection(ws[i]) = k /\ i < Len(ws)}

\* The n-th number of a set.
Before(S, i) == {j \in S : j < i}
Nth(S, n) == CHOOSE i \in S : Cardinality(Before(S, i)) = n - 1

\* The command is what the words of the line say: the first is the name, a
\* redirection takes the next word whatever it is, an & alone is dropped, and
\* a | ends it (lines 371-483).
Says(ws, parsed) ==
  LET cmd == parsed.cmd
      plain == Plain(ws)
  IN /\ cmd.name = IF ws = <<>> THEN <<>> ELSE ws[1]
     /\ cmd.args = [n \in 1 .. Cardinality(plain) |-> Unquote(ws[Nth(plain, n)])]
     /\ \A k \in 0 .. 2 : cmd.redirect_files[k] =
          LET signs == SignsOf(ws, k)
          IN IF signs = {} THEN None ELSE ws[Max(signs) + 1]
     /\ ~parsed.crashed =>
          Len(cmd.redirect_idxs) = Cardinality(UNION {SignsOf(ws, k) : k \in 0 .. 2})
     /\ ~cmd.next => (parsed.crashed <=> Takes(ws, Len(ws)))
     /\ cmd.next <=> \E i \in 2 .. Len(ws) : IsPipe(ws, i)

ParsesWords == at \in {"run", "crashed"} => Says(Words(Expanded), command)

\* Of up to three redirections of the output the last one counts, although
\* the files are kept by kind and not by place (lines 445, 822-859).
LastStreams ==
  at = "run" /\ ~command.cmd.next /\ Len(command.cmd.redirect_idxs) <= 3 =>
    LET idxs == command.cmd.redirect_idxs
        outs == {i \in 1 .. Len(idxs) : idxs[i] # 0}
        s == Streams(command.cmd)
    IN /\ s.out = IF outs = {} THEN None ELSE command.cmd.redirect_files[idxs[Max(outs)]]
       /\ s.in = command.cmd.redirect_files[0]

\* An alias that has been defined is found and gives the words of its definition
\* back, behind all the older entries, if no ";" is in its name, on every stack
\* on which the names stand alone (lines 773-790 and 77-127).
AliasRoundTrip ==
  [][at = "run" /\ file' # file /\ Len(command.cmd.args) >= 2 =>
       LET args == command.cmd.args
       IN \A left \in Stacks :
            Semicolon \notin ToSet(args[1]) /\ Lengthening(file', left) =>
              Words(CheckForAliases(args[1], file', left).text) = Tail(args)]_vars
=============================================================================
