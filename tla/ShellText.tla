----------------------------- MODULE ShellText -----------------------------
(***************************************************************************)
(* What Shellect does to the text of a line: aliases (shell-skeleton.c:77) *)
(* and the split into a command (shell-skeleton.c:346), and what the child *)
(* process makes of the redirections (shell-skeleton.c:822).               *)
(* A text is a sequence of characters without the terminating NUL; Blank   *)
(* stands for both characters of splitters, ">" and the other signs for    *)
(* themselves, and any other value is a letter.  An array is a sequence of *)
(* fixed length, of characters and NULs.                                   *)
(***************************************************************************)
EXTENDS Integers, SequencesExt

Blank == " "
Semicolon == ";"
NUL == "NUL"
Junk == "junk"        \* a byte nobody wrote
None == "none"        \* NULL

\* The text in an array: up to the first NUL, or all of it.
Text(b) ==
  LET ends == {i \in DOMAIN b : b[i] = NUL}
  IN IF ends = {} THEN b ELSE SubSeq(b, 1, Min(ends) - 1)

\* Characters stored from position n + 1, as far as the array reaches.
Store(b, n, s) ==
  [i \in DOMAIN b |-> IF i \in n + 1 .. n + Len(s) THEN s[i - n] ELSE b[i]]

\* strcpy to the start of an array: the characters behind stay.
Overwrite(b, s) == Store(b, 0, Append(s, NUL))

\* strstr: the first position of s in t, or 0.
FirstAt(s, t) ==
  LET at == {i \in 1 .. Len(t) - Len(s) + 1 : SubSeq(t, i, i + Len(s) - 1) = s}
  IN IF at = {} THEN 0 ELSE Min(at)

\* strtok: the words between blanks.  scan.word is the one being read.
EndWord(scan) == IF scan.word = <<>> THEN scan.words ELSE Append(scan.words, scan.word)

PutChar(scan, c) ==
  IF c = Blank THEN [words |-> EndWord(scan), word |-> <<>>]
  ELSE [words |-> scan.words, word |-> Append(scan.word, c)]

Words(s) == EndWord(FoldLeft(PutChar, [words |-> <<>>, word |-> <<>>], s))

Joined(s, w) == s \o <<Blank>> \o w
Join(ws) == FoldLeft(Joined, ws[1], Tail(ws))

-----------------------------------------------------------------------------
(***************************************************************************)
(* Aliases.  alias.txt is a sequence of [alias, comm]: a line is split at  *)
(* its first ";".                                                          *)
(***************************************************************************)
Entry(text) ==
  LET loc == FirstAt(<<Semicolon>>, text)
  IN [alias |-> SubSeq(text, 1, loc - 1), comm |-> SubSeq(text, loc + 1, Len(text))]

\* replace: str with rep in the place of orig, which is at loc.
Replace(str, orig, rep, loc) == ReplaceSubSeqAt(loc, rep, orig, str)

\* An occurrence inside a word counts.
ReplaceAliasFault(text, key, comm) ==
  LET loc == FirstAt(key, text)
  IN IF loc = 0 THEN text
     ELSE Replace(text, key, Append(comm, Blank), loc)

\* Only the first occurrence is looked at, and it must begin a word.
ReplaceAlias(text, key, comm) ==
  LET loc == FirstAt(key, text)
  IN IF loc = 0 THEN text
     ELSE IF loc > 1 /\ text[loc - 1] # Blank THEN text
     ELSE Replace(text, key, Append(comm, Blank), loc)

(***************************************************************************)
(* One entry.  strncpy brings no terminator along: in the array alias the  *)
(* name is followed by what is left there of the entry before it, or of    *)
(* the stack, up to the first NUL.  There strcat puts a blank and a NUL,   *)
(* for which the array has room if s.fits.                                 *)
(***************************************************************************)
TryAlias(s, entry) ==
  LET named == Store(s.left, 0, entry.alias)
      key == Append(Text(named), Blank)
  IN [left |-> Overwrite(named, key),
      fits |-> s.fits /\ Len(key) < Len(named),
      text |-> ReplaceAlias(s.text, key, entry.comm)]

\* check_for_aliases, with left in the array: the text, and whether the array
\* was large enough for the names.
CheckForAliases(buf, file, left) ==
  IF file = <<>> THEN [text |-> buf, fits |-> TRUE]
  ELSE LET tried == FoldLeft(TryAlias,
                             [left |-> left, fits |-> TRUE, text |-> Append(buf, Blank)], file)
       IN [text |-> tried.text, fits |-> tried.fits]

\* No blank between the arguments.
AliasEntryFault(args) ==
  Entry((IF args = <<>> THEN <<Junk>> ELSE args[1]) \o <<Semicolon>>
          \o (IF Len(args) < 2 THEN <<Junk>> ELSE FlattenSeq(Tail(args))))

\* The line that the command alias writes: its first argument, ";" and the
\* others.  With fewer than two it prints NULL, or an array it has not filled.
Definition(args) ==
  CASE Len(args) < 2 -> <<Junk>>
    [] Len(args) = 2 -> Append(args[2], Blank)
    [] OTHER -> Join(Tail(args))

AliasEntry(args) ==
  Entry((IF args = <<>> THEN <<Junk>> ELSE args[1]) \o <<Semicolon>> \o Definition(args))

-----------------------------------------------------------------------------
(***************************************************************************)
(* The command.  Redirections are 0 for <, 1 for > and 2 for >>.           *)
(***************************************************************************)
Redirection(w) == CASE w[1] = "<" -> 0
                    [] w[1] = ">" -> IF Len(w) > 1 /\ w[2] = ">" THEN 2 ELSE 1
                    [] OTHER -> -1

Quotes == {"'", "\""}
Unquote(w) == IF Len(w) > 2 /\ w[1] \in Quotes /\ w[1] = Last(w)
              THEN SubSeq(w, 2, Len(w) - 1) ELSE w

Unparsed == [name |-> <<>>, args |-> <<>>, background |-> FALSE,
             auto_complete |-> FALSE, redirect_files |-> [k \in 0 .. 2 |-> None],
             redirect_idxs |-> <<>>, next |-> FALSE]

(***************************************************************************)
(* One word.  s.cmd is the command so far; s.named that its name has been  *)
(* read; s.pending the redirection whose file is due, or -1; s.piped that  *)
(* a | has passed, after which the words fill commands that are never run: *)
(* the call for the rest of the line leaves nothing for the outer loop.    *)
(***************************************************************************)
ParseWord(s, w) ==
  LET kind == Redirection(w)
      Now(cmd) == IF s.piped THEN s.cmd ELSE cmd
  IN CASE ~s.named ->
            [s EXCEPT !.named = TRUE, !.cmd = Now([s.cmd EXCEPT !.name = w])]
       [] s.named /\ s.pending # -1 ->
            [s EXCEPT !.pending = -1,
                      !.cmd = Now([s.cmd EXCEPT !.redirect_files[s.pending] = w])]
       [] s.named /\ s.pending = -1 /\ w = <<"|">> ->
            [s EXCEPT !.piped = TRUE, !.named = FALSE, !.cmd.next = TRUE]
       [] s.named /\ s.pending = -1 /\ kind # -1 ->
            [s EXCEPT !.pending = kind,
                      !.cmd = Now([s.cmd EXCEPT !.redirect_idxs = Append(@, kind)])]
       [] s.named /\ s.pending = -1 /\ kind = -1 /\ w \notin {<<"|">>, <<"&">>} ->
            [s EXCEPT !.cmd = Now([s.cmd EXCEPT !.args = Append(@, Unquote(w))])]
       [] OTHER -> s

\* Before the first word.
Unread == [cmd |-> Unparsed, named |-> FALSE, pending |-> -1, piped |-> FALSE]

\* An & is dropped before the file of a redirection is looked for.
ParseCommandFault(text) ==
  LET Step(s, w) == IF w = <<"&">> THEN s ELSE ParseWord(s, w)
      parsed == FoldLeft(Step, Unread, Words(text))
  IN [cmd |-> parsed.cmd, crashed |-> parsed.pending # -1]

\* What parse_command makes of a text.  crashed: the text ends where the file
\* of a redirection is due, and strlen is called with NULL.
ParseCommand(text) ==
  LET ws == Words(text)
      ending == IF ws = <<>> THEN None ELSE Last(Last(ws))
      parsed == FoldLeft(ParseWord, Unread, ws)
  IN [cmd |-> [parsed.cmd EXCEPT !.background = (ending = "&"),
                                 !.auto_complete = (ending = "?")],
      crashed |-> parsed.pending # -1]

\* A | that no redirection takes ends the text.  The memory behind the text is
\* then parsed as the next command, which is not run but may end the shell, as a
\* sign without a file does.
EndsInPipe(text) ==
  LET parsed == FoldLeft(ParseWord, Unread, Words(text))
  IN text # <<>> /\ Last(text) = "|" /\ parsed.piped /\ ~parsed.named

\* The kinds in their own order instead of that of the line.
StreamsFault(cmd) ==
  LET f == cmd.redirect_files
  IN [in |-> f[0], out |-> IF f[2] # None THEN f[2] ELSE f[1], written |-> {}]

\* The child's loop: standard input and output, and the files opened for
\* writing.  redirect_idxs has three elements; a fourth redirection is lost.
Open(s, redirect) ==
  IF redirect.kind = 0 THEN [s EXCEPT !.in = redirect.file]
  ELSE [s EXCEPT !.out = redirect.file, !.written = @ \cup {redirect}]

Redirects(cmd) ==
  [i \in 1 .. Min({3, Len(cmd.redirect_idxs)}) |->
     [kind |-> cmd.redirect_idxs[i], file |-> cmd.redirect_files[cmd.redirect_idxs[i]]]]

Streams(cmd) == FoldLeft(Open, [in |-> None, out |-> None, written |-> {}], Redirects(cmd))
=============================================================================
