------------------------------- MODULE Shell -------------------------------
(***************************************************************************)
(* Shellect (project-1-shell/src/shell-skeleton.c): the loop of main, what *)
(* its commands do to the terminal, the working directory, the kernel      *)
(* module and the child processes, Ctrl+C, and a later shell that finds    *)
(* what an earlier one has left.  How a line becomes a command is in       *)
(* ShellLine; here the user enters any command at any prompt.              *)
(***************************************************************************)
EXTENDS Integers, FiniteSets

CONSTANTS
  Dirs,          \* the directories
  Parent,        \* Parent[d]: chdir("..")
  Module,        \* Module[d]: chdir("module"), or None where there is none
  Pids,          \* the processes the shell may have at a time
  MaxCommands,   \* bound on the commands entered
  MaxShells,     \* bound on the shells started one after the other
  MaxMatches,    \* bound on the matches in the text of a repl
  Trees,         \* the process trees that psvis may find
  AnyChild,      \* waitpid(-1, ...)
  None           \* no directory, no listing, no process

Modes == {"line", "raw"}       \* of the terminal: with or without ICANON, ECHO
Children == {"free", "forked", "program", "zombie"}
Endings == {"exit", "eof", "killed"}
Commands == {"", "exit", "cd", "text", "xdd", "repl", "digital_clock", "psvis",
             "external"}

ASSUME DirsAssumption ==
  /\ None \notin Dirs \cup Nat \cup Pids \cup Endings \cup [psvis : Nat, tree : Trees]
  /\ Dirs # {}
  /\ Parent \in [Dirs -> Dirs]
  /\ Module \in [Dirs -> Dirs \cup {None}]
  /\ \A d \in Dirs : Module[d] # None => Parent[Module[d]] = d
ASSUME PidsAssumption == AnyChild \notin Pids \cup {None}
ASSUME BoundsAssumption == {MaxCommands, MaxShells, MaxMatches} \subseteq Nat

VARIABLES
  at,          \* where the shell is
  cmd,         \* the command in progress: [name, background]
  cwd, loaded, \* the working directory; kernel_module_loaded, which is -1 or 1
  term,        \* the mode of the terminal
  backup,      \* backup_termios of prompt, oldt of kbhit
  blocking,    \* standard input blocks
  matches,     \* repl: the matches left in the text, or None for endless
  child,       \* child[p]: the state of the child p
  back,        \* the children started in the background
  waitfor,     \* the child waited for
  inserted,    \* the module is in the kernel
  log,         \* the listing in the kernel's log, or None: [psvis, tree]
  tree,        \* tree[d]: the same of the file tree.txt in d
  plotted,     \* the directories with a subdirectory process_trees
  \* What happened, for the properties:
  number,      \* the number of the command in progress
  shells,      \* the number of shells started
  wanted,      \* the mode that was last set by a program, not by the shell
  from,        \* the directory psvis was called in
  cut,         \* Ctrl+C ended a command of system() in this psvis or at the end
  pictures,    \* the pictures: [psvis, of, cut], where "of" is a listing
  legacy,      \* the module was in the kernel before this shell
  how          \* how the shell ended, or None

tty == <<term, backup, blocking, wanted>>
processes == <<child, back, waitfor>>
kernel == <<inserted, log, tree, plotted, pictures, legacy>>
vars == <<at, cmd, cwd, loaded, matches, number, shells, from, cut, how, tty,
          processes, kernel>>

Psvis == INSTANCE ProcessTree
DrawableTrees == {t \in Trees : Psvis!Drawable(Psvis!Listing(t))}
Listings == [psvis : Nat, tree : Trees]

NoCommand == [name |-> "", background |-> FALSE]

Init ==
  /\ at = "prompt"
  /\ cmd = NoCommand
  /\ cwd \in Dirs
  /\ loaded = -1
  /\ term = "line" /\ backup = "line" /\ wanted = "line"
  /\ blocking = TRUE
  /\ matches = 0
  /\ child = [p \in Pids |-> "free"]
  /\ back = {}
  /\ waitfor = None
  /\ inserted = FALSE /\ legacy = FALSE
  /\ log = None
  /\ tree = [d \in Dirs |-> None]
  /\ plotted = {}
  /\ pictures = {}
  /\ number = 0
  /\ shells = 1
  /\ from = cwd
  /\ cut = FALSE
  /\ how = None

-----------------------------------------------------------------------------
(***************************************************************************)
(* main clears the command, and prompt has the terminal raw while the line *)
(* is read.                                                                *)
(***************************************************************************)
\* The settings are saved at the first prompt only.
PromptFault ==
  /\ at = "prompt"
  /\ backup' = IF number = 0 THEN term ELSE backup
  /\ term' = "raw"
  /\ cmd' = NoCommand /\ matches' = 0 /\ from' = cwd /\ cut' = FALSE
  /\ at' = "edit"
  /\ UNCHANGED <<cwd, loaded, number, shells, how, blocking, wanted, processes, kernel>>

Prompt ==
  /\ at = "prompt"
  /\ backup' = term
  /\ term' = "raw"
  /\ cmd' = NoCommand /\ matches' = 0 /\ from' = cwd /\ cut' = FALSE
  /\ at' = "edit"
  /\ UNCHANGED <<cwd, loaded, number, shells, how, blocking, wanted, processes, kernel>>

\* A line is entered and parsed; & matters to programs only, and repl is given a
\* text with some matches, or a replacement that holds what it replaces.
EnterLine ==
  /\ at = "edit"
  /\ number < MaxCommands
  /\ number' = number + 1
  /\ cmd' \in [name : Commands, background : BOOLEAN]
  /\ cmd'.background => cmd'.name \in {"external", "psvis"}
  /\ matches' \in IF cmd'.name = "repl" THEN 0 .. MaxMatches \cup {None} ELSE {0}
  /\ term' = backup
  /\ at' = "run"
  /\ UNCHANGED <<cwd, loaded, shells, from, cut, how, backup, blocking, wanted,
                 processes, kernel>>

\* Ctrl+D ends the program at once.
CtrlDFault ==
  /\ at = "edit"
  /\ at' = "ended"
  /\ how' = "eof"
  /\ UNCHANGED <<cmd, cwd, loaded, matches, number, shells, from, cut, tty,
                 processes, kernel>>

\* prompt returns without restoring the terminal.
CtrlD ==
  /\ at = "edit"
  /\ at' = "leave"
  /\ how' = "eof"
  /\ UNCHANGED <<cmd, cwd, loaded, matches, number, shells, from, cut, tty,
                 processes, kernel>>

-----------------------------------------------------------------------------
(***************************************************************************)
(* process_command                                                         *)
(***************************************************************************)
Running(name) == at = "run" /\ cmd.name = name

Empty ==
  /\ Running("")
  /\ at' = "prompt"
  /\ UNCHANGED <<cmd, cwd, loaded, matches, number, shells, from, cut, how, tty,
                 processes, kernel>>

Exit ==
  /\ Running("exit")
  /\ at' = "leave"
  /\ how' = "exit"
  /\ UNCHANGED <<cmd, cwd, loaded, matches, number, shells, from, cut, tty,
                 processes, kernel>>

\* cd to a directory, or to one that is not there.
Cd ==
  /\ Running("cd")
  /\ cwd' \in Dirs
  /\ at' = "prompt"
  /\ UNCHANGED <<cmd, loaded, matches, number, shells, from, cut, how, tty,
                 processes, kernel>>

\* alias, good_morning, xdd of a file: files of the user's, nothing of the
\* shell's.
TextCommand ==
  /\ Running("text")
  /\ at' = "prompt"
  /\ UNCHANGED <<cmd, cwd, loaded, matches, number, shells, from, cut, how, tty,
                 processes, kernel>>

\* xdd without a file: scanf waits until the user has typed a word.
Scan ==
  /\ Running("xdd")
  /\ at' = "prompt"
  /\ UNCHANGED <<cmd, cwd, loaded, matches, number, shells, from, cut, how, tty,
                 processes, kernel>>

\* The next match is not looked for.
ReplFault ==
  /\ Running("repl")
  /\ \/ matches = 0 /\ at' = "prompt" /\ UNCHANGED matches
     \/ matches # 0 /\ UNCHANGED <<at, matches>>
  /\ UNCHANGED <<cmd, cwd, loaded, number, shells, from, cut, how, tty, processes,
                 kernel>>

\* One match is replaced, or the last one has been.
Repl ==
  /\ Running("repl")
  /\ \/ matches = 0 /\ at' = "prompt" /\ UNCHANGED matches
     \/ matches \in Nat \ {0} /\ matches' = matches - 1 /\ UNCHANGED at
     \/ matches = None /\ UNCHANGED <<at, matches>>
  /\ UNCHANGED <<cmd, cwd, loaded, number, shells, from, cut, how, tty, processes,
                 kernel>>

\* These commands use a file that cannot be opened, psvis an argument that is
\* not there; a repl that grows the text and a long word for xdd run over their
\* buffers.
Segfault ==
  /\ at = "run"
  /\ cmd.name \in {"text", "xdd", "repl", "psvis"}
  /\ at' = "ended"
  /\ how' = "killed"
  /\ UNCHANGED <<cmd, cwd, loaded, matches, number, shells, from, cut, tty,
                 processes, kernel>>

\* digital_clock shows the time and calls kbhit, which polls the keyboard with
\* the terminal raw and standard input not blocking ...
ClockPoll ==
  /\ Running("digital_clock")
  /\ backup' = term
  /\ term' = "raw"
  /\ blocking' = FALSE
  /\ at' = "poll"
  /\ UNCHANGED <<cmd, cwd, loaded, matches, number, shells, from, cut, how, wanted,
                 processes, kernel>>

\* The key e returns before standard input blocks again.
ClockKeyFault ==
  /\ at = "poll"
  /\ term' = backup
  /\ at' \in {"run", "prompt"}
  /\ blocking' = (at' = "run")
  /\ UNCHANGED <<cmd, cwd, loaded, matches, number, shells, from, cut, how, backup,
                 wanted, processes, kernel>>

\* ... and goes on until the key e ends it.
ClockKey ==
  /\ at = "poll"
  /\ term' = backup
  /\ blocking' = TRUE
  /\ at' \in {"run", "prompt"}
  /\ UNCHANGED <<cmd, cwd, loaded, matches, number, shells, from, cut, how, backup,
                 wanted, processes, kernel>>

-----------------------------------------------------------------------------
(***************************************************************************)
(* psvis.  Ctrl+C does not reach the shell during system(), but it ends    *)
(* the command line that system() runs, of which n commands were executed. *)
(***************************************************************************)
\* The directory is entered whether it is there or not.
PsvisEnterFault ==
  /\ Running("psvis")
  /\ from' = cwd
  /\ cwd' = Module[cwd]
  /\ at' = "insmod"
  /\ UNCHANGED <<cmd, loaded, matches, number, shells, cut, how, tty, processes,
                 kernel>>

PsvisEnter ==
  /\ Running("psvis")
  /\ from' = cwd
  /\ cwd' = IF Module[cwd] = None THEN cwd ELSE Module[cwd]
  /\ at' = "insmod"
  /\ UNCHANGED <<cmd, loaded, matches, number, shells, cut, how, tty, processes,
                 kernel>>

\* Is d a directory with mymodule.ko and plot.py in it?
ModuleFiles(d) == Module[Parent[d]] = d

\* insmod loads a module that is there and not loaded yet, and simple_init finds
\* the process; then the module stays, and else there is nothing to list.
Inserts(t) == ModuleFiles(cwd) /\ ~inserted /\ t # None

\* The log is not cleared first.
PsvisInsmodFault ==
  /\ at = "insmod"
  /\ \E n \in 0 .. 3, t \in Trees \cup {None} :
       LET lists == n >= 2 /\ Inserts(t)
       IN /\ log' = IF lists THEN [psvis |-> number, tree |-> t] ELSE log
          /\ inserted' = (inserted \/ lists)
          /\ tree' \in IF n = 3 THEN {[tree EXCEPT ![cwd] = log']}
                       ELSE {tree} \cup {[tree EXCEPT ![cwd] = None] : i \in {n} \cap {2}}
          /\ cut' = (n < 3)
  /\ loaded' = 1
  /\ at' = "plot"
  /\ UNCHANGED <<cmd, cwd, matches, number, shells, from, how, tty, processes,
                 plotted, pictures, legacy>>

\* dmesg -C; insmod mymodule.ko my_pid=..; dmesg > tree.txt.  Ctrl+C can leave
\* tree.txt empty.
PsvisInsmod ==
  /\ at = "insmod"
  /\ \E n \in 0 .. 3, t \in Trees \cup {None} :
       LET cleared == IF n >= 1 THEN None ELSE log
           lists == n >= 2 /\ Inserts(t)
       IN /\ log' = IF lists THEN [psvis |-> number, tree |-> t] ELSE cleared
          /\ inserted' = (inserted \/ lists)
          /\ tree' \in IF n = 3 THEN {[tree EXCEPT ![cwd] = log']}
                       ELSE {tree} \cup {[tree EXCEPT ![cwd] = None] : i \in {n} \cap {2}}
          /\ cut' = (n < 3)
  /\ loaded' = 1
  /\ at' = "plot"
  /\ UNCHANGED <<cmd, cwd, matches, number, shells, from, how, tty, processes,
                 plotted, pictures, legacy>>

\* plot.py draws tree.txt into ../process_trees, which it must be able to make;
\* the drawing may still fail, or be stopped by Ctrl+C, and leave it empty.
PsvisPlot ==
  /\ at = "plot"
  /\ \/ /\ ModuleFiles(cwd) /\ tree[cwd] # None /\ Parent[cwd] \notin plotted
        /\ tree[cwd].tree \in DrawableTrees
        /\ plotted' = plotted \cup {Parent[cwd]}
        /\ pictures' \in {pictures, pictures \cup
                            {[psvis |-> number, of |-> tree[cwd], cut |-> cut]}}
     \/ UNCHANGED <<plotted, pictures>>
  /\ at' = "back"
  /\ UNCHANGED <<cmd, cwd, loaded, matches, number, shells, from, cut, how, tty,
                 processes, inserted, log, tree, legacy>>

\* psvis stays in the directory module.
PsvisBackFault ==
  /\ at = "back"
  /\ at' = "run"
  /\ cmd' = [cmd EXCEPT !.name = "external"]
  /\ UNCHANGED <<cwd, loaded, matches, number, shells, from, cut, how, tty, processes,
                 kernel>>

\* psvis has no return: its name is looked for among the programs as well.
PsvisBack ==
  /\ at = "back"
  /\ cwd' = Parent[cwd]
  /\ at' = "run"
  /\ cmd' = [cmd EXCEPT !.name = "external"]
  /\ UNCHANGED <<loaded, matches, number, shells, from, cut, how, tty, processes,
                 kernel>>

-----------------------------------------------------------------------------
(***************************************************************************)
(* Child processes.  A fork that fails is not told from one that succeeds: *)
(* the shell waits for the process -1, which is any of its children.       *)
(***************************************************************************)
Started(p) ==
  IF cmd.background THEN at' = "prompt" /\ UNCHANGED waitfor
                    ELSE at' = "wait" /\ waitfor' = p

Fork ==
  /\ Running("external")
  /\ \E p \in Pids :
       /\ child[p] = "free"
       /\ child' = [child EXCEPT ![p] = "forked"]
       /\ back' = IF cmd.background THEN back \cup {p} ELSE back \ {p}
       /\ Started(p)
  /\ UNCHANGED <<cmd, cwd, loaded, matches, number, shells, from, cut, how, tty, kernel>>

ForkFails ==
  /\ Running("external")
  /\ \A p \in Pids : child[p] # "free"
  /\ Started(AnyChild)
  /\ UNCHANGED <<cmd, cwd, loaded, matches, number, shells, from, cut, how, tty,
                 child, back, kernel>>

\* A failed fork is reported and not waited for.
WaitNoneFault ==
  /\ at = "wait"
  /\ \/ \E p \in Pids :
          /\ waitfor = p
          /\ child[p] = "zombie"
          /\ child' = [child EXCEPT ![p] = "free"]
     \/ waitfor = AnyChild /\ UNCHANGED child
  /\ waitfor' = None
  /\ at' = "prompt"
  /\ UNCHANGED <<cmd, cwd, loaded, matches, number, shells, from, cut, how, tty,
                 back, kernel>>

\* The first child that ends is taken.
WaitFault ==
  /\ at = "wait"
  /\ \/ \E p \in Pids :
          /\ child[p] = "zombie"
          /\ child' = [child EXCEPT ![p] = "free"]
     \/ /\ \A p \in Pids : child[p] = "free"
        /\ UNCHANGED child
  /\ waitfor' = None
  /\ at' = "prompt"
  /\ UNCHANGED <<cmd, cwd, loaded, matches, number, shells, from, cut, how, tty,
                 back, kernel>>

\* waitpid returns for the child, or for any; with no child left it fails.
Wait ==
  /\ at = "wait"
  /\ \/ \E p \in Pids :
          /\ waitfor \in {p, AnyChild}
          /\ child[p] = "zombie"
          /\ child' = [child EXCEPT ![p] = "free"]
     \/ /\ \A p \in Pids : child[p] = "free"
        /\ UNCHANGED child
  /\ waitfor' = None
  /\ at' = "prompt"
  /\ UNCHANGED <<cmd, cwd, loaded, matches, number, shells, from, cut, how, tty,
                 back, kernel>>

\* The child opens its files and looks for the program; a file that cannot be
\* opened and a program that is nowhere both end it.
Exec(p) ==
  /\ child[p] = "forked"
  /\ \E s \in {"program", "zombie"} : child' = [child EXCEPT ![p] = s]
  /\ UNCHANGED <<at, cmd, cwd, loaded, matches, number, shells, from, cut, how, tty,
                 back, waitfor, kernel>>

Ends(p) ==
  /\ child[p] = "program"
  /\ child' = [child EXCEPT ![p] = "zombie"]
  /\ UNCHANGED <<at, cmd, cwd, loaded, matches, number, shells, from, cut, how, tty,
                 back, waitfor, kernel>>

\* A program sets the terminal; while the shell reads a line that lasts until
\* the shell restores what it found.
SetsTerminal(p) ==
  /\ child[p] = "program"
  /\ at # "ended"
  /\ term' \in Modes
  /\ wanted' = IF at \in {"edit", "poll"} THEN wanted ELSE term'
  /\ UNCHANGED <<at, cmd, cwd, loaded, matches, number, shells, from, cut, how,
                 backup, blocking, processes, kernel>>

\* A program removes the pictures.
RemovesPictures(p) ==
  /\ child[p] = "program"
  /\ plotted # {}
  /\ plotted' = {}
  /\ UNCHANGED <<at, cmd, cwd, loaded, matches, number, shells, from, cut, how, tty,
                 processes, inserted, log, tree, pictures, legacy>>

-----------------------------------------------------------------------------
(***************************************************************************)
(* The end, and the next shell                                             *)
(***************************************************************************)
Leave ==
  /\ at = "leave"
  /\ \/ /\ loaded = 1
        /\ \/ inserted' = FALSE /\ UNCHANGED cut
           \/ cut' = TRUE /\ UNCHANGED inserted
     \/ loaded # 1 /\ UNCHANGED <<inserted, cut>>
  /\ at' = "ended"
  /\ UNCHANGED <<cmd, cwd, loaded, matches, number, shells, from, how, tty,
                 processes, log, tree, plotted, pictures, legacy>>

\* Ctrl+C ends every process that has the terminal, the shell among them
\* unless it is in system().
Interrupt ==
  /\ at \notin {"ended", "leave", "insmod", "plot"}
  /\ child' = [p \in Pids |-> "free"]
  /\ back' = {}
  /\ waitfor' = None
  /\ cmd' = NoCommand
  /\ matches' = 0
  /\ at' = "ended"
  /\ how' = "killed"
  /\ UNCHANGED <<cwd, loaded, number, shells, from, cut, tty, kernel>>

\* Another shell is started, in a terminal that has been reset.
Restart ==
  /\ at = "ended"
  /\ shells < MaxShells
  /\ shells' = shells + 1
  /\ at' = "prompt"
  /\ cwd' \in Dirs
  /\ loaded' = -1
  /\ term' = "line" /\ backup' = "line" /\ wanted' = "line"
  /\ blocking' = TRUE
  /\ child' = [p \in Pids |-> "free"]
  /\ back' = {}
  /\ waitfor' = None
  /\ legacy' = inserted
  /\ how' = None
  /\ cut' = FALSE
  /\ UNCHANGED <<cmd, matches, number, from, inserted, log, tree, plotted, pictures>>

-----------------------------------------------------------------------------
ShellStep ==
  \/ Prompt \/ Empty \/ Exit \/ Cd \/ TextCommand \/ Repl
  \/ ClockPoll \/ ClockKey \/ PsvisEnter \/ PsvisInsmod \/ PsvisPlot \/ PsvisBack
  \/ Fork \/ ForkFails \/ Wait \/ Leave
User == EnterLine \/ Scan \/ CtrlD \/ Segfault \/ Interrupt \/ Restart
ChildEnds(p) == Exec(p) \/ Ends(p)
Child(p) == ChildEnds(p) \/ SetsTerminal(p) \/ RemovesPictures(p)

Next == ShellStep \/ User \/ \E p \in Pids : Child(p)

Spec == Init /\ [][Next]_vars

\* The kernel runs the shell and its children, and programs end, those that
\* system() runs among them.  The user need not type.
FairSpec == Spec /\ WF_vars(ShellStep) /\ \A p \in Pids : WF_vars(ChildEnds(p))
-----------------------------------------------------------------------------
(***************************************************************************)
(* Properties                                                              *)
(***************************************************************************)
\* The types of the variables (shell-skeleton.c:23, 524, 620, 818).
TypeOK ==
  /\ at \in {"prompt", "edit", "run", "poll", "insmod", "plot", "back", "wait",
             "leave", "ended"}
  /\ cmd \in [name : Commands, background : BOOLEAN]
  /\ cwd \in Dirs /\ from \in Dirs
  /\ loaded \in {-1, 1}
  /\ term \in Modes /\ backup \in Modes /\ wanted \in Modes
  /\ blocking \in BOOLEAN /\ inserted \in BOOLEAN /\ legacy \in BOOLEAN /\ cut \in BOOLEAN
  /\ matches \in Nat \cup {None}
  /\ child \in [Pids -> Children] /\ back \subseteq Pids
  /\ waitfor \in Pids \cup {AnyChild, None}
  /\ number \in Nat /\ shells \in Nat
  /\ log \in Listings \cup {None}
  /\ tree \in [Dirs -> Listings \cup {None}]
  /\ plotted \subseteq Dirs
  /\ pictures \subseteq [psvis : Nat, of : Listings, cut : BOOLEAN]
  /\ how \in Endings \cup {None}

\* A command runs with the terminal as the last program left it, and exit
\* leaves it so: prompt and kbhit restore what they find, whatever programs
\* set in between, except after Ctrl+D and Ctrl+C (lines 527-609, 616-639).
TerminalKept ==
  at \notin {"edit", "poll"} /\ how \notin {"eof", "killed"} => term = wanted

\* A prompt never reads from a standard input that does not block, which would
\* give it end of file for keys (lines 542, 627-632).
InputBlocks == at # "poll" /\ how # "killed" => blocking

\* No prompt is shown while a child in the foreground runs or is a zombie,
\* although a failed fork waits for any child (lines 818, 886-890).
ForegroundDone ==
  at \in {"prompt", "edit"} => \A p \in Pids : child[p] # "free" => p \in back

\* The module a shell has inserted is gone when exit or Ctrl+D has ended the
\* shell, also if another shell had left it behind (lines 661-664, 811).
ModuleRemoved ==
  at = "ended" /\ how # "killed" /\ ~cut => (inserted => legacy /\ loaded = -1)

\* A picture shows the listing of the psvis that it was drawn for, although
\* log and tree.txt outlive it, unless Ctrl+C has stopped the listing
\* (lines 809-813).
PictureCurrent == \A x \in pictures : x.of.psvis = x.psvis \/ x.cut

\* A picture has, each once, every process that the first threads' lists of
\* children lead to and each of its threads, with the lines to what each of them
\* has started, although the listing is flat and vertices are numbered on the
\* way; and of what a process has started just one vertex is in orange, which is
\* its eldest child only if it has no other thread and no child listed before an
\* elder one or older than itself (mymodule.c:21-53, plot.py:21-59, 77-82).
PictureShows ==
  [][\A x \in pictures' \ pictures :
       LET picture == Psvis!Picture(Psvis!Listing(x.of.tree))
       IN Psvis!ShowsTree(picture, x.of.tree) /\ Psvis!ShowsOrange(picture, x.of.tree)]_vars

\* psvis goes back to where it was called, or, called where there is no
\* directory module, one directory up (lines 808, 814).
PsvisMoves ==
  [][at = "back" /\ at' = "run" =>
       cwd' = IF Module[from] # None THEN from ELSE Parent[from]]_vars

\* The shell comes back to a prompt, or ends, after every command but those
\* that wait for the user, a clock and an xdd without a file, and a repl whose
\* replacement holds what it replaces (lines 653-655, 818, 886): whatever
\* programs run beside it, failed forks included, it waits for no process that
\* never comes.
CommandReturns ==
  at = "run" /\ cmd.name \notin {"digital_clock", "xdd"} /\ matches # None
    ~> at \in {"prompt", "edit", "ended"}

\* A shell that has no process left gets one back by the wait for the process
\* that fork did not give it (lines 818, 887).
ForkRecovers == waitfor = AnyChild ~> at = "ended" \/ \E p \in Pids : child[p] = "free"
=============================================================================
