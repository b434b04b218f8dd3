---------------------------- MODULE ShellProofs ----------------------------
(***************************************************************************)
(* Theorems about Shell: what the shell does to the terminal, its children,*)
(* the directory and the kernel module, for all directories, processes and *)
(* process trees and any number of commands and of shells.                 *)
(***************************************************************************)
EXTENDS Shell, TLAPS

-----------------------------------------------------------------------------
(***************************************************************************)
(* The inductive invariant                                                 *)
(***************************************************************************)
\* The shell has ended in some way exactly when it leaves its loop.
HowInv ==
  /\ how = None <=> at \notin {"leave", "ended"}
  /\ at = "leave" => how # "killed"

\* While a line or a key is read, the settings to restore are the program's.
TerminalSaved == at \in {"edit", "poll"} => backup = wanted

\* A child that is not in the background is the one that is waited for.
ForegroundWaited ==
  \A p \in Pids : child[p] # "free" /\ p \notin back =>
    \/ at = "wait" /\ waitfor = p
    \/ at = "ended"

\* The shell knows of the module unless an earlier one has inserted it.
ModuleKnown == inserted => legacy \/ loaded = 1

\* Before plot.py runs, tree.txt is empty or from this psvis.
TreeCurrent ==
  at = "plot" /\ ~cut => tree[cwd] = None \/ tree[cwd].psvis = number

\* During psvis the shell is in the directory module, or has not moved.
InModule ==
  at \in {"insmod", "plot", "back"} =>
    cwd = IF Module[from] # None THEN Module[from] ELSE from

IInv ==
  /\ TypeOK
  /\ HowInv
  /\ TerminalSaved /\ TerminalKept
  /\ InputBlocks
  /\ ForegroundWaited
  /\ ModuleKnown /\ ModuleRemoved
  /\ TreeCurrent /\ PictureCurrent
  /\ InModule
-----------------------------------------------------------------------------
\* The shell starts in a state with the invariant.
LEMMA InitInv == Init => IInv
<1>1. ASSUME Init
      PROVE  TypeOK
  <2>1. cmd \in [name : Commands, background : BOOLEAN]
    BY <1>1 DEF Init, NoCommand, Commands
  <2>2. child \in [Pids -> Children] /\ tree \in [Dirs -> Listings \cup {None}]
    BY <1>1 DEF Init, Children
  <2> QED
    BY <1>1, <2>1, <2>2 DEF Init, TypeOK, Modes
<1>2. Init => HowInv /\ TerminalSaved /\ TerminalKept /\ InputBlocks /\ ForegroundWaited
  BY DEF Init, HowInv, TerminalSaved, TerminalKept, InputBlocks, ForegroundWaited
<1>3. Init => ModuleKnown /\ ModuleRemoved /\ TreeCurrent /\ PictureCurrent /\ InModule
  BY DEF Init, ModuleKnown, ModuleRemoved, TreeCurrent, PictureCurrent, InModule
<1> QED
  BY <1>1, <1>2, <1>3 DEF IInv

\* Every step keeps the types.
LEMMA TypeStep ==
  ASSUME TypeOK, [Next]_vars
  PROVE  TypeOK'
<1> USE DEF TypeOK
<1>1. CASE Prompt
  <2>1. (term \in Modes /\ backup \in Modes)'
    BY <1>1 DEF Prompt, Modes
  <2>2. cmd' \in [name : Commands, background : BOOLEAN]
    BY <1>1 DEF Prompt, Commands, NoCommand
  <2> QED
    BY <1>1, <2>1, <2>2 DEF Prompt, processes, kernel
<1>2. CASE Empty
  BY <1>2, ZenonT(60) DEF Empty, tty, processes, kernel
<1>3. CASE Exit
  BY <1>3 DEF Exit, Endings, tty, processes, kernel
<1>4. CASE Cd
  BY <1>4 DEF Cd, tty, processes, kernel
<1>5. CASE TextCommand \/ Scan
  BY <1>5 DEF TextCommand, Scan, tty, processes, kernel
<1>6. CASE Repl
  BY <1>6 DEF Repl, tty, processes, kernel
<1>7. CASE ClockPoll
  <2>1. (term \in Modes /\ backup \in Modes)'
    BY <1>7 DEF ClockPoll, Modes
  <2> QED
    BY <1>7, <2>1, ZenonT(60) DEF ClockPoll, processes, kernel
<1>8. CASE ClockKey
  BY <1>8 DEF ClockKey, tty, processes, kernel
<1>9. CASE PsvisEnter
  BY <1>9, DirsAssumption DEF PsvisEnter, tty, processes, kernel
<1>10. CASE PsvisInsmod
  <2>1. PICK n \in 0 .. 3, t \in Trees \cup {None} :
          LET cleared == IF n >= 1 THEN None ELSE log
              lists == n >= 2 /\ Inserts(t)
          IN /\ log' = IF lists THEN [psvis |-> number, tree |-> t] ELSE cleared
             /\ inserted' = (inserted \/ lists)
             /\ tree' \in IF n = 3 THEN {[tree EXCEPT ![cwd] = log']}
                          ELSE {tree} \cup {[tree EXCEPT ![cwd] = None] : i \in {n} \cap {2}}
             /\ cut' = (n < 3)
    BY <1>10 DEF PsvisInsmod
  <2>2. log' \in Listings \cup {None}
    <3>1. Inserts(t) => t \in Trees
      BY <2>1 DEF Inserts
    <3> QED
      BY <2>1, <3>1 DEF Listings
  <2>3. inserted' \in BOOLEAN /\ cut' \in BOOLEAN
    BY <2>1
  <2>4. \/ tree' = tree \/ tree' = [tree EXCEPT ![cwd] = log']
        \/ tree' = [tree EXCEPT ![cwd] = None]
    BY <2>1
  <2>5. tree' \in [Dirs -> Listings \cup {None}]
    BY <2>2, <2>4
  <2> QED
    BY <1>10, <2>2, <2>3, <2>5 DEF PsvisInsmod, tty, processes
<1>11. CASE PsvisPlot
  <2>1. (plotted \subseteq Dirs /\ pictures \subseteq [psvis : Nat, of : Listings, cut : BOOLEAN])'
    <3>1. CASE UNCHANGED <<plotted, pictures>>
      BY <3>1
    <3>2. CASE /\ tree[cwd] # None
               /\ plotted' = plotted \cup {Parent[cwd]}
               /\ pictures' \in {pictures, pictures \cup
                                   {[psvis |-> number, of |-> tree[cwd], cut |-> cut]}}
      BY <3>2, DirsAssumption
    <3> QED
      BY <1>11, <3>1, <3>2 DEF PsvisPlot
  <2> QED
    BY <1>11, <2>1, ZenonT(60) DEF PsvisPlot, tty, processes
<1>12. CASE PsvisBack
  <2>1. (cwd \in Dirs /\ cmd \in [name : Commands, background : BOOLEAN])'
    BY <1>12, DirsAssumption DEF PsvisBack, Commands
  <2> QED
    BY <1>12, <2>1, ZenonT(60) DEF PsvisBack, tty, processes, kernel
<1>13. CASE Fork
  BY <1>13 DEF Fork, Children, Started, tty, processes, kernel
<1>14. CASE ForkFails
  BY <1>14 DEF ForkFails, Started, tty, processes, kernel
<1>15. CASE Wait
  BY <1>15 DEF Wait, Children, tty, processes, kernel
<1>16. CASE Leave
  <2>1. (inserted \in BOOLEAN /\ cut \in BOOLEAN)'
    BY <1>16 DEF Leave
  <2> QED
    BY <1>16, <2>1, ZenonT(60) DEF Leave, tty, processes
<1>17. CASE EnterLine
  BY <1>17 DEF EnterLine, tty, processes, kernel
<1>18. CASE CtrlD
  BY <1>18 DEF CtrlD, Endings, tty, processes, kernel
<1>19. CASE Segfault
  BY <1>19 DEF Segfault, Endings, tty, processes, kernel
<1>20. CASE Interrupt
  BY <1>20 DEF Interrupt, Endings, Commands, NoCommand, Children, tty, processes, kernel
<1>21. CASE Restart
  <2>1. (/\ term \in Modes /\ backup \in Modes /\ wanted \in Modes
         /\ child \in [Pids -> Children])'
    BY <1>21 DEF Restart, Modes, Children
  <2>2. (blocking \in BOOLEAN /\ legacy \in BOOLEAN /\ cut \in BOOLEAN)'
    BY <1>21 DEF Restart
  <2>3. (cwd \in Dirs /\ from \in Dirs /\ number \in Nat /\ shells \in Nat)'
    BY <1>21 DEF Restart
  <2>4. (at = "prompt" /\ how = None /\ waitfor = None /\ back = {} /\ loaded = -1)'
    BY <1>21 DEF Restart
  <2> QED
    BY <1>21, <2>1, <2>2, <2>3, <2>4 DEF Restart
<1>22. ASSUME NEW p \in Pids, Exec(p)
       PROVE  TypeOK'
  BY <1>22 DEF Exec, Children, tty, processes, kernel
<1>23. ASSUME NEW p \in Pids, Ends(p)
       PROVE  TypeOK'
  BY <1>23 DEF Ends, Children, tty, processes, kernel
<1>24. ASSUME NEW p \in Pids, SetsTerminal(p)
       PROVE  TypeOK'
  BY <1>24 DEF SetsTerminal, tty, processes, kernel
<1>25. ASSUME NEW p \in Pids, RemovesPictures(p)
       PROVE  TypeOK'
  BY <1>25 DEF RemovesPictures, tty, processes, kernel
<1>26. CASE UNCHANGED vars
  BY <1>26 DEF vars, tty, processes, kernel
<1> QED
  BY <1>1, <1>2, <1>3, <1>4, <1>5, <1>6, <1>7, <1>8, <1>9, <1>10, <1>11, <1>12, <1>13, <1>14, <1>15, <1>16, <1>17, <1>18, <1>19, <1>20, <1>21, <1>22, <1>23, <1>24, <1>25, <1>26
     DEF Next, ShellStep, User, Child, ChildEnds

\* The terminal and standard input: who changes them puts them back, or ends the
\* shell in a way that is excepted.
LEMMA TerminalStep ==
  ASSUME TypeOK, HowInv, TerminalSaved, TerminalKept, InputBlocks, [Next]_vars
  PROVE  (HowInv /\ TerminalSaved /\ TerminalKept /\ InputBlocks)'
<1> USE DirsAssumption DEF TypeOK, Endings, HowInv, TerminalSaved, TerminalKept, InputBlocks
<1>1. CASE Prompt
  BY <1>1 DEF Prompt, tty, processes, kernel
<1>2. CASE Empty
  BY <1>2 DEF Empty, Running, tty, processes, kernel
<1>3. CASE Exit
  BY <1>3 DEF Exit, Running, tty, processes, kernel
<1>4. CASE Cd
  BY <1>4 DEF Cd, Running, tty, processes, kernel
<1>5. CASE TextCommand \/ Scan
  BY <1>5 DEF TextCommand, Scan, Running, tty, processes, kernel
<1>6. CASE Repl
  BY <1>6 DEF Repl, Running, tty, processes, kernel
<1>7. CASE ClockPoll
  BY <1>7 DEF ClockPoll, Running, tty, processes, kernel
<1>8. CASE ClockKey
  BY <1>8 DEF ClockKey, tty, processes, kernel
<1>9. CASE PsvisEnter
  BY <1>9 DEF PsvisEnter, Running, tty, processes, kernel
<1>10. CASE PsvisInsmod
  BY <1>10 DEF PsvisInsmod, tty, processes, kernel
<1>11. CASE PsvisPlot
  BY <1>11 DEF PsvisPlot, tty, processes, kernel
<1>12. CASE PsvisBack
  BY <1>12 DEF PsvisBack, tty, processes, kernel
<1>13. CASE Fork
  BY <1>13 DEF Fork, Running, Started, tty, processes, kernel
<1>14. CASE ForkFails
  BY <1>14 DEF ForkFails, Running, Started, tty, processes, kernel
<1>15. CASE Wait
  BY <1>15 DEF Wait, tty, processes, kernel
<1>16. CASE Leave
  BY <1>16 DEF Leave, tty, processes, kernel
<1>17. CASE EnterLine
  BY <1>17 DEF EnterLine, tty, processes, kernel
<1>18. CASE CtrlD
  BY <1>18 DEF CtrlD, tty, processes, kernel
<1>19. CASE Segfault
  BY <1>19 DEF Segfault, tty, processes, kernel
<1>20. CASE Interrupt
  BY <1>20 DEF Interrupt, tty, processes, kernel
<1>21. CASE Restart
  BY <1>21 DEF Restart, tty, processes, kernel
<1>22. ASSUME NEW p \in Pids, Exec(p)
       PROVE  (HowInv /\ TerminalSaved /\ TerminalKept /\ InputBlocks)'
  BY <1>22 DEF Exec, tty, processes, kernel
<1>23. ASSUME NEW p \in Pids, Ends(p)
       PROVE  (HowInv /\ TerminalSaved /\ TerminalKept /\ InputBlocks)'
  BY <1>23 DEF Ends, tty, processes, kernel
<1>24. ASSUME NEW p \in Pids, SetsTerminal(p)
       PROVE  (HowInv /\ TerminalSaved /\ TerminalKept /\ InputBlocks)'
  BY <1>24 DEF SetsTerminal, tty, processes, kernel
<1>25. ASSUME NEW p \in Pids, RemovesPictures(p)
       PROVE  (HowInv /\ TerminalSaved /\ TerminalKept /\ InputBlocks)'
  BY <1>25 DEF RemovesPictures, tty, processes, kernel
<1>26. CASE UNCHANGED vars
  BY <1>26 DEF vars, tty, processes, kernel
<1> QED
  BY <1>1, <1>2, <1>3, <1>4, <1>5, <1>6, <1>7, <1>8, <1>9, <1>10, <1>11, <1>12, <1>13, <1>14, <1>15, <1>16, <1>17, <1>18, <1>19, <1>20, <1>21, <1>22, <1>23, <1>24, <1>25, <1>26
     DEF Next, ShellStep, User, Child, ChildEnds

\* A child in the foreground exists only while the shell waits for it.
LEMMA ChildStep ==
  ASSUME TypeOK, ForegroundWaited, [Next]_vars
  PROVE  ForegroundWaited'
<1> USE PidsAssumption DEF TypeOK, ForegroundWaited
<1>1. CASE Prompt
  BY <1>1 DEF Prompt, tty, processes, kernel
<1>2. CASE Empty
  BY <1>2 DEF Empty, Running, tty, processes, kernel
<1>3. CASE Exit
  BY <1>3 DEF Exit, Running, tty, processes, kernel
<1>4. CASE Cd
  BY <1>4 DEF Cd, Running, tty, processes, kernel
<1>5. CASE TextCommand \/ Scan
  BY <1>5 DEF TextCommand, Scan, Running, tty, processes, kernel
<1>6. CASE Repl
  BY <1>6 DEF Repl, Running, tty, processes, kernel
<1>7. CASE ClockPoll
  BY <1>7 DEF ClockPoll, Running, tty, processes, kernel
<1>8. CASE ClockKey
  BY <1>8 DEF ClockKey, tty, processes, kernel
<1>9. CASE PsvisEnter
  BY <1>9 DEF PsvisEnter, Running, tty, processes, kernel
<1>10. CASE PsvisInsmod
  BY <1>10 DEF PsvisInsmod, tty, processes, kernel
<1>11. CASE PsvisPlot
  BY <1>11 DEF PsvisPlot, tty, processes, kernel
<1>12. CASE PsvisBack
  BY <1>12 DEF PsvisBack, tty, processes, kernel
<1>13. CASE Fork
  BY <1>13 DEF Fork, Running, Started, tty, processes, kernel
<1>14. CASE ForkFails
  BY <1>14 DEF ForkFails, Running, Started, tty, processes, kernel
<1>15. CASE Wait
  BY <1>15 DEF Wait, tty, processes, kernel
<1>16. CASE Leave
  BY <1>16 DEF Leave, tty, processes, kernel
<1>17. CASE EnterLine
  BY <1>17 DEF EnterLine, tty, processes, kernel
<1>18. CASE CtrlD
  BY <1>18 DEF CtrlD, tty, processes, kernel
<1>19. CASE Segfault
  BY <1>19 DEF Segfault, tty, processes, kernel
<1>20. CASE Interrupt
  BY <1>20 DEF Interrupt, tty, processes, kernel
<1>21. CASE Restart
  BY <1>21 DEF Restart, tty, processes, kernel
<1>22. ASSUME NEW p \in Pids, Exec(p)
       PROVE  ForegroundWaited'
  BY <1>22 DEF Exec, tty, processes, kernel
<1>23. ASSUME NEW p \in Pids, Ends(p)
       PROVE  ForegroundWaited'
  BY <1>23 DEF Ends, tty, processes, kernel
<1>24. ASSUME NEW p \in Pids, SetsTerminal(p)
       PROVE  ForegroundWaited'
  BY <1>24 DEF SetsTerminal, tty, processes, kernel
<1>25. ASSUME NEW p \in Pids, RemovesPictures(p)
       PROVE  ForegroundWaited'
  BY <1>25 DEF RemovesPictures, tty, processes, kernel
<1>26. CASE UNCHANGED vars
  BY <1>26 DEF vars, tty, processes, kernel
<1> QED
  BY <1>1, <1>2, <1>3, <1>4, <1>5, <1>6, <1>7, <1>8, <1>9, <1>10, <1>11, <1>12, <1>13, <1>14, <1>15, <1>16, <1>17, <1>18, <1>19, <1>20, <1>21, <1>22, <1>23, <1>24, <1>25, <1>26
     DEF Next, ShellStep, User, Child, ChildEnds

\* The module in the kernel, the listing and the directory.
LEMMA KernelStep ==
  ASSUME TypeOK, HowInv, ModuleKnown, ModuleRemoved, TreeCurrent, PictureCurrent, InModule, [Next]_vars
  PROVE  (ModuleKnown /\ ModuleRemoved /\ TreeCurrent /\ PictureCurrent /\ InModule)'
<1> USE DirsAssumption DEF TypeOK, Endings, HowInv, ModuleKnown, ModuleRemoved, TreeCurrent, PictureCurrent, InModule
<1>1. CASE Prompt
  BY <1>1 DEF Prompt, tty, processes, kernel
<1>2. CASE Empty
  BY <1>2 DEF Empty, Running, tty, processes, kernel
<1>3. CASE Exit
  BY <1>3 DEF Exit, Running, tty, processes, kernel
<1>4. CASE Cd
  BY <1>4 DEF Cd, Running, tty, processes, kernel
<1>5. CASE TextCommand \/ Scan
  BY <1>5 DEF TextCommand, Scan, Running, tty, processes, kernel
<1>6. CASE Repl
  BY <1>6 DEF Repl, Running, tty, processes, kernel
<1>7. CASE ClockPoll
  BY <1>7 DEF ClockPoll, Running, tty, processes, kernel
<1>8. CASE ClockKey
  BY <1>8 DEF ClockKey, tty, processes, kernel
<1>9. CASE PsvisEnter
  BY <1>9 DEF PsvisEnter, Running, tty, processes, kernel
<1>10. CASE PsvisInsmod
  <2>1. PICK n \in 0 .. 3, t \in Trees \cup {None} :
          LET cleared == IF n >= 1 THEN None ELSE log
              lists == n >= 2 /\ Inserts(t)
          IN /\ log' = IF lists THEN [psvis |-> number, tree |-> t] ELSE cleared
             /\ inserted' = (inserted \/ lists)
             /\ tree' \in IF n = 3 THEN {[tree EXCEPT ![cwd] = log']}
                          ELSE {tree} \cup {[tree EXCEPT ![cwd] = None] : i \in {n} \cap {2}}
             /\ cut' = (n < 3)
    BY <1>10 DEF PsvisInsmod
  <2>2. (at = "plot" /\ ~cut => tree[cwd] = None \/ tree[cwd].psvis = number)'
    <3>1. SUFFICES ASSUME ~cut'
                   PROVE  tree'[cwd] = None \/ tree'[cwd].psvis = number
      BY <1>10 DEF PsvisInsmod
    <3>2. n = 3
      <4>1. ~(n < 3)
        BY <2>1, <3>1, Zenon
      <4> QED
        BY <4>1
    <3>3. tree' = [tree EXCEPT ![cwd] = log']
      BY <2>1, <3>2
    <3>4. log' = None \/ log' = [psvis |-> number, tree |-> t]
      BY <2>1, <3>2
    <3> QED
      BY <3>3, <3>4
  <2>3. (ModuleKnown /\ ModuleRemoved /\ PictureCurrent /\ InModule)'
    BY <1>10 DEF PsvisInsmod, tty, processes
  <2> QED
    BY <2>2, <2>3
<1>11. CASE PsvisPlot
  BY <1>11 DEF PsvisPlot, tty, processes, kernel
<1>12. CASE PsvisBack
  BY <1>12 DEF PsvisBack, tty, processes, kernel
<1>13. CASE Fork
  BY <1>13 DEF Fork, Running, Started, tty, processes, kernel
<1>14. CASE ForkFails
  BY <1>14 DEF ForkFails, Running, Started, tty, processes, kernel
<1>15. CASE Wait
  BY <1>15 DEF Wait, tty, processes, kernel
<1>16. CASE Leave
  BY <1>16 DEF Leave, tty, processes, kernel
<1>17. CASE EnterLine
  BY <1>17 DEF EnterLine, tty, processes, kernel
<1>18. CASE CtrlD
  BY <1>18 DEF CtrlD, tty, processes, kernel
<1>19. CASE Segfault
  BY <1>19 DEF Segfault, tty, processes, kernel
<1>20. CASE Interrupt
  BY <1>20 DEF Interrupt, tty, processes, kernel
<1>21. CASE Restart
  BY <1>21 DEF Restart, tty, processes, kernel
<1>22. ASSUME NEW p \in Pids, Exec(p)
       PROVE  (ModuleKnown /\ ModuleRemoved /\ TreeCurrent /\ PictureCurrent /\ InModule)'
  BY <1>22 DEF Exec, tty, processes, kernel
<1>23. ASSUME NEW p \in Pids, Ends(p)
       PROVE  (ModuleKnown /\ ModuleRemoved /\ TreeCurrent /\ PictureCurrent /\ InModule)'
  BY <1>23 DEF Ends, tty, processes, kernel
<1>24. ASSUME NEW p \in Pids, SetsTerminal(p)
       PROVE  (ModuleKnown /\ ModuleRemoved /\ TreeCurrent /\ PictureCurrent /\ InModule)'
  BY <1>24 DEF SetsTerminal, tty, processes, kernel
<1>25. ASSUME NEW p \in Pids, RemovesPictures(p)
       PROVE  (ModuleKnown /\ ModuleRemoved /\ TreeCurrent /\ PictureCurrent /\ InModule)'
  BY <1>25 DEF RemovesPictures, tty, processes, kernel
<1>26. CASE UNCHANGED vars
  BY <1>26 DEF vars, tty, processes, kernel
<1> QED
  BY <1>1, <1>2, <1>3, <1>4, <1>5, <1>6, <1>7, <1>8, <1>9, <1>10, <1>11, <1>12, <1>13, <1>14, <1>15, <1>16, <1>17, <1>18, <1>19, <1>20, <1>21, <1>22, <1>23, <1>24, <1>25, <1>26
     DEF Next, ShellStep, User, Child, ChildEnds

\* Every reachable state has the invariant.
LEMMA Invariance == Spec => []IInv
<1>1. IInv /\ [Next]_vars => IInv'
  BY TypeStep, TerminalStep, ChildStep, KernelStep DEF IInv
<1> QED
  BY <1>1, InitInv, PTL DEF Spec

-----------------------------------------------------------------------------
\* The variables keep their types (shell-skeleton.c:23, 524, 620, 818).
THEOREM ShellTypes == Spec => []TypeOK
<1>1. IInv => TypeOK
  BY DEF IInv
<1> QED
  BY <1>1, Invariance, PTL

\* prompt and kbhit put back the settings of the terminal that they find, which
\* are those of the last program (shell-skeleton.c:527-609, 616-639).
THEOREM ShellTerminal == Spec => []TerminalKept
<1>1. IInv => TerminalKept
  BY DEF IInv
<1> QED
  BY <1>1, Invariance, PTL

\* kbhit leaves a standard input that blocks (shell-skeleton.c:627-632).
THEOREM ShellInput == Spec => []InputBlocks
<1>1. IInv => InputBlocks
  BY DEF IInv
<1> QED
  BY <1>1, Invariance, PTL

\* The shell prompts when the program in the foreground is done and waited for,
\* also when fork has failed before (shell-skeleton.c:818, 886-890).
THEOREM ShellForeground == Spec => []ForegroundDone
<1>1. IInv => ForegroundDone
  <2>1. SUFFICES ASSUME IInv, at \in {"prompt", "edit"}, NEW p \in Pids, child[p] # "free"
                 PROVE  p \in back
    BY DEF ForegroundDone
  <2> QED
    BY <2>1 DEF IInv, ForegroundWaited
<1> QED
  BY <1>1, Invariance, PTL

\* A shell that exit or Ctrl+D ends removes the module that it has inserted
\* (shell-skeleton.c:661-664, 811).
THEOREM ShellModule == Spec => []ModuleRemoved
<1>1. IInv => ModuleRemoved
  BY DEF IInv
<1> QED
  BY <1>1, Invariance, PTL

\* A picture is drawn from the listing of its own psvis, unless Ctrl+C has cut
\* the command line of dmesg and insmod (shell-skeleton.c:809-813).
THEOREM ShellPicture == Spec => []PictureCurrent
<1>1. IInv => PictureCurrent
  BY DEF IInv
<1> QED
  BY <1>1, Invariance, PTL

\* The two changes of directory of psvis take the shell back, or one directory
\* up from a place without a directory module (shell-skeleton.c:808, 814).
THEOREM ShellDirectory == Spec => PsvisMoves
<1>1. IInv /\ [Next]_vars =>
        [at = "back" /\ at' = "run" =>
           cwd' = IF Module[from] # None THEN from ELSE Parent[from]]_vars
  <2>1. SUFFICES ASSUME IInv, Next, at = "back", at' = "run"
                 PROVE  cwd' = IF Module[from] # None THEN from ELSE Parent[from]
    OBVIOUS
  <2>2. PsvisBack
    BY <2>1 DEF Next, ShellStep, User, Child, ChildEnds, Prompt, Empty, Exit, Cd,
         TextCommand, Repl, ClockPoll, ClockKey, PsvisEnter, PsvisInsmod, PsvisPlot,
         Fork, ForkFails, Wait, Leave, EnterLine, Scan, CtrlD, Segfault, Interrupt,
         Restart, Exec, Ends, SetsTerminal, RemovesPictures, Running
  <2>3. from \in Dirs /\ cwd = IF Module[from] # None THEN Module[from] ELSE from
    BY <2>1 DEF IInv, TypeOK, InModule
  <2> QED
    BY <2>2, <2>3, DirsAssumption DEF PsvisBack
<1> QED
  BY <1>1, Invariance, PTL DEF Spec, PsvisMoves
=============================================================================
