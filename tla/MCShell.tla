------------------------------ MODULE MCShell ------------------------------
(* A repository with the directory module and a place without one, and three *)
(* processes: with threads, one of which has a child of its own; with threads *)
(* and children that it has adopted, older than itself and out of order; and  *)
(* one with a child that has a low number.                                    *)
EXTENDS Shell, TLC

MCDirs == {"home", "repository", "module"}
MCParent == [d \in MCDirs |-> IF d = "module" THEN "repository" ELSE "home"]
MCModule == [d \in MCDirs |-> IF d = "repository" THEN "module" ELSE None]

Family ==
  [root |-> 10,
   threads |-> (10 :> <<11>> @@ 12 :> <<>> @@ 13 :> <<16, 17>> @@ 14 :> <<>> @@ 18 :> <<>>),
   start |-> (10 :> 1 @@ 12 :> 2 @@ 13 :> 3 @@ 14 :> 4 @@ 18 :> 5),
   children |-> (10 :> <<12, 13>> @@ 11 :> <<18>> @@ 12 :> <<14>>)
                  @@ [p \in 13 .. 18 |-> <<>>]]
Adopted ==
  [root |-> 20,
   threads |-> [p \in 20 .. 26 |-> IF p = 22 THEN <<27>> ELSE <<>>],
   start |-> (20 :> 5 @@ 21 :> 6 @@ 22 :> 3 @@ 23 :> 2 @@ 24 :> 7 @@ 25 :> 1 @@ 26 :> 9),
   children |-> (20 :> <<21, 23, 22>> @@ 21 :> <<26, 24>> @@ 22 :> <<25>>)
                  @@ [p \in 23 .. 27 |-> <<>>]]
Low ==
  [root |-> 1,
   threads |-> [p \in 1 .. 4 |-> <<>>],
   children |-> <<<<3, 4, 2>>, <<>>, <<>>, <<>>>>,
   start |-> <<1, 2, 3, 4>>]
MCTrees == {Family, Adopted, Low}

\* What a step or a property may still read: prompt overwrites cmd, from, cut
\* and backup before anything reads them, Fork the place of p in back, and no
\* two pictures have the number of one psvis, so that the new one is always new.
Read(steps, value) == IF at \in steps THEN value ELSE None
View ==
  <<at, Read({"run", "insmod", "plot", "back", "wait"}, cmd), cwd, loaded, term,
    Read({"edit", "poll"}, backup), blocking, matches, child,
    {p \in back : child[p] # "free"}, waitfor, inserted, log, tree, plotted, number,
    shells, wanted, Read({"insmod", "plot", "back"}, from),
    Read({"plot", "leave", "ended"}, cut),
    {x \in pictures : x.of.psvis # x.psvis /\ ~x.cut}, legacy, how>>
=============================================================================
