---------------------------- MODULE MCShellLine ----------------------------
(* Texts for ShellLine. *)
EXTENDS ShellLine

MCChunks == {<<"a">>, <<"b", "b">>, <<" ", "a", "b">>, <<" ", ">">>,
             <<" ", ">", ">", " ", "b">>, <<" ", "<", " ", "a">>, <<" ", "&">>,
             <<" ", "|">>, <<"alias", " ", "a">>, <<";">>}

\* The lengths of the names grow by one and by two.
Named(alias, comm) == [alias |-> alias, comm |-> comm]
MCFiles == {<<>>, <<Named(<<"a">>, <<"b", " ", "b">>), Named(<<"b", "b">>, <<"a">>),
                    Named(<<"a", "a", "b", "b">>, <<"a", " ", "b">>)>>}

\* An array of n bytes nobody wrote, but for some NULs: in buf one that a line
\* may reach or not; in alias one behind the name of one letter, and also, or not,
\* one behind that of four.
Uninitialised(n, nuls) == [i \in 1 .. n |-> IF i \in nuls THEN NUL ELSE Junk]
MCLeftovers == {Uninitialised(Size, {4})}
MCStacks == {Uninitialised(AliasSize, {2}), Uninitialised(AliasSize, {2, 5})}

\* What a step or a property may still read: the prompt overwrites what was
\* edited, and nothing follows the end.
Read(steps, value) == IF at \in steps THEN <<value>> ELSE <<>>
View ==
  <<at, Read({"edit"}, <<buf, index, screen, onlyUp>>),
    Read({"prompt", "edit", "run"}, <<oldbuf, file, keys>>), command,
    Read({"edit", "run", "crashed"}, line), stack, before>>
=============================================================================
