--------------------------- MODULE MCAllocClient ---------------------------
(***************************************************************************)
(* AllocClient for TLC.  Between calls, the words that belong to no block  *)
(* and those of a listed block past its three fields are never read before *)
(* they are written again, so two states that differ in them only are one  *)
(* to the runs that use this view.                                         *)
(***************************************************************************)
EXTENDS AllocClient

Fields == UNION {{f, Next_(f), Prev_(f)} : f \in Listed}
Held == UNION {{b.at - Header} \cup Payload(b) : b \in live}

LiveWords == [a \in Words |-> IF a \in Fields \cup Held THEN mem[a] ELSE 0]

View ==
  <<IF pc = "idle" THEN LiveWords ELSE mem,
    head, block_end, available_memory, brk, refused, live, call, pc>>

=============================================================================
