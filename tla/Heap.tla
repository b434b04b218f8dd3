-------------------------------- MODULE Heap --------------------------------
(***************************************************************************)
(* What an allocator promises the program that calls it, with no free      *)
(* list, header or break: it hands out words no other allocation has, a    *)
(* resized allocation keeps what it held, and only their owner changes the *)
(* words of an allocation.                                                 *)
(***************************************************************************)
EXTENDS Integers

CONSTANT Words       \* the addresses that can be handed out

VARIABLES
  live,              \* the allocations: where each starts, its length in words
  content            \* what the words of the allocations hold

vars == <<live, content>>

Payload(b) == b.at .. b.at + b.len - 1
Owned(S) == UNION {Payload(b) : b \in S}

Init == live = {} /\ content = [w \in {} |-> 0]

\* The words of these allocations are left alone, and no others are owned.
Keeps(S) ==
  /\ DOMAIN content' = Owned(live')
  /\ \A w \in Owned(S) : content'[w] = content[w]

\* An allocation b is added, clear of the others.
Add(S, b) ==
  /\ Payload(b) \subseteq Words
  /\ Payload(b) \cap Owned(S) = {}
  /\ live' = S \cup {b}
  /\ Keeps(S)

Grant == \E b \in live' \ live : Add(live, b)

Resize ==
  \E old \in live, b \in live' :
    /\ Add(live \ {old}, b)
    /\ \A i \in 0 .. b.len - 1 :
         i < old.len => content'[b.at + i] = content[old.at + i]

Release == \E b \in live : live' = live \ {b} /\ Keeps(live')

\* The owner writes to its words.
Store == \E b \in live : live' = live /\ Keeps(live \ {b})

Next == Grant \/ Resize \/ Release \/ Store

Spec == Init /\ [][Next]_vars
=============================================================================
