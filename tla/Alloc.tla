------------------------------- MODULE Alloc -------------------------------
(***************************************************************************)
(* The allocator of project-3-memory-allocator/alloc.c: kumalloc, kufree,  *)
(* kucalloc and kurealloc over a heap that sbrk grows and shrinks.  Memory *)
(* is an array of 8-byte words, as the free list lives inside the blocks   *)
(* it lists: a block's first word is its size, and of a free block the     *)
(* second is "next" and the third "prev".  Each iteration of a loop is a   *)
(* step, so that a call that never returns is seen, and a step that        *)
(* dereferences an unmapped word ends in "crash".  The program that calls  *)
(* the allocator is the one of test_framework/checked_alloc.c: it fills    *)
(* what it is given with a pattern and overwrites what it frees.           *)
(***************************************************************************)
EXTENDS Integers, FiniteSets

CONSTANTS
  Frame,       \* words sbrk is asked for at a time (8192 bytes in the code)
  Page,        \* words of a page of the memory map
  HeapWords,   \* the words sbrk can provide: bounds the model
  Intercepted, \* is sbrk that of test_framework/intercept.c?
  Width,       \* size_t arithmetic wraps at this many words
  Sizes,       \* the words the client asks of kumalloc and kucalloc
  Counts,      \* the first argument of kucalloc
  Resizes,     \* the words the client asks of kurealloc
  MaxLive      \* blocks the client holds at a time: bounds the model

ASSUME FrameAssumption == Frame \in Nat /\ Frame > 1
ASSUME PageAssumption == Page \in Nat /\ Page > 1
ASSUME HeapAssumption == HeapWords \in Nat \ {0} /\ HeapWords % Page = 0
ASSUME SbrkAssumption == Intercepted \in BOOLEAN
ASSUME WidthAssumption == Width \in Nat \ {0}
ASSUME SizesAssumption ==
  Sizes \subseteq Nat \ {0} /\ Counts \subseteq Nat \ {0} /\ Resizes \subseteq Nat \ {0}
ASSUME LiveAssumption == MaxLive \in Nat

VARIABLES
  mem,               \* the heap's words
  head,              \* alloc.c:24, the first block of the free list
  block_end,         \* alloc.c:27, where the last block ends
  available_memory,  \* alloc.c:9, words between block_end and the break
  brk,               \* the program break: the first word past the heap
  refused,           \* has sbrk ever failed?
  live,              \* the allocations the client holds: where, how many words
  call,              \* the arguments and locals of the call in progress
  pc                 \* where that call stands

code == <<mem, head, block_end, available_memory, brk, refused>>
vars == <<code, live, call, pc>>

NULL == 0
Header == 1                        \* BLOCK_SIZE
First == Page + 1                  \* the page at NULL is never mapped
Limit == Page + HeapWords + 1
Words == First .. Limit - 1
Poison == 100 * Limit               \* what a freed block is overwritten with
Data(at) == Poison + at            \* the pattern of the block at "at"

(***************************************************************************)
(* Reading and writing words.  The fields of a free block are its first    *)
(* three words.  A read outside the heap has no value: the step that would *)
(* make it is the crash below.                                             *)
(***************************************************************************)
Read(m, a) == IF a \in Words THEN m[a] ELSE NULL
Write(m, a, v) == IF a \in Words THEN [m EXCEPT ![a] = v] ELSE m
Next_(a) == a + 1
Prev_(a) == a + 2
SizeOf(a) == Read(mem, a)
NextOf(a) == Read(mem, Next_(a))
End(a) == a + SizeOf(a)

Payload(b) == b.at .. b.at + b.len - 1
Overwrite(m, S, v) == [a \in Words |-> IF a \in S THEN v ELSE m[a]]

(***************************************************************************)
(* sbrk: it moves the break if the heap has room.  Whole pages are mapped. *)
(* The tests have the sbrk of intercept.c, which ends the program when it  *)
(* cannot move the break, as Aborts says below, and keeps what is in the   *)
(* pages given back.  A program that preloads the allocator in the place   *)
(* of malloc (alloc.c:387) has that of the C library, which then fails and *)
(* leaves the break, and a page given back and taken again is zeroed.      *)
(***************************************************************************)
CanMove(d) == brk + d \in First .. Limit
Moved(d) == IF CanMove(d) THEN brk + d ELSE brk
LastMapped(b) == ((b - 1 + Page - 1) \div Page) * Page
Unmap(m, b) == IF Intercepted THEN m ELSE Overwrite(m, LastMapped(b) + 1 .. Limit, 0)
Sbrk(d) == brk' = Moved(d) /\ refused' = (refused \/ ~CanMove(d))

NoCall == [op |-> "none", ptr |-> NULL, len |-> 0, prev_size |-> 0,
           total |-> 0, size_diff |-> 0, block |-> NULL,
           temp |-> NULL, temp2 |-> NULL, return_flag |-> FALSE]

Init ==
  /\ mem = [a \in Words |-> 0]
  /\ head = NULL
  /\ block_end = NULL
  /\ available_memory = 0
  /\ brk = First
  /\ refused = FALSE
  /\ live = {}
  /\ call = NoCall
  /\ pc = "idle"

-----------------------------------------------------------------------------
(***************************************************************************)
(* The client's calls.  Each enters the allocator; an entry point leaves   *)
(* the allocator's state alone.                                            *)
(***************************************************************************)
\* As Enter with the header forgotten.
EnterFault(op, b, len, n) ==
  /\ call' = IF n = 0 THEN NoCall
             ELSE [NoCall EXCEPT !.op = op, !.ptr = b.at, !.len = len,
                                 !.total = n, !.temp = head,
                                 !.prev_size = SizeOf(b.at - Header)]
  /\ pc' = IF n = 0 THEN "idle" ELSE "fit"
  /\ UNCHANGED <<code, live>>

\* kumalloc(n), and kurealloc(NULL, n).  The header is added and the sum is
\* rounded to words; a request of nothing returns NULL.
Enter(op, b, len, n) ==
  /\ call' = IF n = 0 THEN NoCall
             ELSE [NoCall EXCEPT !.op = op, !.ptr = b.at, !.len = len,
                                 !.total = n + Header, !.temp = head,
                                 !.prev_size = SizeOf(b.at - Header)]
  /\ pc' = IF n = 0 THEN "idle" ELSE "fit"
  /\ UNCHANGED <<code, live>>

Nothing == [at |-> NULL, len |-> 0]

CallMalloc(n) ==
  /\ pc = "idle" /\ Cardinality(live) < MaxLive
  /\ Enter("malloc", Nothing, n, n)

\* kucalloc(k, n): the product wraps, and no test is made of it.
CallCalloc(k, n) ==
  /\ pc = "idle" /\ Cardinality(live) < MaxLive
  /\ Enter("calloc", Nothing, k * n, (k * n) % Width)

\* kurealloc(ptr, n): the block stays where its whole size, header included,
\* reaches n; otherwise n words and a header are asked of kumalloc.
CallRealloc(b, n) ==
  /\ pc = "idle"
  /\ IF SizeOf(b.at - Header) >= n
     THEN /\ live' = (live \ {b}) \cup {[at |-> b.at, len |-> n]}
          /\ call' = [NoCall EXCEPT !.op = "resize", !.ptr = b.at,
                                    !.len = b.len, !.block = b.at - Header]
          /\ pc' = "fill"
          /\ UNCHANGED code
     ELSE Enter("realloc", b, n, n + Header)

\* kufree(ptr), and kurealloc(ptr, 0).
CallFree(b) ==
  /\ pc = "idle"
  /\ live' = live \ {b}
  /\ mem' = Overwrite(mem, Payload(b), Poison)
  /\ call' = [NoCall EXCEPT !.op = "free", !.block = b.at - Header]
  /\ pc' = "last"
  /\ UNCHANGED <<head, block_end, available_memory, brk, refused>>

Calls ==
  \/ \E n \in Sizes : CallMalloc(n)
  \/ \E k \in Counts, n \in Sizes : CallCalloc(k, n)
  \/ \E b \in live, n \in Resizes : CallRealloc(b, n)
  \/ \E b \in live : CallFree(b)

-----------------------------------------------------------------------------
(***************************************************************************)
(* kumalloc: first fit, then either the end of the heap or the block found *)
(***************************************************************************)
Fit ==
  /\ pc = "fit"
  /\ \/ /\ call.temp # NULL /\ SizeOf(call.temp) >= call.total
        /\ call' = [call EXCEPT !.block = call.temp]
        /\ pc' = "take"
     \/ /\ call.temp # NULL /\ SizeOf(call.temp) < call.total
        /\ call' = [call EXCEPT !.temp = NextOf(call.temp)]
        /\ pc' = pc
     \/ /\ call.temp = NULL
        /\ pc' = "grow"
        /\ call' = call
  /\ UNCHANGED <<code, live>>

\* As Capacity with the last frame forgotten.
CapacityFault(total) ==
  IF total > Frame THEN (total \div Frame) * Frame ELSE Frame

Capacity(total) ==
  IF total > Frame THEN (total \div Frame + 1) * Frame ELSE Frame

\* Where the heap's next block goes: sbrk's answer, -1 if it fails, when
\* nothing is available, and otherwise the end of the last block.
Failed == -1
GrowAt ==
  IF available_memory > 0 THEN block_end
  ELSE IF CanMove(Capacity(call.total)) THEN brk ELSE Failed

\* As GrowBy where anything available is taken to be enough.
GrowByFault == IF available_memory > 0 THEN 0 ELSE Capacity(call.total)

GrowBy == IF available_memory > 0 /\ call.total <= available_memory
          THEN 0 ELSE Capacity(call.total)

Grow ==
  /\ pc = "grow"
  /\ Sbrk(GrowBy)
  /\ block_end' = (IF block_end # NULL THEN block_end ELSE GrowAt) + call.total
  /\ available_memory' = available_memory + GrowBy - call.total
  /\ mem' = Write(mem, GrowAt, call.total)
  /\ call' = [call EXCEPT !.block = GrowAt]
  /\ pc' = "return"
  /\ UNCHANGED <<head, live>>

\* As Subseq with the header forgotten.
SubseqFault == call.block + call.total - Header

\* The block found is split at subseq, whatever is left of it: the two words
\* there are written before the remainder is known to be more than nothing.
Subseq == call.block + call.total
Split ==
  Write(Write(Write(mem, Next_(Subseq), NULL),
              Subseq, SizeOf(call.block) - call.total),
        call.block, call.total)

\* Taking the head of the list.
TakeHead ==
  /\ pc = "take" /\ head = call.block
  /\ LET next == Read(Split, Next_(head))
         m == Write(Split, Next_(Subseq), next)
     IN \/ /\ SizeOf(head) > call.total
           /\ mem' = Write(m, Prev_(Subseq), Read(m, Prev_(head)))
           /\ head' = Subseq
        \/ /\ SizeOf(head) <= call.total
           /\ mem' = IF next # NULL THEN Write(Split, Prev_(next), NULL) ELSE Split
           /\ head' = next
  /\ pc' = "return"
  /\ UNCHANGED <<block_end, available_memory, brk, refused, live, call>>

\* Taking another: its predecessor is looked for from the head.
TakeOther ==
  /\ pc = "take" /\ head # call.block
  /\ mem' = Split
  /\ call' = [call EXCEPT !.temp = head,
                          !.size_diff = SizeOf(call.block) - call.total]
  /\ pc' = "unlink"
  /\ UNCHANGED <<head, block_end, available_memory, brk, refused, live>>

\* As UnlinkSplit with the next block's back pointer left alone.
UnlinkSplitFault ==
  LET m == Write(mem, Next_(Subseq), Read(mem, Next_(call.block)))
  IN Write(Write(m, Next_(call.temp), Subseq), Prev_(Subseq), call.temp)

\* Line 124 writes through the next block's pointer, which may be NULL.
UnlinkSplit ==
  LET m1 == Write(mem, Next_(Subseq), Read(mem, Next_(call.block)))
      next == Read(m1, Next_(Read(m1, Next_(call.temp))))
      m2 == Write(m1, Prev_(next), Subseq)
  IN Write(Write(m2, Next_(call.temp), Subseq), Prev_(Subseq), call.temp)

UnlinkWhole ==
  LET m == Write(mem, Prev_(NextOf(call.block)), call.temp)
  IN Write(m, Next_(call.temp), Read(m, Next_(Read(m, Next_(call.temp)))))

Unlink ==
  /\ pc = "unlink"
  /\ \/ /\ NextOf(call.temp) # call.block
        /\ call' = [call EXCEPT !.temp = NextOf(call.temp)]
        /\ pc' = IF NextOf(call.temp) = NULL THEN "return" ELSE pc
        /\ UNCHANGED mem
     \/ /\ NextOf(call.temp) = call.block
        /\ mem' = IF call.size_diff > 0 THEN UnlinkSplit ELSE UnlinkWhole
        /\ pc' = "return"
        /\ UNCHANGED call
  /\ UNCHANGED <<head, block_end, available_memory, brk, refused, live>>

\* As Cleared and Copied, one word short.
ClearedFault == call.block + 1 .. call.block + call.total - Header - 1
CopiedFault == call.block + 1 .. call.block + call.prev_size - 2

\* What the entry point does with kumalloc's block: kucalloc clears it,
\* kurealloc copies into it as many words as the old block's size says, from
\* past the old block's header.  The old block is not freed.
Cleared == call.block + 1 .. call.block + call.total - Header
Copied == call.block + 1 .. call.block + call.prev_size
CopiedFrom == call.ptr .. call.ptr + call.prev_size - 1

Return ==
  /\ pc = "return"
  /\ mem' = CASE call.op = "calloc" -> Overwrite(mem, Cleared, 0)
              [] call.op = "realloc" ->
                   [a \in Words |-> IF a \in Copied
                                    THEN Read(mem, a - call.block - 1 + call.ptr)
                                    ELSE mem[a]]
              [] OTHER -> mem
  /\ live' = {b \in live : b.at # call.ptr}
               \cup {[at |-> call.block + Header, len |-> call.len]}
  /\ pc' = "fill"
  /\ UNCHANGED <<head, block_end, available_memory, brk, refused, call>>

\* The client fills what it was given.
Given == {b \in live : b.at = call.block + Header}
Fill ==
  /\ pc = "fill"
  /\ mem' = [a \in Words |-> IF \E b \in Given : a \in Payload(b)
                             THEN Data(call.block + Header) ELSE mem[a]]
  /\ pc' = "idle"
  /\ call' = NoCall
  /\ UNCHANGED <<head, block_end, available_memory, brk, refused, live>>

-----------------------------------------------------------------------------
(***************************************************************************)
(* kufree: the last block is given back, then every listed block that has  *)
(* become the last; any other block is merged with its listed neighbours   *)
(* or pushed on the list.                                                  *)
(***************************************************************************)
\* As LastBlock with the break left where it is.
LastBlockFault ==
  /\ pc = "last"
  /\ LET last == End(call.block) = block_end
     IN /\ block_end' = IF last THEN call.block ELSE block_end
        /\ call' = [call EXCEPT !.return_flag = last, !.temp = head]
  /\ pc' = "trim"
  /\ UNCHANGED <<mem, head, brk, refused, available_memory, live>>

LastBlock ==
  /\ pc = "last"
  /\ LET last == End(call.block) = block_end
         size == IF last THEN SizeOf(call.block) ELSE 0
     IN /\ Sbrk(-size)
        /\ mem' = Unmap(mem, Moved(-size))
        /\ block_end' = IF last THEN call.block ELSE block_end
        /\ call' = [call EXCEPT !.return_flag = last, !.temp = head]
  /\ pc' = "trim"
  /\ UNCHANGED <<head, available_memory, live>>

\* A listed block at the end leaves the list after its words are given back.
Trim ==
  /\ pc = "trim" /\ call.temp # NULL
  /\ LET temp == call.temp
         m == Unmap(mem, Moved(-SizeOf(temp)))
     IN \/ /\ End(temp) = block_end
           /\ block_end' = temp
           /\ Sbrk(-SizeOf(temp))
           /\ head' = IF temp = head THEN Read(m, Next_(temp)) ELSE head
           /\ mem' = IF temp = head THEN m
                     ELSE Write(m, Next_(Read(m, Prev_(temp))),
                                Read(m, Next_(temp)))
           /\ call' = [call EXCEPT !.temp = Read(mem', Next_(temp))]
        \/ /\ End(temp) # block_end
           /\ call' = [call EXCEPT !.temp = NextOf(temp)]
           /\ UNCHANGED <<block_end, brk, refused, head, mem>>
  /\ UNCHANGED <<available_memory, live, pc>>

\* After the loop: the last block is done with, the first of the list becomes
\* the list, and any other goes on to be merged.
Trimmed ==
  /\ pc = "trim" /\ call.temp = NULL
  /\ \/ /\ call.return_flag
        /\ pc' = "idle" /\ call' = NoCall
        /\ UNCHANGED <<mem, head>>
     \/ /\ ~call.return_flag /\ head = NULL
        /\ mem' = Write(mem, Next_(call.block), NULL)
        /\ head' = call.block
        /\ pc' = "idle" /\ call' = NoCall
     \/ /\ ~call.return_flag /\ head # NULL
        /\ pc' = "merge"
        /\ call' = [call EXCEPT !.temp = head]
        /\ UNCHANGED <<mem, head>>
  /\ UNCHANGED <<block_end, available_memory, brk, refused, live>>

Free(m, h) ==
  /\ mem' = m
  /\ head' = h
  /\ pc' = "idle"
  /\ call' = NoCall
  /\ UNCHANGED <<block_end, available_memory, brk, refused, live>>

\* As MergeThree with the upper block forgotten.
MergeThreeFault(lower, upper) ==
  Free(Write(mem, lower, SizeOf(lower) + SizeOf(call.block)), head)

\* The block between two listed ones: the lower takes all three, and the upper
\* is unlinked by its own pointers.
MergeThree(lower, upper) ==
  LET next == Read(mem, Next_(upper))
      m1 == Write(mem, lower, SizeOf(lower) + SizeOf(call.block) + SizeOf(upper))
      m2 == IF next # lower THEN Write(m1, Next_(lower), next) ELSE m1
      m3 == IF next # NULL THEN Write(m2, Prev_(next), lower) ELSE m2
      m4 == IF upper # head
            THEN Write(m3, Next_(Read(m3, Prev_(upper))), lower) ELSE m3
      h == IF upper = head THEN lower ELSE head
  IN Free(IF Read(m4, Next_(h)) = h THEN Write(m4, Next_(h), NULL) ELSE m4, h)

\* As MergeAbove with the size left alone.
MergeAboveFault == Free(mem, head)

\* The block above a listed one: the listed block grows over it.
MergeAbove ==
  Free(Write(mem, call.temp, SizeOf(call.temp) + SizeOf(call.block)), head)

\* As MergeBelow with the head left alone.
MergeBelowFault ==
  LET upper == call.temp
      m == Write(mem, call.block, SizeOf(call.block) + SizeOf(upper))
  IN Free(Write(m, Next_(call.block), Read(m, Next_(upper))), head)

\* The block below a listed one, whose place in the list it takes.
MergeBelow ==
  LET upper == call.temp
      m1 == Write(mem, call.block, SizeOf(call.block) + SizeOf(upper))
      m2 == Write(m1, Next_(call.block), Read(m1, Next_(upper)))
      m3 == Write(m2, Prev_(call.block), Read(m2, Prev_(upper)))
  IN IF upper # head
     THEN Free(Write(m3, Next_(Read(m3, Prev_(upper))), call.block), head)
     ELSE Free(m3, call.block)

\* As Push with the head moved before it is read.
PushFault ==
  Free(Write(Write(mem, Next_(call.block), call.block), Prev_(head), call.block),
       call.block)

\* No listed neighbour: the block becomes the head of the list.
Push ==
  Free(Write(Write(mem, Next_(call.block), head), Prev_(head), call.block),
       call.block)

\* The list is searched for a neighbour of the block.
Merge ==
  /\ pc = "merge"
  /\ \/ call.temp = NULL /\ Push
     \/ /\ call.temp # NULL
        /\ \/ /\ End(call.temp) = call.block
              /\ pc' = "above" /\ call' = [call EXCEPT !.temp2 = head]
           \/ /\ End(call.temp) # call.block /\ End(call.block) = call.temp
              /\ pc' = "below" /\ call' = [call EXCEPT !.temp2 = head]
           \/ /\ End(call.temp) # call.block /\ End(call.block) # call.temp
              /\ pc' = pc /\ call' = [call EXCEPT !.temp = NextOf(call.temp)]
        /\ UNCHANGED <<code, live>>

\* A neighbour below has been found: is there one above?
Above ==
  /\ pc = "above"
  /\ \/ call.temp2 = End(call.block) /\ MergeThree(call.temp, call.temp2)
     \/ /\ call.temp2 # End(call.block)
        /\ \/ NextOf(call.temp2) = NULL /\ MergeAbove
           \/ /\ NextOf(call.temp2) # NULL
              /\ call' = [call EXCEPT !.temp2 = NextOf(call.temp2)]
              /\ UNCHANGED <<code, live, pc>>

\* A neighbour above has been found: is there one below?
Below ==
  /\ pc = "below"
  /\ \/ call.temp2 = NULL /\ MergeBelow
     \/ /\ call.temp2 # NULL
        /\ \/ End(call.temp2) = call.block /\ MergeThree(call.temp2, call.temp)
           \/ /\ End(call.temp2) # call.block
              /\ call' = [call EXCEPT !.temp2 = NextOf(call.temp2)]
              /\ UNCHANGED <<code, live, pc>>

-----------------------------------------------------------------------------
(***************************************************************************)
(* The words each step dereferences, and the last one mapped when it does: *)
(* where a step moves the break, it dereferences the rest afterwards.      *)
(***************************************************************************)
BackLink(a) == IF a # NULL THEN {Prev_(a)} ELSE {}

ThreeTouches(lower, upper) ==
  {lower, Next_(lower), upper, Next_(upper), call.block}
    \cup BackLink(Read(mem, Next_(upper)))
    \cup (IF upper # head THEN {Prev_(upper), Next_(Read(mem, Prev_(upper)))} ELSE {})

TakeTouches ==
  {call.block, Subseq, Next_(Subseq)}
    \cup (IF head # call.block THEN {}
          ELSE IF SizeOf(head) > call.total
               THEN {Next_(head), Prev_(head), Prev_(Subseq)}
               ELSE {Next_(head)} \cup BackLink(Read(Split, Next_(head))))

UnlinkTouches ==
  {Next_(call.temp)}
    \cup (IF NextOf(call.temp) # call.block THEN {}
          ELSE {Next_(call.block), Prev_(NextOf(call.block))}
                 \cup (IF call.size_diff > 0
                       THEN {Next_(Subseq), Prev_(Subseq)} ELSE {}))

TrimTouches ==
  IF call.temp = NULL
  THEN IF ~call.return_flag /\ head = NULL THEN {Next_(call.block)} ELSE {}
  ELSE {Next_(call.temp)}
         \cup (IF End(call.temp) = block_end /\ call.temp # head
               THEN {Prev_(call.temp), Next_(Read(mem, Prev_(call.temp)))} ELSE {})

Touched ==
  CASE pc = "fit" -> IF call.temp = NULL THEN {}
                     ELSE IF SizeOf(call.temp) >= call.total THEN {call.temp}
                     ELSE {call.temp, Next_(call.temp)}
    [] pc = "grow" -> {GrowAt}
    [] pc = "take" -> TakeTouches
    [] pc = "unlink" -> UnlinkTouches
    [] pc = "return" /\ call.op = "calloc" -> Cleared
    [] pc = "return" /\ call.op = "realloc" -> Copied \cup CopiedFrom
    [] pc = "fill" -> UNION {Payload(b) : b \in Given}
    [] pc = "last" -> {call.block}
    [] pc = "trim" -> TrimTouches
    [] pc = "merge" -> IF call.temp = NULL THEN {Next_(call.block), Prev_(head)}
                       ELSE {call.temp, call.block}
                              \cup (IF call.block = End(call.temp) \/ call.temp = End(call.block)
                                    THEN {} ELSE {Next_(call.temp)})
    [] pc = "above" -> IF call.temp2 = End(call.block)
                       THEN ThreeTouches(call.temp, call.temp2)
                       ELSE {Next_(call.temp2), call.temp, call.block}
    [] pc = "below" -> IF call.temp2 = NULL
                       THEN {call.block, Next_(call.block), call.temp, Prev_(call.temp)}
                              \cup (IF call.temp # head
                                    THEN {Next_(Read(mem, Prev_(call.temp)))} ELSE {})
                       ELSE IF End(call.temp2) = call.block
                            THEN ThreeTouches(call.temp2, call.temp)
                            ELSE {Next_(call.temp2)}
    [] OTHER -> {}

BreakThen ==
  CASE pc = "grow" -> Moved(GrowBy)
    [] pc = "trim" /\ call.temp # NULL /\ End(call.temp) = block_end ->
         Moved(-SizeOf(call.temp))
    [] OTHER -> brk

Faults == Touched \ (First .. LastMapped(BreakThen)) # {}

\* How far the step moves the break, and whether do_brk asserts that it can.
Moves ==
  CASE pc = "grow" -> GrowBy
    [] pc = "last" /\ End(call.block) = block_end -> -SizeOf(call.block)
    [] pc = "trim" /\ call.temp # NULL /\ End(call.temp) = block_end -> -SizeOf(call.temp)
    [] OTHER -> 0

Aborts == Intercepted /\ ~CanMove(Moves)

\* The signal or the failed assertion that ends the program.
Crash ==
  /\ Faults \/ Aborts
  /\ pc' = "crash"
  /\ UNCHANGED <<code, live, call>>

Code ==
  \/ Fit \/ Grow \/ TakeHead \/ TakeOther \/ Unlink \/ Return \/ Fill
  \/ LastBlock \/ Trim \/ Trimmed \/ Merge \/ Above \/ Below

Step == (~Faults /\ ~Aborts /\ Code) \/ Crash

Next == Calls \/ Step

Spec == Init /\ [][Next]_vars

-----------------------------------------------------------------------------
States == {"idle", "fit", "grow", "take", "unlink", "return", "fill", "last",
           "trim", "merge", "above", "below", "crash"}

Ops == {"none", "malloc", "calloc", "realloc", "resize", "free"}
Locals == [op : Ops, ptr : Nat, len : Nat, prev_size : Nat, total : Nat,
           size_diff : Nat, block : Nat, temp : Nat, temp2 : Nat,
           return_flag : BOOLEAN]

\* The type invariant: the words are numbers, the break stays in the heap, and
\* the counters never go below zero (they are unsigned in the code).
TypeOK ==
  /\ mem \in [Words -> Nat]
  /\ head \in Nat /\ block_end \in Nat /\ available_memory \in Nat
  /\ brk \in First .. Limit
  /\ refused \in BOOLEAN
  /\ pc \in States
  /\ live \subseteq [at : Nat \ {0}, len : Nat]
  /\ call \in Locals

\* The accounting: until sbrk fails, available_memory is exactly the words
\* between block_end and the break, whatever the client does and however the
\* free list is damaged (alloc.c:65, 74, 85 and 177-179, 195-197).
Accounting ==
  ~refused => IF block_end = NULL THEN available_memory = 0
              ELSE brk - block_end = available_memory
=============================================================================
