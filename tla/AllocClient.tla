---------------------------- MODULE AllocClient ----------------------------
(***************************************************************************)
(* A program that calls the allocator of Alloc and keeps clear of the      *)
(* calls alloc.c gets wrong: each such kind of call has a name, and the    *)
(* client makes it only if the constant Unsafe holds that name.  What      *)
(* holds with Unsafe = {} is what the allocator promises to a client that  *)
(* avoids them all; a name in Unsafe shows what that one kind does.        *)
(***************************************************************************)
EXTENDS Alloc, Memlist

CONSTANT Unsafe    \* the kinds of call this client does not avoid

Kinds == {"tight_fit", "last_fit", "stale_prev", "three_way", "unmapped_read",
          "small_block", "resize_in_place", "resize_by_moving", "resize_at_end",
          "calloc_overflow", "heap_exhausted"}

ASSUME UnsafeAssumption == Unsafe \subseteq Kinds

Avoids(kind) == kind \notin Unsafe

(***************************************************************************)
(* The free list: the blocks reached from head, at most as many as fit.  A *)
(* list that is longer has a cycle.                                        *)
(***************************************************************************)
MostBlocks == HeapWords \div 3

Walk[i \in 1 .. MostBlocks + 1] ==
  IF i = 1 THEN head
  ELSE LET before == Walk[i - 1] IN IF before = NULL THEN NULL ELSE NextOf(before)

List == LET ends == {i \in 1 .. MostBlocks + 1 : Walk[i] = NULL}
        IN [i \in 1 .. (IF ends = {} THEN MostBlocks ELSE Min(ends) - 1) |-> Walk[i]]
Listed == ToSet(List)
Acyclic == Walk[MostBlocks + 1] = NULL

\* The listed block a request of this total size takes, if any.
Fits(total) == SelectInSeq(List, LAMBDA a : SizeOf(a) >= total)

-----------------------------------------------------------------------------
(***************************************************************************)
(* The calls this client allows itself                                     *)
(***************************************************************************)
\* Taking a listed block: enough must be left over for a free block, and the
\* block must be the head of a list of one, or be neither first nor last.
MayTake(i, total) ==
  LET next == NextOf(List[i])
  IN /\ Avoids("tight_fit") => SizeOf(List[i]) - total >= 3
     /\ Avoids("last_fit") => i = 1 \/ next # NULL
     /\ Avoids("stale_prev") => i > 1 \/ next = NULL

\* Growing the heap: sbrk must be able to.
MayGrow(total) ==
  Avoids("heap_exhausted") =>
    \/ available_memory >= total
    \/ CanMove(Capacity(total))

MayRequest(n) ==
  LET total == n + Header
      i == Fits(total)
  IN IF i = 0 THEN MayGrow(total) ELSE MayTake(i, total)

MayMalloc(n) ==
  /\ Avoids("small_block") => n > 1
  /\ MayRequest(n)

MayCalloc(k, n) ==
  LET product == (k * n) % Width
  IN /\ Avoids("calloc_overflow") => k * n < Width
     /\ product # 0 => MayMalloc(product)

MayRealloc(b, n) ==
  IF SizeOf(b.at - Header) >= n
  THEN Avoids("resize_in_place") => n <= SizeOf(b.at - Header) - Header
  ELSE /\ ~Avoids("resize_by_moving")
       /\ Avoids("resize_at_end") =>
            End(b.at - Header) <= LastMapped(brk)
       /\ MayRequest(n + Header)

\* Freeing the last block: the listed block that ends where it starts is given
\* back too, and read after.
MayFreeLast(h) ==
  \A f \in Listed : End(f) = h =>
    /\ Avoids("stale_prev") => f = head \/ NextOf(f) = NULL
    /\ Avoids("unmapped_read") =>
         Prev_(f) <= LastMapped(f + available_memory)

\* Freeing between two free blocks: they must be the whole list in address
\* order, or its first two in reverse order.
MayFreeInner(h) ==
  LET lower == {f \in Listed : End(f) = h}
      upper == {f \in Listed : f = End(h)}
  IN IF lower # {} /\ upper # {}
     THEN Avoids("three_way") =>
            \E l \in lower, u \in upper :
               List = <<l, u>> \/ (head = u /\ NextOf(u) = l)
     ELSE Avoids("stale_prev") => \A u \in upper : NextOf(u) = NULL

MayFree(b) ==
  LET h == b.at - Header
  IN IF End(h) = block_end THEN MayFreeLast(h) ELSE MayFreeInner(h)

ClientCalls ==
  \/ \E n \in Sizes : MayMalloc(n) /\ CallMalloc(n)
  \/ \E k \in Counts, n \in Sizes : MayCalloc(k, n) /\ CallCalloc(k, n)
  \/ \E b \in live, n \in Resizes : MayRealloc(b, n) /\ CallRealloc(b, n)
  \/ \E b \in live : MayFree(b) /\ CallFree(b)

ClientNext == ClientCalls \/ Step

ClientSpec == Init /\ [][ClientNext]_vars

\* The allocator is code that runs until it returns.
ClientFairSpec == ClientSpec /\ WF_vars(Step)

-----------------------------------------------------------------------------
(***************************************************************************)
(* What the test framework checks of each call: its list allocs is sorted, *)
(* and a region is added, found and taken out as the calls go.             *)
(***************************************************************************)
RegionOf(b) == Region(b.at, b.len)
Allocs(S) == InOrder({RegionOf(b) : b \in S})

\* _checked_alloc and checked_realloc, before b is filled.
AllocPasses(b) ==
  /\ CanAdd(Allocs(live \ {b}), RegionOf(b))
  /\ call.op \in {"malloc", "calloc"} => b.at + b.len <= brk
  /\ call.op = "calloc" => \A w \in Payload(b) : Read(mem, w) = 0

\* _checked_free, and checked_realloc before the call.
FreePasses(b) ==
  LET i == Find(Allocs(live), b.at)
  IN i # 0 /\ Allocs(live)[i] = RegionOf(b)

\* do_brk, for a break that goes down to addr.
BrkPasses(addr) == ~FindOverlap(Allocs(live), Region(addr, brk - addr))

-----------------------------------------------------------------------------
(***************************************************************************)
(* What the allocator promises such a client                               *)
(***************************************************************************)
Blocks == {b.at - Header : b \in live} \cup Listed
Extent(h) == h .. End(h) - 1

\* No call dereferences a word that is not mapped, be it NULL, a pointer that
\* was overwritten or memory already given back to sbrk, and none moves the
\* break to where do_brk lets the program end (intercept.c:36-39).
NoCrash == pc # "crash"

\* Between calls every word below block_end belongs to exactly one block, in
\* use or listed: nothing is lost, nothing is handed out twice, and no header
\* has been overwritten (alloc.c:98-131, 253-345).
Tiled ==
  pc = "idle" /\ block_end # NULL =>
    /\ \A w \in First .. block_end - 1 : \E h \in Blocks : w \in Extent(h)
    /\ \A h \in Blocks : SizeOf(h) > 0 /\ End(h) <= block_end
    /\ \A h, k \in Blocks : h # k => Extent(h) \cap Extent(k) = {}

\* The pattern of a block in use is intact (memlist.c:239): nothing but its
\* owner writes to it.
Intact ==
  pc \notin {"crash", "fill"} =>
    \A b \in live : b.at # call.ptr =>
      \A w \in Payload(b) : mem[w] = Data(b.at)

\* Between calls no two listed blocks adjoin, and none is the last block:
\* whatever could be merged or given back has been (alloc.c:184-205, 237-346).
Coalesced ==
  pc = "idle" =>
    \A f \in Listed : End(f) # block_end /\ \A g \in Listed : End(f) # g

\* The list is doubly linked: every listed block but the first points back at
\* the one that points at it, which lines 201, 262, 309 and 341 rely on.
Linked ==
  pc = "idle" =>
    Acyclic /\ \A i \in 2 .. Len(List) : Read(mem, Prev_(List[i])) = List[i - 1]

\* When everything has been freed, in whatever order, every block has been
\* given back and the heap is as empty as at the start.
Drained ==
  pc = "idle" /\ live = {} => head = NULL /\ block_end \in {NULL, First}

\* What a call hands out lies inside its block (alloc.c:142, 152-155, 368-370).
Roomy ==
  pc = "fill" => \A b \in Given : b.at + b.len <= End(call.block)

\* The checks of the test framework pass and can be trusted: kucalloc's words
\* are zero, no region overlaps another, adding one keeps the list sorted, so
\* that the search for the region to free, which stops early, finds it, and the
\* break is not lowered below an allocation, which memlist_find_overlap misses
\* unless it is the first in the list (checked_alloc.c:96-115 and 172-176,
\* memlist.c:83 and 160-181, intercept.c:54).
ChecksPass ==
  [][/\ pc' = "fill" =>
          \A b \in Given' :
            /\ AllocPasses(b)'
            /\ AddRegion(Allocs(live' \ {b}), RegionOf(b)) = Allocs(live')
     /\ \A b \in live : b \notin live' => FreePasses(b)
     /\ brk' < brk =>
          /\ BrkPasses(brk')
          /\ \A b \in live : ~RegionsOverlap(RegionOf(b), Region(brk', brk - brk'))]_vars

\* The allocator implements Heap: allocations are disjoint, keep their contents
\* while they are held, and keep them when resized (memlist.c:171 and 239,
\* checked_alloc.c:230).
H == INSTANCE Heap WITH content <- [w \in UNION {Payload(b) : b \in live} |-> Read(mem, w)]
ImplementsHeap == H!Spec

\* Every call returns.
Returns == (pc # "idle") ~> (pc = "idle")
=============================================================================
