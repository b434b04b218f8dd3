---------------------------- MODULE AllocProofs ----------------------------
(***************************************************************************)
(* Theorems about Alloc.  First the types and the accounting, for every    *)
(* frame, page, heap and request size, and for every client: also for one  *)
(* whose calls damage the free list.  Then what each step of a call does   *)
(* to blocks and list when they are in order as it begins: Stage says what *)
(* that means at each place a call can stand, and one lemma for each step  *)
(* shows that the next stage follows.  AllocClientProofs shows that the    *)
(* calls of a careful client begin so, and what follows from it.           *)
(***************************************************************************)
EXTENDS Alloc, TLAPS

\* A block is asked for with its header, and one that is taken from the list
\* is large enough.
Requested ==
  /\ pc \in {"fit", "grow", "take"} => call.total > 0
  /\ pc = "take" => SizeOf(call.block) >= call.total

IInv == TypeOK /\ Requested /\ Accounting

-----------------------------------------------------------------------------
(***************************************************************************)
(* The constants and the operators on memory                               *)
(***************************************************************************)
LEMMA ConstantTypes ==
  /\ First \in Nat /\ First > 0
  /\ Limit \in Nat /\ Limit > First
  /\ Words \subseteq Nat
  /\ Poison \in Nat
BY PageAssumption, HeapAssumption, SMT DEF First, Limit, Words, Poison

LEMMA ReadType ==
  ASSUME NEW m \in [Words -> Nat], NEW a
  PROVE  Read(m, a) \in Nat
BY SMT DEF Read, NULL

LEMMA WriteType ==
  ASSUME NEW m \in [Words -> Nat], NEW a, NEW v \in Nat
  PROVE  Write(m, a, v) \in [Words -> Nat]
BY SMT DEF Write

LEMMA OverwriteType ==
  ASSUME NEW m \in [Words -> Nat], NEW S, NEW v \in Nat
  PROVE  Overwrite(m, S, v) \in [Words -> Nat]
BY SMT DEF Overwrite

LEMMA UnmapType ==
  ASSUME NEW m \in [Words -> Nat], NEW b
  PROVE  Unmap(m, b) \in [Words -> Nat]
BY OverwriteType, SMT DEF Unmap

\* A request fits into the frames that are asked for.
LEMMA CapacityCovers ==
  ASSUME NEW total \in Nat
  PROVE  Capacity(total) \in Nat /\ Capacity(total) >= total
<1>1. Frame \in Nat /\ Frame > 1
  BY FrameAssumption
<1>2. CASE total > Frame
  <2> DEFINE q == total \div Frame
             r == total % Frame
  <2>1. q \in Nat /\ r \in Nat /\ r < Frame /\ total = Frame * q + r
    BY <1>1, SMT
  <2>2. (q + 1) * Frame = Frame * q + Frame
    <3> HIDE DEF q, r
    <3> QED BY <1>1, <2>1, SMT
  <2>3. Frame * q \in Nat
    <3> HIDE DEF q, r
    <3> QED BY <1>1, <2>1, SMT
  <2>4. Capacity(total) = (q + 1) * Frame
    BY <1>2 DEF Capacity
  <2> HIDE DEF q, r
  <2> QED BY <1>1, <2>1, <2>2, <2>3, <2>4, SMT
<1>3. CASE ~(total > Frame)
  BY <1>1, <1>3, SMT DEF Capacity
<1> QED BY <1>2, <1>3

\* sbrk keeps the break in the heap, and moves it if it does not fail.
LEMMA SbrkBreak ==
  ASSUME brk \in First .. Limit, refused \in BOOLEAN, NEW d \in Int, Sbrk(d)
  PROVE  /\ brk' \in First .. Limit
         /\ refused' \in BOOLEAN
         /\ ~refused' => ~refused /\ brk' = brk + d
<1>1. brk' \in First .. Limit
  BY SMT DEF Sbrk, Moved, CanMove
<1>2. refused' \in BOOLEAN
  BY DEF Sbrk
<1>3. ~refused' => ~refused /\ brk' = brk + d
  BY DEF Sbrk, Moved
<1> QED BY <1>1, <1>2, <1>3

\* A local that is given a value of its type leaves the others to theirs.
LEMMA LocalSet ==
  ASSUME NEW c \in Locals
  PROVE  /\ \A v \in Ops : [c EXCEPT !.op = v] \in Locals
         /\ \A v \in Nat : [c EXCEPT !.ptr = v] \in Locals
         /\ \A v \in Nat : [c EXCEPT !.len = v] \in Locals
         /\ \A v \in Nat : [c EXCEPT !.prev_size = v] \in Locals
         /\ \A v \in Nat : [c EXCEPT !.total = v] \in Locals
         /\ \A v \in Nat : [c EXCEPT !.size_diff = v] \in Locals
         /\ \A v \in Nat : [c EXCEPT !.block = v] \in Locals
         /\ \A v \in Nat : [c EXCEPT !.temp = v] \in Locals
         /\ \A v \in Nat : [c EXCEPT !.temp2 = v] \in Locals
         /\ \A v \in BOOLEAN : [c EXCEPT !.return_flag = v] \in Locals
BY SMT DEF Locals

LEMMA EnteredType ==
  ASSUME NEW c \in Locals, NEW op \in Ops, NEW ptr \in Nat, NEW len \in Nat,
         NEW total \in Nat, NEW temp \in Nat, NEW prev_size \in Nat
  PROVE  [c EXCEPT !.op = op, !.ptr = ptr, !.len = len, !.total = total,
                   !.temp = temp, !.prev_size = prev_size] \in Locals
<1> DEFINE c1 == [c EXCEPT !.op = op]
           c2 == [c1 EXCEPT !.ptr = ptr]
           c3 == [c2 EXCEPT !.len = len]
           c4 == [c3 EXCEPT !.total = total]
           c5 == [c4 EXCEPT !.temp = temp]
           c6 == [c5 EXCEPT !.prev_size = prev_size]
<1>1. c1 \in Locals
  BY LocalSet
<1>2. c2 \in Locals
  BY <1>1, LocalSet
<1>3. c3 \in Locals
  BY <1>2, LocalSet
<1>4. c4 \in Locals
  BY <1>3, LocalSet
<1>5. c5 \in Locals
  BY <1>4, LocalSet
<1>6. c6 \in Locals
  BY <1>5, LocalSet
<1>7. [c EXCEPT !.op = op, !.ptr = ptr, !.len = len, !.total = total,
                !.temp = temp, !.prev_size = prev_size] = c6
  BY DEF Locals
<1> QED BY <1>6, <1>7

LEMMA ResizedType ==
  ASSUME NEW c \in Locals, NEW op \in Ops, NEW ptr \in Nat, NEW len \in Nat,
         NEW block \in Nat
  PROVE  [c EXCEPT !.op = op, !.ptr = ptr, !.len = len, !.block = block] \in Locals
<1> DEFINE c1 == [c EXCEPT !.op = op]
           c2 == [c1 EXCEPT !.ptr = ptr]
           c3 == [c2 EXCEPT !.len = len]
           c4 == [c3 EXCEPT !.block = block]
<1>1. c1 \in Locals
  BY LocalSet
<1>2. c2 \in Locals
  BY <1>1, LocalSet
<1>3. c3 \in Locals
  BY <1>2, LocalSet
<1>4. c4 \in Locals
  BY <1>3, LocalSet
<1>5. [c EXCEPT !.op = op, !.ptr = ptr, !.len = len, !.block = block] = c4
  BY DEF Locals
<1> QED BY <1>4, <1>5

LEMMA PairType ==
  ASSUME NEW c \in Locals, NEW v \in Nat
  PROVE  /\ \A op \in Ops : [c EXCEPT !.op = op, !.block = v] \in Locals
         /\ \A d \in Nat : [c EXCEPT !.temp = v, !.size_diff = d] \in Locals
         /\ \A f \in BOOLEAN : [c EXCEPT !.return_flag = f, !.temp = v] \in Locals
<1>1. ASSUME NEW op \in Ops PROVE [c EXCEPT !.op = op, !.block = v] \in Locals
  <2>1. [c EXCEPT !.op = op, !.block = v] = [[c EXCEPT !.op = op] EXCEPT !.block = v]
    BY DEF Locals
  <2>2. [c EXCEPT !.op = op] \in Locals
    BY LocalSet
  <2> QED BY <2>1, <2>2, LocalSet
<1>2. ASSUME NEW d \in Nat PROVE [c EXCEPT !.temp = v, !.size_diff = d] \in Locals
  <2>1. [c EXCEPT !.temp = v, !.size_diff = d]
          = [[c EXCEPT !.temp = v] EXCEPT !.size_diff = d]
    BY DEF Locals
  <2>2. [c EXCEPT !.temp = v] \in Locals
    BY LocalSet
  <2> QED BY <2>1, <2>2, LocalSet
<1>3. ASSUME NEW f \in BOOLEAN
      PROVE  [c EXCEPT !.return_flag = f, !.temp = v] \in Locals
  <2>1. [c EXCEPT !.return_flag = f, !.temp = v]
          = [[c EXCEPT !.return_flag = f] EXCEPT !.temp = v]
    BY DEF Locals
  <2>2. [c EXCEPT !.return_flag = f] \in Locals
    BY LocalSet
  <2> QED BY <2>1, <2>2, LocalSet
<1> QED BY <1>1, <1>2, <1>3

\* The parts of an action that only moves in the call: its locals are of their
\* types because what they are given is.
LEMMA LocalTypes ==
  ASSUME TypeOK
  PROVE  /\ mem \in [Words -> Nat]
         /\ call \in Locals
         /\ \A a : SizeOf(a) \in Nat /\ NextOf(a) \in Nat
<1>1. mem \in [Words -> Nat] /\ call \in Locals
  BY DEF TypeOK
<1>2. \A a : SizeOf(a) \in Nat /\ NextOf(a) \in Nat
  BY <1>1, ReadType DEF SizeOf, NextOf
<1> QED BY <1>1, <1>2

-----------------------------------------------------------------------------
(***************************************************************************)
(* The invariant                                                           *)
(***************************************************************************)
LEMMA NoCallType == NoCall \in Locals /\ NoCall.total = 0
BY SMT DEF NoCall, Locals, Ops, NULL

LEMMA InitIInv == Init => IInv
<1> SUFFICES ASSUME Init PROVE IInv
  OBVIOUS
<1> USE DEF Init
<1>1. TypeOK
  <2>1. mem \in [Words -> Nat]
    BY SMT
  <2>2. brk \in First .. Limit
    BY ConstantTypes, SMT
  <2>3. call \in Locals
    BY NoCallType
  <2>4. pc \in States
    BY DEF States
  <2>5. head \in Nat /\ block_end \in Nat /\ available_memory \in Nat
    BY SMT DEF NULL
  <2>6. live \subseteq [at : Nat \ {0}, len : Nat] /\ refused \in BOOLEAN
    OBVIOUS
  <2> QED BY <2>1, <2>2, <2>3, <2>4, <2>5, <2>6 DEF TypeOK
<1>2. Requested
  BY SMT DEF Requested
<1>3. Accounting
  BY SMT DEF Accounting
<1> QED BY <1>1, <1>2, <1>3 DEF IInv

LEMMA EnterIInv ==
  ASSUME IInv, NEW op \in Ops, NEW b \in [at : Nat, len : Nat], NEW len \in Nat,
         NEW n \in Nat, Enter(op, b, len, n)
  PROVE  IInv'
<1> USE DEF IInv
<1>0. TypeOK /\ Accounting
  OBVIOUS
<1>1. UNCHANGED <<mem, head, block_end, available_memory, brk, refused, live>>
  BY DEF Enter, code
<1>2. call' \in Locals
  <2>1. CASE n = 0
    BY <2>1, NoCallType DEF Enter
  <2>2. CASE n # 0
    <3>1. SizeOf(b.at - Header) \in Nat
      BY <1>0, LocalTypes
    <3>2. head \in Nat
      BY <1>0 DEF TypeOK
    <3>3. n + Header \in Nat /\ b.at \in Nat
      BY SMT DEF Header
    <3>4. call' = [NoCall EXCEPT !.op = op, !.ptr = b.at, !.len = len,
                                 !.total = n + Header, !.temp = head,
                                 !.prev_size = SizeOf(b.at - Header)]
      BY <2>2 DEF Enter
    <3> QED BY <3>1, <3>2, <3>3, <3>4, NoCallType, EnteredType
  <2> QED BY <2>1, <2>2
<1>3. pc' \in {"idle", "fit"} /\ (pc' = "fit" => call'.total > 0)
  <2>1. CASE n = 0
    BY <2>1, SMT DEF Enter
  <2>2. CASE n # 0
    BY <2>2, SMT DEF Enter, NoCall, Header
  <2> QED BY <2>1, <2>2
<1>4. TypeOK'
  BY <1>0, <1>1, <1>2, <1>3, SMT DEF TypeOK, States
<1>5. Requested'
  BY <1>3, SMT DEF Requested
<1>6. Accounting'
  BY <1>0, <1>1 DEF Accounting
<1> QED BY <1>4, <1>5, <1>6

\* The client's calls.
LEMMA CallsIInv == IInv /\ Calls => IInv'
<1> SUFFICES ASSUME IInv, Calls PROVE IInv'
  OBVIOUS
<1> USE DEF IInv
<1>0. TypeOK /\ Accounting
  OBVIOUS
<1>n. /\ Nothing \in [at : Nat, len : Nat]
      /\ live \subseteq [at : Nat \ {0}, len : Nat]
      /\ live \subseteq [at : Nat, len : Nat]
  <2>1. live \subseteq [at : Nat \ {0}, len : Nat]
    BY <1>0 DEF TypeOK
  <2>2. [at : Nat \ {0}, len : Nat] \subseteq [at : Nat, len : Nat]
    BY SMT
  <2>3. Nothing \in [at : Nat, len : Nat]
    BY SMT DEF Nothing, NULL
  <2> QED BY <2>1, <2>2, <2>3
<1>1. ASSUME NEW n \in Sizes, CallMalloc(n) PROVE IInv'
  <2>1. n \in Nat
    BY SizesAssumption
  <2>2. Enter("malloc", Nothing, n, n)
    BY <1>1 DEF CallMalloc
  <2> QED BY <2>1, <2>2, <1>n, EnterIInv DEF Ops
<1>2. ASSUME NEW k \in Counts, NEW n \in Sizes, CallCalloc(k, n) PROVE IInv'
  <2>1. k \in Nat /\ n \in Nat /\ Width \in Nat \ {0}
    BY SizesAssumption, WidthAssumption
  <2>2. k * n \in Nat
    BY <2>1, SMT
  <2>3. (k * n) % Width \in Nat
    <3> DEFINE p == k * n
    <3>1. p \in Nat
      BY <2>2
    <3> HIDE DEF p
    <3>2. p % Width \in Nat
      BY <2>1, <3>1, SMT
    <3> QED BY <3>2 DEF p
  <2>4. Enter("calloc", Nothing, k * n, (k * n) % Width)
    BY <1>2 DEF CallCalloc
  <2> QED BY <2>2, <2>3, <2>4, <1>n, EnterIInv DEF Ops
<1>3. ASSUME NEW b \in live, NEW n \in Resizes, CallRealloc(b, n) PROVE IInv'
  <2>1. n \in Nat /\ n + Header \in Nat
    BY SizesAssumption, SMT DEF Header
  <2>2. b \in [at : Nat \ {0}, len : Nat] /\ b \in [at : Nat, len : Nat]
    BY <1>n
  <2>3. CASE SizeOf(b.at - Header) >= n
    <3>1. /\ live' = (live \ {b}) \cup {[at |-> b.at, len |-> n]}
          /\ call' = [NoCall EXCEPT !.op = "resize", !.ptr = b.at,
                                    !.len = b.len, !.block = b.at - Header]
          /\ pc' = "fill"
          /\ UNCHANGED <<mem, head, block_end, available_memory, brk, refused>>
      BY <1>3, <2>3 DEF CallRealloc, code
    <3>2. call' \in Locals
      <4>1. b.at \in Nat /\ b.len \in Nat /\ b.at - Header \in Nat
        BY <2>2, SMT DEF Header
      <4>2. "resize" \in Ops
        BY DEF Ops
      <4> QED BY <3>1, <4>1, <4>2, NoCallType, ResizedType
    <3>3. live' \subseteq [at : Nat \ {0}, len : Nat]
      BY <1>n, <2>1, <2>2, <3>1, SMT
    <3>4. TypeOK'
      BY <1>0, <3>1, <3>2, <3>3, SMT DEF TypeOK, States
    <3>5. Requested'
      BY <3>1, SMT DEF Requested
    <3>6. Accounting'
      BY <1>0, <3>1 DEF Accounting
    <3> QED BY <3>4, <3>5, <3>6
  <2>4. CASE ~(SizeOf(b.at - Header) >= n)
    <3>1. Enter("realloc", b, n, n + Header)
      BY <1>3, <2>4 DEF CallRealloc
    <3> QED BY <3>1, <2>1, <2>2, EnterIInv DEF Ops
  <2> QED BY <2>3, <2>4
<1>4. ASSUME NEW b \in live, CallFree(b) PROVE IInv'
  <2>1. /\ live' = live \ {b}
        /\ mem' = Overwrite(mem, Payload(b), Poison)
        /\ call' = [NoCall EXCEPT !.op = "free", !.block = b.at - Header]
        /\ pc' = "last"
        /\ UNCHANGED <<head, block_end, available_memory, brk, refused>>
    BY <1>4 DEF CallFree
  <2>2. b.at \in Nat \ {0}
    BY <1>n
  <2>3. call' \in Locals
    <3>1. b.at - Header \in Nat
      BY <2>2, SMT DEF Header
    <3>2. "free" \in Ops
      BY DEF Ops
    <3> QED BY <2>1, <3>1, <3>2, NoCallType, PairType
  <2>4. mem' \in [Words -> Nat]
    BY <1>0, <2>1, LocalTypes, OverwriteType, ConstantTypes
  <2>5. live' \subseteq [at : Nat \ {0}, len : Nat]
    BY <1>n, <2>1
  <2>6. TypeOK'
    BY <1>0, <2>1, <2>3, <2>4, <2>5, SMT DEF TypeOK, States
  <2>7. Requested'
    BY <2>1, SMT DEF Requested
  <2>8. Accounting'
    BY <1>0, <2>1 DEF Accounting
  <2> QED BY <2>6, <2>7, <2>8
<1> QED BY <1>1, <1>2, <1>3, <1>4 DEF Calls

-----------------------------------------------------------------------------
(***************************************************************************)
(* The steps of the code                                                   *)
(***************************************************************************)
\* Past the search for a block, a step that leaves the break and the end of
\* the heap alone keeps the invariant if what it writes are words.
LEMMA KeptIInv ==
  ASSUME IInv,
         UNCHANGED <<block_end, available_memory, brk, refused>>,
         mem' \in [Words -> Nat], head' \in Nat,
         live' \subseteq [at : Nat \ {0}, len : Nat],
         call' \in Locals, pc' \in States \ {"fit", "grow", "take"}
  PROVE  IInv'
<1>1. TypeOK /\ Accounting
  BY DEF IInv
<1>2. TypeOK'
  BY <1>1 DEF TypeOK
<1>3. Requested'
  BY DEF Requested
<1>4. Accounting'
  BY <1>1 DEF Accounting
<1> QED BY <1>2, <1>3, <1>4 DEF IInv

LEMMA FitIInv == IInv /\ Fit => IInv'
<1> SUFFICES ASSUME IInv, Fit PROVE IInv'
  OBVIOUS
<1>1. TypeOK /\ Requested /\ Accounting
  BY DEF IInv
<1>2. UNCHANGED <<mem, head, block_end, available_memory, brk, refused, live>>
  BY DEF Fit, code
<1>3. call \in Locals /\ call.temp \in Nat /\ call.total > 0
  BY <1>1 DEF TypeOK, Requested, Fit, Locals
<1>4. /\ call' \in Locals /\ call'.total > 0
      /\ pc' \in {"fit", "take", "grow"}
      /\ pc' = "take" => SizeOf(call'.block) >= call'.total
  <2>1. CASE /\ SizeOf(call.temp) >= call.total
             /\ call' = [call EXCEPT !.block = call.temp]
             /\ pc' = "take"
    <3>1. call' \in Locals
      BY <1>3, <2>1, LocalSet
    <3>2. call'.total = call.total /\ call'.block = call.temp
      BY <1>3, <2>1 DEF Locals
    <3> QED BY <1>3, <2>1, <3>1, <3>2
  <2>2. CASE call' = [call EXCEPT !.temp = NextOf(call.temp)] /\ pc' = pc
    <3>1. call' \in Locals
      BY <1>1, <1>3, <2>2, LocalSet, LocalTypes
    <3>2. call'.total = call.total
      BY <1>3, <2>2 DEF Locals
    <3>3. pc = "fit"
      BY DEF Fit
    <3> QED BY <1>3, <2>2, <3>1, <3>2, <3>3
  <2>3. CASE pc' = "grow" /\ call' = call
    BY <1>3, <2>3
  <2> QED BY <2>1, <2>2, <2>3 DEF Fit
<1>5. TypeOK'
  BY <1>1, <1>2, <1>4 DEF TypeOK, States
<1>6. Requested'
  BY <1>2, <1>4 DEF Requested, SizeOf
<1>7. Accounting'
  BY <1>1, <1>2 DEF Accounting
<1> QED BY <1>5, <1>6, <1>7 DEF IInv

\* The words a step dereferences are those of the heap.
LEMMA Dereferenced ==
  ASSUME ~Faults, NEW a \in Touched
  PROVE  a >= First
BY DEF Faults

\* What grows the heap is counted: the frames that are taken and the block
\* that is cut off them.
LEMMA GrowIInv == IInv /\ ~Faults /\ Grow => IInv'
<1> SUFFICES ASSUME IInv, ~Faults, Grow PROVE IInv'
  OBVIOUS
<1> DEFINE total == call.total
           base == IF block_end # NULL THEN block_end ELSE GrowAt
<1>1. TypeOK /\ Requested /\ Accounting
  BY DEF IInv
<1>2. /\ block_end \in Nat /\ available_memory \in Nat /\ head \in Nat
      /\ brk \in First .. Limit /\ refused \in BOOLEAN
      /\ mem \in [Words -> Nat] /\ call \in Locals
      /\ live \subseteq [at : Nat \ {0}, len : Nat]
  BY <1>1 DEF TypeOK
<1>3. total \in Nat /\ total > 0
  BY <1>1, <1>2 DEF Requested, Grow, Locals
<1>4. /\ Sbrk(GrowBy)
      /\ block_end' = base + total
      /\ available_memory' = available_memory + GrowBy - total
      /\ mem' = Write(mem, GrowAt, total)
      /\ call' = [call EXCEPT !.block = GrowAt]
      /\ pc' = "return"
      /\ UNCHANGED <<head, live>>
  BY DEF Grow
<1>5. Capacity(total) \in Nat /\ Capacity(total) >= total
  BY <1>3, CapacityCovers
<1>6. GrowAt \in Nat /\ GrowAt > 0
  <2>1. GrowAt \in Touched
    BY DEF Touched, Grow
  <2>2. GrowAt >= First
    BY <2>1, Dereferenced
  <2>3. GrowAt \in Int
    BY <1>2, ConstantTypes, SMT DEF GrowAt, Failed
  <2> QED BY <2>2, <2>3, ConstantTypes, SMT
<1>7. GrowBy \in Nat /\ available_memory + GrowBy - total \in Nat
  BY <1>2, <1>3, <1>5, SMT DEF GrowBy
<1>8. /\ brk' \in First .. Limit /\ refused' \in BOOLEAN
      /\ ~refused' => ~refused /\ brk' = brk + GrowBy
  <2>1. GrowBy \in Int
    BY <1>7
  <2> QED BY <1>2, <1>4, <2>1, SbrkBreak
<1>9. base \in Nat /\ base + total \in Nat /\ base + total > 0
  BY <1>2, <1>3, <1>6, SMT
<1>10. TypeOK'
  <2>1. mem' \in [Words -> Nat]
    BY <1>2, <1>3, <1>4, WriteType
  <2>2. call' \in Locals
    BY <1>2, <1>4, <1>6, LocalSet
  <2>3. pc' \in States /\ head' \in Nat /\ live' \subseteq [at : Nat \ {0}, len : Nat]
    BY <1>2, <1>4 DEF States
  <2>4. block_end' \in Nat /\ available_memory' \in Nat
    BY <1>4, <1>7, <1>9
  <2> QED BY <1>8, <2>1, <2>2, <2>3, <2>4 DEF TypeOK
<1>11. Requested'
  BY <1>4 DEF Requested
<1>12. Accounting'
  <2> SUFFICES ASSUME ~refused' PROVE brk' - block_end' = available_memory'
    BY <1>4, <1>9 DEF Accounting, NULL
  <2>1. ~refused /\ brk' = brk + GrowBy
    BY <1>8
  <2>2. CASE block_end # NULL
    <3>1. brk - block_end = available_memory
      BY <1>1, <2>1, <2>2 DEF Accounting
    <3> HIDE DEF total
    <3> QED BY <1>2, <1>3, <1>4, <1>7, <2>1, <2>2, <3>1, ConstantTypes, SMT
  <2>3. CASE block_end = NULL
    <3>1. available_memory = 0
      BY <1>1, <2>1, <2>3 DEF Accounting
    <3>2. GrowBy = Capacity(total)
      BY <3>1, SMT DEF GrowBy
    <3>3. CanMove(GrowBy)
      BY <1>4 DEF Sbrk
    <3>4. GrowAt = brk
      BY <3>1, <3>2, <3>3, SMT DEF GrowAt
    <3> HIDE DEF total
    <3> QED BY <1>2, <1>3, <1>4, <1>7, <2>1, <2>3, <3>1, <3>4, ConstantTypes, SMT
  <2> QED BY <2>2, <2>3
<1> QED BY <1>10, <1>11, <1>12 DEF IInv

\* What TypeOK says of each variable, for the steps that follow.
LEMMA StateTypes ==
  ASSUME IInv
  PROVE  /\ mem \in [Words -> Nat] /\ head \in Nat
         /\ call \in Locals
         /\ live \subseteq [at : Nat \ {0}, len : Nat]
         /\ \A a : SizeOf(a) \in Nat /\ NextOf(a) \in Nat
         /\ call.ptr \in Nat /\ call.len \in Nat /\ call.prev_size \in Nat
         /\ call.total \in Nat /\ call.block \in Nat /\ call.temp \in Nat
<1>1. TypeOK
  BY DEF IInv
<1>2. call \in Locals
  BY <1>1 DEF TypeOK
<1> QED BY <1>1, <1>2, LocalTypes DEF TypeOK, Locals

\* The remainder is at least nothing, as the block was found to be large enough.
LEMMA Remainder ==
  ASSUME IInv, pc = "take"
  PROVE  /\ SizeOf(call.block) - call.total \in Nat
         /\ Subseq \in Nat
         /\ Split \in [Words -> Nat]
<1>1. SizeOf(call.block) - call.total \in Nat
  <2>1. SizeOf(call.block) >= call.total
    BY DEF IInv, Requested
  <2>2. SizeOf(call.block) \in Nat /\ call.total \in Nat
    BY StateTypes
  <2> QED BY <2>1, <2>2
<1>2. Subseq \in Nat
  BY StateTypes DEF Subseq
<1>3. Split \in [Words -> Nat]
  <2> DEFINE m1 == Write(mem, Next_(Subseq), NULL)
             m2 == Write(m1, Subseq, SizeOf(call.block) - call.total)
  <2>1. NULL \in Nat
    BY DEF NULL
  <2>2. m1 \in [Words -> Nat]
    BY <2>1, StateTypes, WriteType
  <2>3. m2 \in [Words -> Nat]
    <3> HIDE DEF m1
    <3> QED BY <1>1, <2>2, WriteType
  <2>4. Split = Write(m2, call.block, call.total)
    BY DEF Split
  <2> HIDE DEF m2
  <2> QED BY <2>3, <2>4, StateTypes, WriteType
<1> QED BY <1>1, <1>2, <1>3

LEMMA TakeHeadIInv == IInv /\ TakeHead => IInv'
<1> SUFFICES ASSUME IInv, TakeHead PROVE IInv'
  OBVIOUS
<1> DEFINE next == Read(Split, Next_(head))
           m == Write(Split, Next_(Subseq), next)
<1>1. Subseq \in Nat /\ Split \in [Words -> Nat]
  BY Remainder DEF TakeHead
<1>2. next \in Nat
  BY <1>1, ReadType
<1>3. m \in [Words -> Nat]
  <2> HIDE DEF next
  <2> QED BY <1>1, <1>2, WriteType
<1>4. mem' \in [Words -> Nat] /\ head' \in Nat
  <2>1. CASE mem' = Write(m, Prev_(Subseq), Read(m, Prev_(head))) /\ head' = Subseq
    <3> HIDE DEF m
    <3>1. Read(m, Prev_(head)) \in Nat
      BY <1>3, ReadType
    <3> QED BY <1>1, <1>3, <2>1, <3>1, WriteType
  <2>2. CASE /\ mem' = IF next # NULL THEN Write(Split, Prev_(next), NULL) ELSE Split
             /\ head' = next
    <3> HIDE DEF next
    <3>1. Write(Split, Prev_(next), NULL) \in [Words -> Nat]
      <4>1. NULL \in Nat
        BY DEF NULL
      <4> QED BY <1>1, <4>1, WriteType
    <3> QED BY <1>1, <1>2, <2>2, <3>1
  <2> QED BY <2>1, <2>2 DEF TakeHead
<1>5. /\ UNCHANGED <<block_end, available_memory, brk, refused, live, call>>
      /\ pc' \in States \ {"fit", "grow", "take"}
  BY DEF TakeHead, States
<1> QED BY <1>4, <1>5, StateTypes, KeptIInv

LEMMA TakeOtherIInv == IInv /\ TakeOther => IInv'
<1> SUFFICES ASSUME IInv, TakeOther PROVE IInv'
  OBVIOUS
<1>1. Split \in [Words -> Nat] /\ SizeOf(call.block) - call.total \in Nat
  BY Remainder DEF TakeOther
<1>2. call' \in Locals
  BY <1>1, StateTypes, PairType DEF TakeOther
<1>3. /\ UNCHANGED <<head, block_end, available_memory, brk, refused, live>>
      /\ mem' = Split
      /\ pc' \in States \ {"fit", "grow", "take"}
  BY DEF TakeOther, States
<1> QED BY <1>1, <1>2, <1>3, StateTypes, KeptIInv

LEMMA UnlinkIInv == IInv /\ Unlink => IInv'
<1> SUFFICES ASSUME IInv, Unlink PROVE IInv'
  OBVIOUS
<1>1. UnlinkSplit \in [Words -> Nat]
  <2> DEFINE m1 == Write(mem, Next_(Subseq), Read(mem, Next_(call.block)))
             next == Read(m1, Next_(Read(m1, Next_(call.temp))))
             m2 == Write(m1, Prev_(next), Subseq)
             m3 == Write(m2, Next_(call.temp), Subseq)
  <2>1. Subseq \in Nat
    BY StateTypes DEF Subseq
  <2>2. m1 \in [Words -> Nat]
    BY StateTypes, ReadType, WriteType
  <2>3. m2 \in [Words -> Nat]
    <3> HIDE DEF m1
    <3> QED BY <2>1, <2>2, WriteType
  <2>4. m3 \in [Words -> Nat]
    <3> HIDE DEF m2
    <3> QED BY <2>1, <2>3, WriteType
  <2>5. UnlinkSplit = Write(m3, Prev_(Subseq), call.temp)
    BY DEF UnlinkSplit
  <2> HIDE DEF m3
  <2> QED BY <2>4, <2>5, StateTypes, WriteType
<1>2. UnlinkWhole \in [Words -> Nat]
  <2> DEFINE m == Write(mem, Prev_(NextOf(call.block)), call.temp)
  <2>1. m \in [Words -> Nat]
    BY StateTypes, WriteType
  <2>2. UnlinkWhole = Write(m, Next_(call.temp), Read(m, Next_(Read(m, Next_(call.temp)))))
    BY DEF UnlinkWhole
  <2> HIDE DEF m
  <2> QED BY <2>1, <2>2, ReadType, WriteType
<1>3. mem' \in [Words -> Nat]
  BY <1>1, <1>2, StateTypes DEF Unlink
<1>4. call' \in Locals
  BY StateTypes, LocalSet DEF Unlink
<1>5. /\ UNCHANGED <<head, block_end, available_memory, brk, refused, live>>
      /\ pc' \in States \ {"fit", "grow", "take"}
  BY DEF Unlink, States
<1> QED BY <1>3, <1>4, <1>5, StateTypes, KeptIInv

LEMMA ReturnIInv == IInv /\ Return => IInv'
<1> SUFFICES ASSUME IInv, Return PROVE IInv'
  OBVIOUS
<1> DEFINE copy == [a \in Words |-> IF a \in Copied
                                    THEN Read(mem, a - call.block - 1 + call.ptr)
                                    ELSE mem[a]]
<1>1. Overwrite(mem, Cleared, 0) \in [Words -> Nat]
  BY StateTypes, OverwriteType
<1>2. copy \in [Words -> Nat]
  BY StateTypes, ReadType
<1>3. mem' \in [Words -> Nat]
  <2>1. mem' = CASE call.op = "calloc" -> Overwrite(mem, Cleared, 0)
                 [] call.op = "realloc" -> copy
                 [] OTHER -> mem
    BY DEF Return
  <2> HIDE DEF copy
  <2> QED BY <1>1, <1>2, <2>1, StateTypes
<1>4. live' \subseteq [at : Nat \ {0}, len : Nat]
  <2>1. call.block + Header \in Nat \ {0} /\ call.len \in Nat
    BY StateTypes DEF Header
  <2>2. live' = {b \in live : b.at # call.ptr}
                  \cup {[at |-> call.block + Header, len |-> call.len]}
    BY DEF Return
  <2> QED BY <2>1, <2>2, StateTypes
<1>5. /\ UNCHANGED <<head, block_end, available_memory, brk, refused, call>>
      /\ pc' \in States \ {"fit", "grow", "take"}
  BY DEF Return, States
<1> QED BY <1>3, <1>4, <1>5, StateTypes, KeptIInv

LEMMA FillIInv == IInv /\ Fill => IInv'
<1> SUFFICES ASSUME IInv, Fill PROVE IInv'
  OBVIOUS
<1>1. Data(call.block + Header) \in Nat
  BY StateTypes, ConstantTypes DEF Data, Header
<1>2. mem' \in [Words -> Nat]
  BY <1>1, StateTypes DEF Fill
<1>3. /\ UNCHANGED <<head, block_end, available_memory, brk, refused, live>>
      /\ call' \in Locals
      /\ pc' \in States \ {"fit", "grow", "take"}
  BY NoCallType DEF Fill, States
<1> QED BY <1>2, <1>3, StateTypes, KeptIInv

\* The end of the heap and the break come down together when the block that is
\* given back ends where the heap does.
LEMMA GivenBack ==
  ASSUME IInv, NEW block \in Nat, block > 0, End(block) = block_end,
         Sbrk(-SizeOf(block)), block_end' = block,
         available_memory' = available_memory
  PROVE  /\ brk' \in First .. Limit /\ refused' \in BOOLEAN
         /\ block_end' \in Nat
         /\ Accounting'
<1>1. TypeOK /\ Accounting
  BY DEF IInv
<1>2. /\ brk \in First .. Limit /\ refused \in BOOLEAN
      /\ block_end \in Nat /\ available_memory \in Nat
  BY <1>1 DEF TypeOK
<1>3. SizeOf(block) \in Nat
  BY StateTypes
<1>4. block_end = block + SizeOf(block)
  BY DEF End
<1>5. /\ brk' \in First .. Limit /\ refused' \in BOOLEAN
      /\ ~refused' => ~refused /\ brk' = brk + (-SizeOf(block))
  <2> DEFINE d == -SizeOf(block)
  <2>1. d \in Int /\ Sbrk(d)
    BY <1>3
  <2> HIDE DEF d
  <2>2. /\ brk' \in First .. Limit /\ refused' \in BOOLEAN
        /\ ~refused' => ~refused /\ brk' = brk + d
    BY <1>2, <2>1, SbrkBreak
  <2> QED BY <2>2 DEF d
<1>6. Accounting'
  <2> SUFFICES ASSUME ~refused' PROVE brk' - block_end' = available_memory'
    BY DEF Accounting, NULL
  <2>1. block_end # NULL
    BY <1>2, <1>3, <1>4 DEF NULL
  <2>2. brk - block_end = available_memory
    BY <1>1, <1>5, <2>1 DEF Accounting
  <2> QED BY <1>2, <1>3, <1>4, <1>5, <2>2, ConstantTypes
<1> QED BY <1>5, <1>6

LEMMA LastBlockIInv == IInv /\ ~Faults /\ LastBlock => IInv'
<1> SUFFICES ASSUME IInv, ~Faults, LastBlock PROVE IInv'
  OBVIOUS
<1> DEFINE last == End(call.block) = block_end
           size == IF last THEN SizeOf(call.block) ELSE 0
<1>1. TypeOK /\ Accounting
  BY DEF IInv
<1>2. /\ Sbrk(-size)
      /\ mem' = Unmap(mem, Moved(-size))
      /\ block_end' = IF last THEN call.block ELSE block_end
      /\ call' = [call EXCEPT !.return_flag = last, !.temp = head]
      /\ pc' = "trim"
      /\ UNCHANGED <<head, available_memory, live>>
  BY DEF LastBlock
<1>3. call.block \in Nat /\ call.block > 0
  <2>1. call.block \in Touched
    BY DEF Touched, LastBlock
  <2>2. call.block >= First
    BY <2>1, Dereferenced
  <2> QED BY <2>2, StateTypes, ConstantTypes
<1>4. mem' \in [Words -> Nat]
  BY <1>2, StateTypes, UnmapType
<1>5. call' \in Locals
  <2>1. last \in BOOLEAN
    OBVIOUS
  <2> HIDE DEF last
  <2> QED BY <1>2, <2>1, StateTypes, PairType
<1>6. /\ brk' \in First .. Limit /\ refused' \in BOOLEAN
      /\ block_end' \in Nat /\ Accounting'
  <2>1. CASE last
    BY <1>2, <1>3, <2>1, GivenBack
  <2>2. CASE ~last
    <3>1. Sbrk(0) /\ block_end' = block_end
      BY <1>2, <2>2
    <3>2. /\ brk \in First .. Limit /\ refused \in BOOLEAN
          /\ block_end \in Nat
      BY <1>1 DEF TypeOK
    <3>3. /\ brk' \in First .. Limit /\ refused' \in BOOLEAN
          /\ ~refused' => ~refused /\ brk' = brk + 0
      BY <3>1, <3>2, SbrkBreak
    <3>4. ~refused' => brk' = brk
      BY <3>2, <3>3, ConstantTypes
    <3> QED BY <1>1, <1>2, <3>1, <3>2, <3>3, <3>4 DEF Accounting
  <2> QED BY <2>1, <2>2
<1>7. TypeOK'
  BY <1>1, <1>2, <1>4, <1>5, <1>6 DEF TypeOK, States
<1>8. Requested'
  BY <1>2 DEF Requested
<1> QED BY <1>6, <1>7, <1>8 DEF IInv

LEMMA TrimIInv == IInv /\ ~Faults /\ Trim => IInv'
<1> SUFFICES ASSUME IInv, ~Faults, Trim PROVE IInv'
  OBVIOUS
<1> DEFINE temp == call.temp
           m == Unmap(mem, Moved(-SizeOf(temp)))
<1>1. TypeOK /\ Accounting
  BY DEF IInv
<1>2. temp \in Nat /\ temp > 0
  BY StateTypes DEF Trim, NULL
<1>3. UNCHANGED <<available_memory, live, pc>> /\ pc = "trim"
  BY DEF Trim
<1>4. CASE /\ End(temp) = block_end
           /\ block_end' = temp
           /\ Sbrk(-SizeOf(temp))
           /\ head' = IF temp = head THEN Read(m, Next_(temp)) ELSE head
           /\ mem' = IF temp = head THEN m
                     ELSE Write(m, Next_(Read(m, Prev_(temp))),
                                Read(m, Next_(temp)))
           /\ call' = [call EXCEPT !.temp = Read(mem', Next_(temp))]
  <2>1. m \in [Words -> Nat]
    BY StateTypes, UnmapType
  <2>2. mem' \in [Words -> Nat] /\ head' \in Nat
    <3> HIDE DEF m
    <3>1. Read(m, Next_(temp)) \in Nat
      BY <2>1, ReadType
    <3>2. Write(m, Next_(Read(m, Prev_(temp))), Read(m, Next_(temp))) \in [Words -> Nat]
      BY <2>1, <3>1, WriteType
    <3> QED BY <1>4, <2>1, <3>1, <3>2, StateTypes
  <2>3. call' \in Locals
    BY <1>4, <2>2, ReadType, StateTypes, LocalSet
  <2>4. /\ brk' \in First .. Limit /\ refused' \in BOOLEAN
        /\ block_end' \in Nat /\ Accounting'
    BY <1>2, <1>3, <1>4, GivenBack
  <2>5. TypeOK'
    BY <1>1, <1>3, <2>2, <2>3, <2>4 DEF TypeOK
  <2>6. Requested'
    BY <1>3 DEF Requested
  <2> QED BY <2>4, <2>5, <2>6 DEF IInv
<1>5. CASE /\ call' = [call EXCEPT !.temp = NextOf(temp)]
           /\ UNCHANGED <<block_end, brk, refused, head, mem>>
  <2>1. call' \in Locals
    BY <1>5, StateTypes, LocalSet
  <2> QED BY <1>3, <1>5, <2>1, StateTypes, KeptIInv DEF States
<1> QED BY <1>4, <1>5 DEF Trim

\* Every way kufree ends.
LEMMA FreeIInv ==
  ASSUME IInv, NEW m \in [Words -> Nat], NEW h \in Nat, Free(m, h)
  PROVE  IInv'
<1>1. /\ mem' = m /\ head' = h
      /\ UNCHANGED <<block_end, available_memory, brk, refused, live>>
      /\ call' \in Locals
      /\ pc' \in States \ {"fit", "grow", "take"}
  BY NoCallType DEF Free, States
<1> QED BY <1>1, StateTypes, KeptIInv

LEMMA TrimmedIInv == IInv /\ Trimmed => IInv'
<1> SUFFICES ASSUME IInv, Trimmed PROVE IInv'
  OBVIOUS
<1>1. mem' \in [Words -> Nat] /\ head' \in Nat
  <2>1. NULL \in Nat
    BY DEF NULL
  <2>2. Write(mem, Next_(call.block), NULL) \in [Words -> Nat]
    BY <2>1, StateTypes, WriteType
  <2> QED BY <2>2, StateTypes DEF Trimmed
<1>2. call' \in Locals
  BY StateTypes, NoCallType, LocalSet DEF Trimmed
<1>3. /\ UNCHANGED <<block_end, available_memory, brk, refused, live>>
      /\ pc' \in States \ {"fit", "grow", "take"}
  BY DEF Trimmed, States
<1> QED BY <1>1, <1>2, <1>3, StateTypes, KeptIInv

LEMMA MergeThreeIInv ==
  ASSUME IInv, NEW lower \in Nat, NEW upper \in Nat, MergeThree(lower, upper)
  PROVE  IInv'
<1> DEFINE next == Read(mem, Next_(upper))
           size == SizeOf(lower) + SizeOf(call.block) + SizeOf(upper)
           m1 == Write(mem, lower, size)
           m2 == IF next # lower THEN Write(m1, Next_(lower), next) ELSE m1
           m3 == IF next # NULL THEN Write(m2, Prev_(next), lower) ELSE m2
           m4 == IF upper # head
                 THEN Write(m3, Next_(Read(m3, Prev_(upper))), lower) ELSE m3
           h == IF upper = head THEN lower ELSE head
           m5 == IF Read(m4, Next_(h)) = h THEN Write(m4, Next_(h), NULL) ELSE m4
<1>1. next \in Nat /\ h \in Nat /\ NULL \in Nat
  BY StateTypes, ReadType DEF NULL
<1>2. m1 \in [Words -> Nat]
  <2>1. size \in Nat
    BY StateTypes
  <2> HIDE DEF size
  <2> QED BY <2>1, StateTypes, WriteType
<1>3. m2 \in [Words -> Nat]
  <2> HIDE DEF m1, next
  <2> QED BY <1>1, <1>2, WriteType
<1>4. m3 \in [Words -> Nat]
  <2> HIDE DEF m2, next
  <2> QED BY <1>3, WriteType
<1>5. m4 \in [Words -> Nat]
  <2> HIDE DEF m3
  <2> QED BY <1>4, WriteType
<1>6. m5 \in [Words -> Nat]
  <2> HIDE DEF m4, h
  <2> QED BY <1>1, <1>5, WriteType
<1>7. Free(m5, h)
  BY DEF MergeThree
<1> HIDE DEF m5, h
<1> QED BY <1>1, <1>6, <1>7, FreeIInv

LEMMA MergeAboveIInv == IInv /\ MergeAbove => IInv'
<1> SUFFICES ASSUME IInv, MergeAbove PROVE IInv'
  OBVIOUS
<1> DEFINE size == SizeOf(call.temp) + SizeOf(call.block)
           m == Write(mem, call.temp, size)
<1>1. m \in [Words -> Nat]
  <2>1. size \in Nat
    BY StateTypes
  <2> HIDE DEF size
  <2> QED BY <2>1, StateTypes, WriteType
<1>2. Free(m, head)
  BY DEF MergeAbove
<1> HIDE DEF m
<1> QED BY <1>1, <1>2, StateTypes, FreeIInv

LEMMA MergeBelowIInv == IInv /\ MergeBelow => IInv'
<1> SUFFICES ASSUME IInv, MergeBelow PROVE IInv'
  OBVIOUS
<1> DEFINE upper == call.temp
           size == SizeOf(call.block) + SizeOf(upper)
           m1 == Write(mem, call.block, size)
           m2 == Write(m1, Next_(call.block), Read(m1, Next_(upper)))
           m3 == Write(m2, Prev_(call.block), Read(m2, Prev_(upper)))
           m4 == Write(m3, Next_(Read(m3, Prev_(upper))), call.block)
<1>1. m1 \in [Words -> Nat]
  <2>1. size \in Nat
    BY StateTypes
  <2> HIDE DEF size
  <2> QED BY <2>1, StateTypes, WriteType
<1>2. m2 \in [Words -> Nat]
  <2> HIDE DEF m1
  <2> QED BY <1>1, ReadType, WriteType
<1>3. m3 \in [Words -> Nat]
  <2> HIDE DEF m2
  <2> QED BY <1>2, ReadType, WriteType
<1>4. m4 \in [Words -> Nat]
  <2> HIDE DEF m3
  <2> QED BY <1>3, StateTypes, WriteType
<1>5. Free(m4, head) \/ Free(m3, call.block)
  BY DEF MergeBelow
<1> HIDE DEF m3, m4
<1> QED BY <1>3, <1>4, <1>5, StateTypes, FreeIInv

LEMMA PushIInv == IInv /\ Push => IInv'
<1> SUFFICES ASSUME IInv, Push PROVE IInv'
  OBVIOUS
<1> DEFINE m1 == Write(mem, Next_(call.block), head)
           m2 == Write(m1, Prev_(head), call.block)
<1>1. m1 \in [Words -> Nat]
  BY StateTypes, WriteType
<1>2. m2 \in [Words -> Nat]
  <2> HIDE DEF m1
  <2> QED BY <1>1, StateTypes, WriteType
<1>3. Free(m2, call.block)
  BY DEF Push
<1> HIDE DEF m2
<1> QED BY <1>2, <1>3, StateTypes, FreeIInv

\* The three searches of kufree only move in the call until they find.
LEMMA SearchIInv ==
  ASSUME IInv, UNCHANGED <<code, live>>, call' \in Locals,
         pc' \in States \ {"fit", "grow", "take"}
  PROVE  IInv'
<1>1. UNCHANGED <<mem, head, block_end, available_memory, brk, refused, live>>
  BY DEF code
<1> QED BY <1>1, StateTypes, KeptIInv

LEMMA MergeIInv == IInv /\ Merge => IInv'
<1> SUFFICES ASSUME IInv, Merge PROVE IInv'
  OBVIOUS
<1>1. CASE Push
  BY <1>1, PushIInv
<1>2. CASE UNCHANGED <<code, live>> /\ pc' \in {"above", "below", "merge"}
            /\ \/ call' = [call EXCEPT !.temp2 = head]
               \/ call' = [call EXCEPT !.temp = NextOf(call.temp)]
  <2>1. call' \in Locals
    BY <1>2, StateTypes, LocalSet
  <2> QED BY <1>2, <2>1, SearchIInv DEF States
<1> QED BY <1>1, <1>2 DEF Merge

LEMMA AboveIInv == IInv /\ Above => IInv'
<1> SUFFICES ASSUME IInv, Above PROVE IInv'
  OBVIOUS
<1>1. call.temp \in Nat /\ call.temp2 \in Nat
  BY StateTypes DEF Locals
<1>2. CASE MergeThree(call.temp, call.temp2)
  BY <1>1, <1>2, MergeThreeIInv
<1>3. CASE MergeAbove
  BY <1>3, MergeAboveIInv
<1>4. CASE /\ call' = [call EXCEPT !.temp2 = NextOf(call.temp2)]
           /\ UNCHANGED <<code, live, pc>> /\ pc = "above"
  <2>1. call' \in Locals
    BY <1>4, StateTypes, LocalSet
  <2> QED BY <1>4, <2>1, SearchIInv DEF States
<1> QED BY <1>2, <1>3, <1>4 DEF Above

LEMMA BelowIInv == IInv /\ Below => IInv'
<1> SUFFICES ASSUME IInv, Below PROVE IInv'
  OBVIOUS
<1>1. call.temp \in Nat /\ call.temp2 \in Nat
  BY StateTypes DEF Locals
<1>2. CASE MergeThree(call.temp2, call.temp)
  BY <1>1, <1>2, MergeThreeIInv
<1>3. CASE MergeBelow
  BY <1>3, MergeBelowIInv
<1>4. CASE /\ call' = [call EXCEPT !.temp2 = NextOf(call.temp2)]
           /\ UNCHANGED <<code, live, pc>> /\ pc = "below"
  <2>1. call' \in Locals
    BY <1>4, StateTypes, LocalSet
  <2> QED BY <1>4, <2>1, SearchIInv DEF States
<1> QED BY <1>2, <1>3, <1>4 DEF Below

LEMMA CrashIInv == IInv /\ Crash => IInv'
<1> SUFFICES ASSUME IInv, Crash PROVE IInv'
  OBVIOUS
<1>1. /\ UNCHANGED <<code, live>> /\ call' \in Locals
      /\ pc' \in States \ {"fit", "grow", "take"}
  BY StateTypes DEF Crash, States
<1> QED BY <1>1, SearchIInv

-----------------------------------------------------------------------------
\* Every step keeps the invariant: a call, a step of the code and a crash.
LEMMA NextIInv == IInv /\ [Next]_vars => IInv'
<1> SUFFICES ASSUME IInv, [Next]_vars PROVE IInv'
  OBVIOUS
<1>1. CASE Calls
  BY <1>1, CallsIInv
<1>2. CASE ~Faults /\ ~Aborts /\ Code
  BY <1>2, FitIInv, GrowIInv, TakeHeadIInv, TakeOtherIInv, UnlinkIInv,
     ReturnIInv, FillIInv, LastBlockIInv, TrimIInv, TrimmedIInv, MergeIInv,
     AboveIInv, BelowIInv DEF Code
<1>3. CASE Crash
  BY <1>3, CrashIInv
<1>4. CASE UNCHANGED vars
  <2>1. UNCHANGED <<mem, head, block_end, available_memory, brk, refused, live, call, pc>>
    BY <1>4 DEF vars, code
  <2> QED BY <2>1 DEF IInv, TypeOK, Requested, Accounting, SizeOf
<1> QED BY <1>1, <1>2, <1>3, <1>4 DEF Next, Step

\* In every state of every execution the variables have their types, the block
\* at hand fits the request, and what is available is counted.
THEOREM AllocInvariant == Spec => []IInv
BY InitIInv, NextIInv, PTL DEF Spec

\* The counters of alloc.c are unsigned: available_memory (line 9) is never
\* taken below zero by lines 65-85, the break never leaves the room there is
\* for the heap, and no size written to a block is negative, whatever the
\* client does, whatever the frame and however often sbrk fails.
THEOREM AllocTypeCorrect == Spec => []TypeOK
<1>1. IInv => TypeOK
  BY DEF IInv
<1> QED BY <1>1, AllocInvariant, PTL

\* Until sbrk first fails, available_memory is the distance from block_end to
\* the program break (alloc.c:65-85 and 177-199), although kumalloc, kufree and
\* the trimming loop each change only two of the three.
THEOREM AllocAccounting == Spec => []Accounting
<1>1. IInv => Accounting
  BY DEF IInv
<1> QED BY <1>1, AllocInvariant, PTL

-----------------------------------------------------------------------------
(***************************************************************************)
(* The inductive invariant.  The free list is the set F of its blocks,     *)
(* numbered downwards by r from the head; lost are the blocks that         *)
(* kurealloc has moved the contents of and that nobody frees.              *)
(***************************************************************************)
\* The block after x has the next lower number, that after the last does not
\* exist, and all but the head point back at the block that points at them.
Chain(m, h, F, r) ==
  /\ r \in [F -> Int]
  /\ \A x, y \in F : r[x] = r[y] => x = y
  /\ IF F = {} THEN h = NULL ELSE h \in F /\ \A x \in F : r[x] <= r[h]
  /\ \A x \in F : IF m[x + 1] = NULL THEN \A y \in F : r[x] <= r[y]
                  ELSE m[x + 1] \in F /\ r[m[x + 1]] = r[x] - 1
  /\ \A x \in F : x # h => m[x + 2] \in F /\ m[m[x + 2] + 1] = x

Used(S) == {b.at - Header : b \in S}

\* Blocks of three words or more cover the heap up to e, each word once.
Tiles(m, B, e) ==
  /\ \A h \in B : /\ h \in Nat /\ h >= First
                 /\ m[h] \in Nat /\ m[h] >= 3 /\ h + m[h] <= e
  /\ \A h, k \in B : h < k => h + m[h] <= k
  /\ \A w \in First .. e - 1 : \E h \in B : h <= w /\ w < h + m[h]

\* The allocations of S are blocks of their own and fit in them.
Holds(m, S) ==
  /\ \A b \in S : b.len + Header <= m[b.at - Header]
  /\ \A b, c \in S : b.at = c.at => b = c

\* Where the blocks end, also before there are any.
Top == IF block_end = NULL THEN First ELSE block_end

\* sbrk has not failed, and what it gave is blocks and available_memory.
Break ==
  /\ ~refused
  /\ Top \in First .. Limit
  /\ brk = Top + available_memory
  /\ block_end = NULL => available_memory = 0

\* The blocks are those of the list, those in use and those of X: the lost ones
\* and the one that the call in progress has in its hands.
Shape(F, r, X) ==
  /\ Chain(mem, head, F, r)
  /\ Tiles(mem, F \cup Used(live) \cup X, Top)
  /\ F \cap Used(live) = {}
  /\ F \cap X = {}
  /\ Used(live) \cap X = {}
  /\ Holds(mem, live)

\* No two listed blocks adjoin.
Apart(F) == \A x, y \in F : x + mem[x] # y

\* No listed block is the last.
NoneLast(F) == \A x \in F : x + mem[x] # Top

Filled(m, S) == \A b \in S : \A w \in Payload(b) : m[w] = Data(b.at)

Calm(F, r, X) == Break /\ Shape(F, r, X) /\ Apart(F)

\* A search that has come to t has left x behind.
Passed(r, t, x) == t = NULL \/ r[x] > r[t]

\* x can be split and is the only one, or an inner one.
Splits(x, total) == mem[x] >= total + 3 /\ (x = head <=> mem[x + 1] = NULL)

Growable(total) == available_memory >= total \/ CanMove(Capacity(total))

\* What a careful client made sure of.
Promised(F, r, total) ==
  /\ \A x \in F : mem[x] >= total /\ (\A y \in F : r[y] > r[x] => mem[y] < total)
                    => Splits(x, total)
  /\ (\A x \in F : mem[x] < total) => Growable(total)

\* A call of kumalloc or kucalloc, or one of kurealloc that moves: then the
\* block that is resized ends where memory is mapped.
Requesting ==
  \/ /\ call.op \in {"malloc", "calloc"}
     /\ call.ptr = NULL
     /\ call.total = call.len + Header
     /\ call.len > 1
  \/ /\ call.op = "realloc"
     /\ call.total = call.len + 2 * Header
     /\ \E b \in live : b.at = call.ptr
     /\ call.prev_size = mem[call.ptr - Header]
     /\ call.prev_size < call.len
     /\ call.ptr - Header + call.prev_size <= LastMapped(brk)

Idle(F, r, X) == Calm(F, r, X) /\ NoneLast(F) /\ Filled(mem, live)

Fitting(F, r, X) ==
  /\ Idle(F, r, X) /\ Requesting /\ Promised(F, r, call.total)
  /\ call.temp \in F \cup {NULL}
  /\ \A x \in F : Passed(r, call.temp, x) => mem[x] < call.total

Growing(F, r, X) == Idle(F, r, X) /\ Requesting /\ Growable(call.total)

Taking(F, r, X) ==
  Idle(F, r, X) /\ Requesting /\ call.block \in F /\ Splits(call.block, call.total)

\* The block to take is split, and the rest of it not yet in its place.
Unlinking(F, r, X) ==
  /\ Idle(F, r, X \cup {Subseq}) /\ Requesting
  /\ Subseq \notin X
  /\ Subseq + mem[Subseq] # Top
  /\ \A x \in F : Subseq + mem[Subseq] # x
  /\ call.size_diff > 0
  /\ call.block \in F /\ mem[call.block] = call.total
  /\ call.block # head /\ mem[call.block + 1] # NULL
  /\ call.temp \in F /\ r[call.temp] > r[call.block]

Returning(F, r, X) ==
  /\ Idle(F, r, X \cup {call.block}) /\ Requesting
  /\ call.block \notin X
  /\ mem[call.block] = call.total

Filling(F, r, X) ==
  /\ Calm(F, r, X) /\ NoneLast(F) /\ Filled(mem, live \ Given)
  /\ Given # {}

\* The block h that is freed ends the heap: a listed block that it adjoins is
\* the first or the last of the list, and its links are mapped to the end.
FreesLast(F, h) ==
  \A x \in F : x + mem[x] = h =>
    /\ x = head \/ mem[x + 1] = NULL
    /\ x + 2 <= LastMapped(x + available_memory)

\* It does not: its neighbours in the list are where merging works.
FreesInner(F, h) ==
  /\ \A l, u \in F : l + mem[l] = h /\ u = h + mem[h] =>
       (head = l /\ mem[l + 1] = u /\ mem[u + 1] = NULL) \/ (head = u /\ mem[u + 1] = l)
  /\ \A u \in F : u = h + mem[h] /\ (\A l \in F : l + mem[l] # h) => mem[u + 1] = NULL

\* The call has a block that is no longer in use.
Freed(F, r, X) ==
  /\ Idle(F, r, X \cup {call.block})
  /\ call.block \notin X
  /\ call.op = "free" /\ call.ptr = NULL

Freeing(F, r, X) ==
  /\ Freed(F, r, X)
  /\ IF call.block + mem[call.block] = Top
     THEN FreesLast(F, call.block) ELSE FreesInner(F, call.block)

\* The last block is gone, and the search for the one that is last now has not
\* passed it.
TrimmingLast(F, r, X) ==
  /\ Calm(F, r, X) /\ Filled(mem, live)
  /\ call.op = "free" /\ call.ptr = NULL
  /\ FreesLast(F, Top)
  /\ call.temp \in F \cup {NULL}
  /\ \A x \in F : Passed(r, call.temp, x) => x + mem[x] # Top

\* An inner block is still to be listed.
Inner(F, r, X) ==
  /\ Freed(F, r, X)
  /\ call.block + mem[call.block] # Top
  /\ FreesInner(F, call.block)

TrimmingInner(F, r, X) == Inner(F, r, X) /\ call.temp \in F \cup {NULL}

BelowIt(x) == x + mem[x] = call.block
AboveIt(x) == x = call.block + mem[call.block]

Merging(F, r, X) ==
  /\ Inner(F, r, X) /\ F # {}
  /\ call.temp \in F \cup {NULL}
  /\ \A x \in F : Passed(r, call.temp, x) => ~BelowIt(x) /\ ~AboveIt(x)

MergingAbove(F, r, X) ==
  /\ Inner(F, r, X)
  /\ call.temp \in F /\ BelowIt(call.temp)
  /\ call.temp2 \in F
  /\ \A x \in F : Passed(r, call.temp2, x) => ~AboveIt(x)

MergingBelow(F, r, X) ==
  /\ Inner(F, r, X)
  /\ call.temp \in F /\ AboveIt(call.temp)
  /\ call.temp2 \in F \cup {NULL}
  /\ \A x \in F : Passed(r, call.temp2, x) => ~BelowIt(x)

Stage(F, r, lost) ==
  \/ pc = "idle" /\ Idle(F, r, lost)
  \/ pc = "fit" /\ Fitting(F, r, lost)
  \/ pc = "grow" /\ Growing(F, r, lost)
  \/ pc = "take" /\ Taking(F, r, lost)
  \/ pc = "unlink" /\ Unlinking(F, r, lost)
  \/ pc = "return" /\ Returning(F, r, lost)
  \/ pc = "fill" /\ Filling(F, r, lost)
  \/ pc = "last" /\ Freeing(F, r, lost)
  \/ pc = "trim" /\ call.return_flag /\ TrimmingLast(F, r, lost)
  \/ pc = "trim" /\ ~call.return_flag /\ TrimmingInner(F, r, lost)
  \/ pc = "merge" /\ Merging(F, r, lost)
  \/ pc = "above" /\ MergingAbove(F, r, lost)
  \/ pc = "below" /\ MergingBelow(F, r, lost)
-----------------------------------------------------------------------------
(***************************************************************************)
(* Blocks                                                                  *)
(***************************************************************************)
LEMMA TilesSame ==
  ASSUME NEW m, NEW m2, NEW B, NEW e, Tiles(m, B, e),
         \A h \in B : m2[h] = m[h]
  PROVE  Tiles(m2, B, e)
BY DEF Tiles

\* Two blocks of a tiling have no word in common.
LEMMA TilesApart ==
  ASSUME NEW m, NEW B, NEW e, Tiles(m, B, e),
         NEW h \in B, NEW k \in B, h # k
  PROVE  h + m[h] <= k \/ k + m[k] <= h
BY DEF Tiles

\* A block is added at the end of the heap.
LEMMA TilesGrow ==
  ASSUME NEW m, NEW m2, NEW B, NEW e \in Nat, Tiles(m, B, e),
         e >= First, NEW s \in Nat, s >= 3,
         \A h \in B : m2[h] = m[h],
         m2[e] = s
  PROVE  Tiles(m2, B \cup {e}, e + s) /\ e \notin B
<1>1. First \in Nat
  BY ConstantTypes
<1>2. \A h \in B : h \in Nat /\ h >= First /\ m[h] \in Nat /\ m[h] >= 3 /\ h + m[h] <= e /\ h < e
  BY <1>1 DEF Tiles
<1>3. \A h \in B \cup {e} : h \in Nat /\ h >= First /\ m2[h] \in Nat /\ m2[h] >= 3 /\ h + m2[h] <= e + s
  BY <1>1, <1>2
<1>4. \A h, k \in B \cup {e} : h < k => h + m2[h] <= k
  BY <1>2 DEF Tiles
<1>5. \A w \in First .. e + s - 1 : \E h \in B \cup {e} : h <= w /\ w < h + m2[h]
  <2> TAKE w \in First .. e + s - 1
  <2>1. CASE w < e
    <3>1. w \in First .. e - 1
      BY <1>1, <2>1
    <3>2. PICK h \in B : h <= w /\ w < h + m[h]
      BY <3>1 DEF Tiles
    <3> QED
      BY <3>2
  <2>2. CASE ~(w < e)
    BY <1>1, <2>2
  <2> QED
    BY <2>1, <2>2
<1> QED
  BY <1>2, <1>3, <1>4, <1>5 DEF Tiles

\* A block is split in two.
LEMMA TilesSplit ==
  ASSUME NEW m, NEW m2, NEW B, NEW e \in Nat, Tiles(m, B, e),
         NEW x \in B, NEW t \in Nat, t >= 3, m[x] >= t + 3,
         m2[x] = t, m2[x + t] = m[x] - t,
         \A h \in B : h # x => m2[h] = m[h]
  PROVE  Tiles(m2, B \cup {x + t}, e) /\ x + t \notin B
<1>1. First \in Nat
  BY ConstantTypes
<1>2. \A h \in B : h \in Nat /\ h >= First /\ m[h] \in Nat /\ m[h] >= 3 /\ h + m[h] <= e
  BY <1>1 DEF Tiles
<1>3. \A h \in B : h # x => h + m[h] <= x \/ x + m[x] <= h
  BY TilesApart
<1>4. x + t \notin B
  BY <1>2, <1>3
<1>5. \A h \in B \cup {x + t} : h \in Nat /\ h >= First /\ m2[h] \in Nat /\ m2[h] >= 3 /\ h + m2[h] <= e
  BY <1>1, <1>2
<1>6. \A h, k \in B : h < k => h + m[h] <= k
  BY DEF Tiles
<1>7. ASSUME NEW h \in B \cup {x + t}, NEW k \in B \cup {x + t}, h < k
      PROVE  h + m2[h] <= k
  <2>1. CASE h = x + t
    <3>1. k \in B /\ k # x
      BY <1>2, <1>7, <2>1
    <3>2. x + m[x] <= k
      BY <1>2, <1>3, <1>7, <2>1, <3>1
    <3> QED
      BY <1>2, <2>1, <3>2
  <2>2. CASE h = x
    BY <1>2, <1>6, <1>7, <2>2
  <2>3. CASE h # x /\ h # x + t
    <3>1. CASE k = x + t
      <4>1. h + m[h] <= x
        BY <1>2, <1>3, <1>7, <2>3, <3>1
      <4> QED
        BY <1>2, <2>3, <3>1, <4>1
    <3>2. CASE k # x + t
      BY <1>6, <1>7, <2>3, <3>2
    <3> QED
      BY <3>1, <3>2
  <2> QED
    BY <2>1, <2>2, <2>3
<1>8. ASSUME NEW w \in First .. e - 1
      PROVE  \E h \in B \cup {x + t} : h <= w /\ w < h + m2[h]
  <2>1. PICK h \in B : h <= w /\ w < h + m[h]
    BY DEF Tiles
  <2>2. CASE h # x
    BY <2>1, <2>2
  <2>3. CASE h = x /\ w < x + t
    BY <2>1, <2>3
  <2>4. CASE h = x /\ ~(w < x + t)
    <3>1. x + t <= w /\ w < x + t + m2[x + t]
      BY <1>1, <1>2, <2>1, <2>4
    <3> QED
      BY <3>1
  <2> QED
    BY <2>2, <2>3, <2>4
<1> QED
  BY <1>4, <1>5, <1>7, <1>8 DEF Tiles

\* Two blocks that adjoin become one.
LEMMA TilesJoin ==
  ASSUME NEW m, NEW m2, NEW B, NEW e \in Nat, Tiles(m, B, e),
         NEW x \in B, NEW y \in B, x + m[x] = y,
         m2[x] = m[x] + m[y],
         \A h \in B : h # x /\ h # y => m2[h] = m[h]
  PROVE  Tiles(m2, B \ {y}, e)
<1>1. First \in Nat
  BY ConstantTypes
<1>2. \A h \in B : h \in Nat /\ h >= First /\ m[h] \in Nat /\ m[h] >= 3 /\ h + m[h] <= e
  BY <1>1 DEF Tiles
<1>3. \A h, k \in B : h < k => h + m[h] <= k
  BY DEF Tiles
<1>4. \A h \in B \ {y} : h \in Nat /\ h >= First /\ m2[h] \in Nat /\ m2[h] >= 3 /\ h + m2[h] <= e
  BY <1>1, <1>2
<1>5. ASSUME NEW h \in B \ {y}, NEW k \in B \ {y}, h < k
      PROVE  h + m2[h] <= k
  <2>1. CASE h = x
    <3>1. y <= k
      BY <1>2, <1>3, <1>5, <2>1
    <3>2. y + m[y] <= k
      BY <1>2, <1>3, <1>5, <3>1
    <3> QED
      BY <1>2, <2>1, <3>2
  <2>2. CASE h # x
    BY <1>3, <1>5, <2>2
  <2> QED
    BY <2>1, <2>2
<1>6. ASSUME NEW w \in First .. e - 1
      PROVE  \E h \in B \ {y} : h <= w /\ w < h + m2[h]
  <2>1. PICK h \in B : h <= w /\ w < h + m[h]
    BY DEF Tiles
  <2>2. x # y
    BY <1>2
  <2>3. CASE h # x /\ h # y
    BY <2>1, <2>3
  <2>4. CASE h = x \/ h = y
    <3>1. x <= w /\ w < x + m2[x]
      BY <1>1, <1>2, <2>1, <2>4
    <3> QED
      BY <2>2, <3>1
  <2> QED
    BY <2>3, <2>4
<1> QED
  BY <1>4, <1>5, <1>6 DEF Tiles

\* The last block is given back.
LEMMA TilesDrop ==
  ASSUME NEW m, NEW m2, NEW B, NEW e \in Nat, Tiles(m, B, e),
         NEW x \in B, x + m[x] = e,
         \A h \in B : h # x => m2[h] = m[h]
  PROVE  Tiles(m2, B \ {x}, x)
<1>1. First \in Nat
  BY ConstantTypes
<1>2. \A h \in B : h \in Nat /\ h >= First /\ m[h] \in Nat /\ m[h] >= 3 /\ h + m[h] <= e
  BY <1>1 DEF Tiles
<1>3. \A h \in B : h # x => h + m[h] <= x \/ x + m[x] <= h
  BY TilesApart
<1>4. \A h \in B \ {x} : h + m[h] <= x
  BY <1>2, <1>3
<1>5. \A h \in B \ {x} : h \in Nat /\ h >= First /\ m2[h] \in Nat /\ m2[h] >= 3 /\ h + m2[h] <= x
  BY <1>2, <1>4
<1>6. \A h, k \in B \ {x} : h < k => h + m2[h] <= k
  BY DEF Tiles
<1>7. ASSUME NEW w \in First .. x - 1
      PROVE  \E h \in B \ {x} : h <= w /\ w < h + m2[h]
  <2>1. w \in First .. e - 1
    BY <1>1, <1>2
  <2>2. PICK h \in B : h <= w /\ w < h + m[h]
    BY <2>1 DEF Tiles
  <2>3. h # x
    BY <1>1, <1>2, <2>2
  <2> QED
    BY <2>2, <2>3
<1> QED
  BY <1>5, <1>6, <1>7 DEF Tiles


-----------------------------------------------------------------------------
(***************************************************************************)
(* The list                                                                *)
(***************************************************************************)
\* The block behind one points back at it.
LEMMA ChainBack ==
  ASSUME NEW m, NEW h, NEW F, NEW r, Chain(m, h, F, r),
         NEW x \in F, m[x + 1] # NULL
  PROVE  m[x + 1] \in F /\ m[x + 1] # h /\ m[m[x + 1] + 2] = x
<1> DEFINE y == m[x + 1]
<1>1. y \in F /\ r[y] = r[x] - 1 /\ r[x] \in Int /\ r[x] <= r[h]
  BY DEF Chain
<1>2. y # h
  BY <1>1
<1>3. m[y + 2] \in F /\ m[m[y + 2] + 1] = y /\ r[m[y + 2]] \in Int
  BY <1>1, <1>2 DEF Chain
<1>4. r[y] = r[m[y + 2]] - 1
  BY <1>3 DEF Chain
<1>5. m[y + 2] = x
  BY <1>1, <1>3, <1>4 DEF Chain
<1> QED
  BY <1>1, <1>2, <1>5

\* A list whose links are kept is the list it was.
LEMMA ChainSame ==
  ASSUME NEW m, NEW m2, NEW h, NEW F, NEW r, Chain(m, h, F, r),
         \A x \in F : m2[x + 1] = m[x + 1] /\ (x # h => m2[x + 2] = m[x + 2])
  PROVE  Chain(m2, h, F, r)
<1>1. \A x \in F : IF m2[x + 1] = NULL THEN \A y \in F : r[x] <= r[y]
                   ELSE m2[x + 1] \in F /\ r[m2[x + 1]] = r[x] - 1
  BY DEF Chain
<1>2. \A x \in F : x # h => m2[x + 2] \in F /\ m2[m2[x + 2] + 1] = x
  BY DEF Chain
<1> QED
  BY <1>1, <1>2 DEF Chain

\* A block becomes the head of the list.
Pushed(r, h, F, x) ==
  [y \in F \cup {x} |-> IF y # x THEN r[y] ELSE IF F = {} THEN 0 ELSE r[h] + 1]

\* A block put in front of the list.
LEMMA ChainPush ==
  ASSUME NEW m, NEW m2, NEW h, NEW F, NEW r, Chain(m, h, F, r),
         F \subseteq Nat \ {0}, NEW x \in Nat \ {0}, x \notin F,
         m2[x + 1] = h,
         F # {} => m2[h + 2] = x,
         \A y \in F : m2[y + 1] = m[y + 1] /\ (y # h => m2[y + 2] = m[y + 2])
  PROVE  Chain(m2, x, F \cup {x}, Pushed(r, h, F, x))
<1> DEFINE G == F \cup {x}
           q == Pushed(r, h, F, x)
<1>0. /\ \A y \in F : r[y] \in Int
      /\ F # {} => h \in F /\ r[h] \in Int /\ \A y \in F : r[y] <= r[h]
  BY DEF Chain
<1> DEFINE top == IF F = {} THEN 0 ELSE r[h] + 1
<1>t. top \in Int /\ (\A y \in F : r[y] < top) /\ (F # {} => r[h] = top - 1)
  <2>1. CASE F = {}
    BY <2>1
  <2>2. CASE F # {}
    <3>1. top = r[h] + 1
      BY <2>2
    <3> HIDE DEF top
    <3> QED
      BY <1>0, <2>2, <3>1
  <2> QED
    BY <2>1, <2>2
<1>q. q = [y \in G |-> IF y # x THEN r[y] ELSE top]
  BY DEF Pushed
<1> HIDE DEF q, top
<1>1. q \in [G -> Int]
  BY <1>0, <1>t, <1>q
<1>2. \A y \in F : q[y] = r[y] /\ r[y] \in Int /\ y # x
  BY <1>0, <1>q
<1>v. q[x] = top
  BY <1>q
<1>3. q[x] \in Int /\ \A y \in F : q[y] < q[x]
  BY <1>2, <1>t, <1>v
<1>4. F # {} => q[h] = q[x] - 1 /\ h \in F
  BY <1>0, <1>2, <1>t, <1>v
<1>5. F = {} => h = NULL
  BY DEF Chain
<1>6. x \in G
  OBVIOUS
<1>7. \A y, z \in G : q[y] = q[z] => y = z
  BY <1>2, <1>3 DEF Chain
<1>8. \A y \in G : q[y] <= q[x]
  BY <1>2, <1>3
<1>9. ASSUME NEW y \in G
      PROVE  IF m2[y + 1] = NULL THEN \A z \in G : q[y] <= q[z]
             ELSE m2[y + 1] \in G /\ q[m2[y + 1]] = q[y] - 1
  <2>1. CASE y = x
    BY <1>3, <1>4, <1>5, <2>1 DEF NULL
  <2>2. CASE y # x /\ m2[y + 1] = NULL
    <3>1. y \in F /\ m[y + 1] = NULL
      BY <2>2
    <3>2. \A z \in F : r[y] <= r[z]
      BY <3>1 DEF Chain
    <3> QED
      BY <1>2, <1>3, <2>2, <3>1, <3>2
  <2>3. CASE y # x /\ m2[y + 1] # NULL
    <3>1. y \in F /\ m2[y + 1] = m[y + 1]
      BY <2>3
    <3>2. m[y + 1] \in F /\ r[m[y + 1]] = r[y] - 1
      BY <2>3, <3>1 DEF Chain
    <3> QED
      BY <1>2, <2>3, <3>1, <3>2
  <2> QED
    BY <2>1, <2>2, <2>3
<1>10. ASSUME NEW y \in G, y # x
       PROVE  m2[y + 2] \in G /\ m2[m2[y + 2] + 1] = y
  <2>1. y \in F
    BY <1>10
  <2>2. CASE y = h
    BY <2>1, <2>2
  <2>3. CASE y # h
    <3>1. m[y + 2] \in F /\ m[m[y + 2] + 1] = y
      BY <2>1, <2>3 DEF Chain
    <3> QED
      BY <2>1, <2>3, <3>1
  <2> QED
    BY <2>2, <2>3
<1> QED
  BY <1>1, <1>6, <1>7, <1>8, <1>9, <1>10 DEF Chain, q

\* A part of the numbers.
Only(r, F) == [x \in F |-> r[x]]

\* The head leaves the list.
LEMMA ChainPop ==
  ASSUME NEW m, NEW m2, NEW h, NEW F, NEW r, Chain(m, h, F, r),
         F \subseteq Nat \ {0}, h # NULL,
         \A x \in F \ {h} : m2[x + 1] = m[x + 1] /\ (x # m[h + 1] => m2[x + 2] = m[x + 2])
  PROVE  Chain(m2, m[h + 1], F \ {h}, Only(r, F \ {h}))
<1> DEFINE G == F \ {h}
           q == Only(r, G)
           k == m[h + 1]
<1>1. h \in F /\ \A x \in F : r[x] \in Int /\ r[x] <= r[h]
  BY DEF Chain
<1>2. q \in [G -> Int] /\ \A x \in G : q[x] = r[x] /\ r[x] < r[h]
  BY <1>1 DEF Only, Chain
<1> HIDE DEF q
<1>3. \A x, y \in G : q[x] = q[y] => x = y
  BY <1>2 DEF Chain
<1>4. IF G = {} THEN k = NULL ELSE k \in G /\ \A x \in G : q[x] <= q[k]
  <2>1. CASE k = NULL
    <3>1. \A x \in F : r[h] <= r[x]
      BY <1>1, <2>1 DEF Chain
    <3>2. G = {}
      BY <1>1, <1>2, <3>1
    <3> QED
      BY <2>1, <3>2
  <2>2. CASE k # NULL
    <3>1. k \in F /\ r[k] = r[h] - 1
      BY <1>1, <2>2 DEF Chain
    <3>2. k \in G
      BY <1>1, <3>1
    <3>3. \A x \in G : q[x] <= q[k]
      <4> TAKE x \in G
      <4>1. r[x] \in Int /\ r[x] < r[h] /\ r[h] \in Int /\ q[x] = r[x] /\ q[k] = r[k]
        BY <1>1, <1>2, <3>2
      <4> QED
        BY <3>1, <4>1
    <3> QED
      BY <3>2, <3>3
  <2> QED
    BY <2>1, <2>2
<1>5. ASSUME NEW x \in G
      PROVE  IF m2[x + 1] = NULL THEN \A y \in G : q[x] <= q[y]
             ELSE m2[x + 1] \in G /\ q[m2[x + 1]] = q[x] - 1
  <2>1. m2[x + 1] = m[x + 1]
    OBVIOUS
  <2>2. CASE m[x + 1] = NULL
    BY <1>2, <2>1, <2>2 DEF Chain
  <2>3. CASE m[x + 1] # NULL
    <3>1. m[x + 1] \in F /\ r[m[x + 1]] = r[x] - 1
      BY <2>3 DEF Chain
    <3>2. m[x + 1] # h
      BY <1>1, <1>2, <3>1
    <3> QED
      BY <1>2, <2>1, <2>3, <3>1, <3>2
  <2> QED
    BY <2>2, <2>3
<1>6. ASSUME NEW x \in G, x # k
      PROVE  m2[x + 2] \in G /\ m2[m2[x + 2] + 1] = x
  <2>1. m2[x + 2] = m[x + 2] /\ m[x + 2] \in F /\ m[m[x + 2] + 1] = x
    BY <1>6 DEF Chain
  <2>2. m[x + 2] # h
    BY <1>6, <2>1
  <2> QED
    BY <2>1, <2>2
<1> QED
  BY <1>2, <1>3, <1>4, <1>5, <1>6 DEF Chain, q

\* The last block leaves the list, which is not its head.
LEMMA ChainDrop ==
  ASSUME NEW m, NEW m2, NEW h, NEW F, NEW r, Chain(m, h, F, r),
         F \subseteq Nat \ {0}, NEW t \in F, t # h, m[t + 1] = NULL,
         m2[m[t + 2] + 1] = NULL,
         \A x \in F \ {t} : /\ x # m[t + 2] => m2[x + 1] = m[x + 1]
                            /\ x # h => m2[x + 2] = m[x + 2]
  PROVE  Chain(m2, h, F \ {t}, Only(r, F \ {t}))
<1> DEFINE G == F \ {t}
           q == Only(r, G)
           p == m[t + 2]
<1>1. h \in F /\ \A x \in F : r[x] \in Int /\ r[x] <= r[h]
  BY DEF Chain
<1>2. q \in [G -> Int] /\ \A x \in G : q[x] = r[x]
  BY <1>1 DEF Only, Chain
<1>3. p \in F /\ m[p + 1] = t /\ \A x \in F : r[t] <= r[x]
  BY DEF Chain
<1>4. r[t] = r[p] - 1 /\ p # t
  <2>1. m[p + 1] # NULL
    BY <1>3 DEF NULL
  <2>2. r[m[p + 1]] = r[p] - 1
    BY <1>3, <2>1 DEF Chain
  <2>3. r[t] \in Int /\ r[p] \in Int /\ r[t] = r[p] - 1
    BY <1>1, <1>3, <2>2
  <2> QED
    BY <2>3
<1> HIDE DEF q
<1>5. \A x, y \in G : q[x] = q[y] => x = y
  BY <1>2 DEF Chain
<1>6. h \in G /\ \A x \in G : q[x] <= q[h]
  BY <1>1, <1>2
<1>7. ASSUME NEW x \in G
      PROVE  IF m2[x + 1] = NULL THEN \A y \in G : q[x] <= q[y]
             ELSE m2[x + 1] \in G /\ q[m2[x + 1]] = q[x] - 1
  <2>1. CASE x = p
    <3>1. \A y \in G : r[y] # r[t] /\ r[t] <= r[y] /\ r[y] \in Int
      BY <1>1, <1>3 DEF Chain
    <3>2. \A y \in G : q[p] <= q[y]
      <4> TAKE y \in G
      <4>1. q[y] = r[y] /\ q[p] = r[p] /\ r[p] \in Int /\ r[t] \in Int
        BY <1>1, <1>2, <1>3, <1>4
      <4>2. r[y] \in Int /\ r[y] # r[t] /\ r[t] <= r[y]
        BY <3>1
      <4> QED
        BY <1>4, <4>1, <4>2
    <3> QED
      BY <2>1, <3>2
  <2>2. CASE x # p
    <3>1. m2[x + 1] = m[x + 1]
      BY <2>2
    <3>2. CASE m[x + 1] = NULL
      BY <1>2, <3>1, <3>2 DEF Chain
    <3>3. CASE m[x + 1] # NULL
      <4>1. m[x + 1] \in F /\ r[m[x + 1]] = r[x] - 1
        BY <3>3 DEF Chain
      <4>2. m[x + 1] # t
        <5> SUFFICES ASSUME m[x + 1] = t PROVE FALSE
          OBVIOUS
        <5>1. r[x] = r[p]
          <6>1. r[x] \in Int /\ r[p] \in Int /\ r[t] \in Int /\ r[t] = r[x] - 1
            BY <1>1, <1>3, <4>1
          <6> QED
            BY <1>4, <6>1
        <5> QED
          BY <1>3, <2>2, <5>1 DEF Chain
      <4> QED
        BY <1>2, <3>1, <3>3, <4>1, <4>2
    <3> QED
      BY <3>2, <3>3
  <2> QED
    BY <2>1, <2>2
<1>8. ASSUME NEW x \in G, x # h
      PROVE  m2[x + 2] \in G /\ m2[m2[x + 2] + 1] = x
  <2>1. m2[x + 2] = m[x + 2] /\ m[x + 2] \in F /\ m[m[x + 2] + 1] = x
    BY <1>8 DEF Chain
  <2>2. x # NULL
    BY DEF NULL
  <2>3. m[x + 2] # t
    BY <2>1, <2>2
  <2>4. m[x + 2] # p
    BY <1>3, <2>1
  <2> QED
    BY <2>1, <2>3, <2>4
<1> QED
  BY <1>2, <1>5, <1>6, <1>7, <1>8 DEF Chain, q

\* A block s takes the place of another, x.
Replaced(r, F, x, s) == [y \in (F \ {x}) \cup {s} |-> IF y = s THEN r[x] ELSE r[y]]

\* A block that takes the place of a listed one.
LEMMA ChainReplace ==
  ASSUME NEW m, NEW m2, NEW h, NEW F, NEW r, Chain(m, h, F, r),
         F \subseteq Nat \ {0}, NEW x \in F, NEW s \in Nat \ {0}, s \notin F,
         m2[s + 1] = m[x + 1],
         x # h => m2[m[x + 2] + 1] = s /\ m2[s + 2] = m[x + 2],
         m[x + 1] # NULL => m2[m[x + 1] + 2] = s,
         \A y \in F \ {x} : /\ (x = h \/ y # m[x + 2]) => m2[y + 1] = m[y + 1]
                            /\ y # h /\ y # m[x + 1] => m2[y + 2] = m[y + 2]
  PROVE  Chain(m2, IF x = h THEN s ELSE h, (F \ {x}) \cup {s}, Replaced(r, F, x, s))
<1> DEFINE G == (F \ {x}) \cup {s}
           q == Replaced(r, F, x, s)
           k == IF x = h THEN s ELSE h
<1>1. h \in F /\ \A y \in F : r[y] \in Int /\ r[y] <= r[h]
  BY DEF Chain
<1>2. q \in [G -> Int] /\ q[s] = r[x] /\ \A y \in F \ {x} : q[y] = r[y] /\ y # s
  BY <1>1 DEF Replaced
<1> HIDE DEF q
<1>3. \A y, z \in G : q[y] = q[z] => y = z
  <2>1. \A y \in F \ {x} : q[y] # q[s]
    BY <1>2 DEF Chain
  <2>2. \A y, z \in F \ {x} : q[y] = q[z] => y = z
    BY <1>2 DEF Chain
  <2> QED
    BY <2>1, <2>2
<1>4. k \in G /\ \A y \in G : q[y] <= q[k]
  BY <1>1, <1>2
<1>5. ASSUME NEW y \in G
      PROVE  IF m2[y + 1] = NULL THEN \A z \in G : q[y] <= q[z]
             ELSE m2[y + 1] \in G /\ q[m2[y + 1]] = q[y] - 1
  <2>1. CASE y = s
    <3>1. CASE m[x + 1] = NULL
      <4>1. \A z \in F : r[x] <= r[z]
        BY <3>1 DEF Chain
      <4> QED
        BY <1>1, <1>2, <2>1, <3>1, <4>1
    <3>2. CASE m[x + 1] # NULL
      <4>1. m[x + 1] \in F /\ r[m[x + 1]] = r[x] - 1
        BY <3>2 DEF Chain
      <4>2. m[x + 1] # x
        BY <1>1, <4>1
      <4> QED
        BY <1>2, <2>1, <3>2, <4>1, <4>2
    <3> QED
      BY <3>1, <3>2
  <2>2. CASE y \in F \ {x} /\ x # h /\ y = m[x + 2]
    <3>1. m[y + 1] = x /\ m2[y + 1] = s
      BY <2>2 DEF Chain
    <3>2. r[x] = r[y] - 1
      BY <2>2, <3>1 DEF Chain, NULL
    <3> QED
      BY <1>2, <2>2, <3>1, <3>2 DEF NULL
  <2>3. CASE y \in F \ {x} /\ (x = h \/ y # m[x + 2])
    <3>1. m2[y + 1] = m[y + 1]
      BY <2>3
    <3>2. CASE m[y + 1] = NULL
      <4>1. \A z \in F : r[y] <= r[z]
        BY <2>3, <3>2 DEF Chain
      <4> QED
        BY <1>1, <1>2, <2>3, <3>1, <3>2, <4>1
    <3>3. CASE m[y + 1] # NULL
      <4>1. m[y + 1] \in F /\ r[m[y + 1]] = r[y] - 1
        BY <2>3, <3>3 DEF Chain
      <4>3. m[y + 1] # h /\ m[m[y + 1] + 2] = y
        BY <2>3, <3>3, ChainBack
      <4>2. m[y + 1] # x
        BY <2>3, <4>3
      <4> QED
        BY <1>2, <2>3, <3>1, <3>3, <4>1, <4>2, ZenonT(40)
    <3> QED
      BY <3>2, <3>3
  <2> QED
    BY <2>1, <2>2, <2>3
<1>6. ASSUME NEW y \in G, y # k
      PROVE  m2[y + 2] \in G /\ m2[m2[y + 2] + 1] = y
  <2>1. CASE y = s
    <3>1. x # h /\ m[x + 2] \in F /\ m[m[x + 2] + 1] = x
      BY <1>6, <2>1 DEF Chain
    <3>2. r[x] = r[m[x + 2]] - 1
      BY <3>1 DEF Chain, NULL
    <3>3. m[x + 2] # x
      BY <1>1, <3>1, <3>2
    <3> QED
      BY <2>1, <3>1, <3>3
  <2>2. CASE y \in F \ {x} /\ y = m[x + 1]
    <3>1. m[x + 1] # NULL
      BY <2>2 DEF NULL
    <3> QED
      BY <2>2, <3>1
  <2>3. CASE y \in F \ {x} /\ y # m[x + 1]
    <3>1. y # h
      BY <1>6, <2>3
    <3>2. m[y + 2] \in F /\ m[m[y + 2] + 1] = y
      BY <2>3, <3>1 DEF Chain
    <3>3. m[y + 2] # x
      BY <2>3, <3>2
    <3>4. m2[y + 2] = m[y + 2]
      BY <2>3, <3>1
    <3>5. x # h => m[y + 2] # m[x + 2]
      BY <2>3, <3>2 DEF Chain
    <3> QED
      BY <2>3, <3>2, <3>3, <3>4, <3>5
  <2> QED
    BY <2>1, <2>2, <2>3
<1> QED
  BY <1>2, <1>3, <1>4, <1>5, <1>6 DEF Chain, q

-----------------------------------------------------------------------------
(***************************************************************************)
(* Memory                                                                  *)
(***************************************************************************)
Wrote(m, m2, a, v) ==
  m2 \in [Words -> Nat] /\ \A w \in Words : m2[w] = IF w = a THEN v ELSE m[w]

\* A word is written, the others are not.
LEMMA WriteIn ==
  ASSUME NEW m \in [Words -> Nat], NEW a \in Words, NEW v \in Nat
  PROVE  Wrote(m, Write(m, a, v), a, v)
BY DEF Write, Wrote

\* So it is with a range of words.
LEMMA OverwriteIn ==
  ASSUME NEW m \in [Words -> Nat], NEW S, NEW v \in Nat
  PROVE  /\ Overwrite(m, S, v) \in [Words -> Nat]
         /\ \A w \in Words : Overwrite(m, S, v)[w] = IF w \in S THEN v ELSE m[w]
BY DEF Overwrite

\* Whole pages are mapped, so every word below the break is.
LEMMA MappedBelow ==
  ASSUME NEW b \in Nat, b > 0
  PROVE  LastMapped(b) \in Nat /\ LastMapped(b) >= b - 1
<1>1. Page \in Nat /\ Page > 1
  BY PageAssumption
<1> DEFINE c == b - 1 + Page - 1
           q == c \div Page
           s == c % Page
<1>2. c \in Nat
  BY <1>1
<1>3. q \in Nat /\ s \in Nat /\ s < Page /\ c = Page * q + s
  <2> HIDE DEF c
  <2> QED
    BY <1>1, <1>2
<1>4. Page * q \in Nat /\ Page * q = q * Page
  <2> HIDE DEF q
  <2> QED
    BY <1>1, <1>3
<1>5. LastMapped(b) = q * Page
  BY DEF LastMapped
<1> DEFINE p == Page * q
<1>6. c = p + s /\ p \in Nat /\ LastMapped(b) = p
  BY <1>3, <1>4, <1>5
<1> HIDE DEF q, s, p
<1> QED
  BY <1>1, <1>3, <1>6

\* The words that stay mapped are kept.
LEMMA UnmapIn ==
  ASSUME NEW m \in [Words -> Nat], NEW b \in Nat, b > 0
  PROVE  /\ Unmap(m, b) \in [Words -> Nat]
         /\ \A w \in Words : w <= LastMapped(b) => Unmap(m, b)[w] = m[w]
<1> DEFINE l == LastMapped(b)
<1>1. l \in Nat /\ Limit \in Nat /\ Words \subseteq Nat
  BY MappedBelow, ConstantTypes
<1> HIDE DEF l
<1> QED
  BY <1>1, OverwriteIn DEF Unmap, l

\* The words of a block.
LEMMA InHeap ==
  ASSUME NEW m \in [Words -> Nat], NEW B, NEW e \in First .. Limit, Tiles(m, B, e),
         NEW h \in B
  PROVE  /\ h \in Nat \ {0} /\ h >= First
         /\ m[h] \in Nat /\ m[h] >= 3 /\ h + m[h] <= e
         /\ h \in Words /\ h + 1 \in Words /\ h + 2 \in Words
         /\ \A w \in Int : h <= w /\ w < h + m[h] => w \in Words
<1>1. First \in Nat /\ First > 0 /\ Limit \in Nat
  BY ConstantTypes
<1>2. h \in Nat /\ h >= First /\ m[h] \in Nat /\ m[h] >= 3 /\ h + m[h] <= e
  BY DEF Tiles
<1>3. h \in Words /\ h + 1 \in Words /\ h + 2 \in Words
  BY <1>1, <1>2 DEF Words
<1>5. \A w \in Int : h <= w /\ w < h + m[h] => w \in Words
  BY <1>1, <1>2 DEF Words
<1> QED
  BY <1>1, <1>2, <1>3, <1>5

\* Every word below e that differs is one of a block of Y.
Within(m, m2, e, Y) ==
  \A w \in Words : w < e /\ m2[w] # m[w] => \E x \in Y : x <= w /\ w < x + m[x]

\* What is written into other blocks leaves those in use as they are.
LEMMA LiveKept ==
  ASSUME NEW m \in [Words -> Nat], NEW m2, NEW S \in SUBSET [at : Nat \ {0}, len : Nat],
         NEW B, NEW Y \in SUBSET B, NEW e \in First .. Limit, Tiles(m, B, e),
         Used(S) \subseteq B \ Y, Holds(m, S), Within(m, m2, e, Y)
  PROVE  /\ Holds(m2, S)
         /\ \A h \in Used(S) : m2[h] = m[h]
         /\ \A T \in SUBSET S : Filled(m, T) => Filled(m2, T)
<1>1. \A h \in B : /\ h \in Nat /\ m[h] \in Nat
                   /\ \A w \in Int : h <= w /\ w < h + m[h] => w \in Words
                   /\ h \in Words /\ m[h] >= 3 /\ h + m[h] <= e /\ e \in Nat
  <2>1. e \in Nat
    BY ConstantTypes
  <2> QED
    BY <2>1, InHeap
<1>2. \A x \in Y, h \in Used(S) : x + m[x] <= h \/ h + m[h] <= x
  <2> TAKE x \in Y, h \in Used(S)
  <2>1. x # h /\ x \in B /\ h \in B
    OBVIOUS
  <2> QED
    BY <2>1, TilesApart
<1>3. ASSUME NEW h \in Used(S), NEW w \in Int, h <= w, w < h + m[h]
      PROVE  m2[w] = m[w]
  <2>1. w \in Words /\ w < e
    BY <1>1, <1>3
  <2>3. m2[w] # m[w] => \E x \in Y : x <= w /\ w < x + m[x]
    BY <2>1 DEF Within
  <2>2. \A x \in Y : ~(x <= w /\ w < x + m[x])
    <3> TAKE x \in Y
    <3>1. x \in Nat /\ m[x] \in Nat /\ h \in Nat /\ m[h] \in Nat
      BY <1>1
    <3> QED
      BY <1>2, <1>3, <3>1
  <2> QED
    BY <2>2, <2>3
<1>4. \A h \in Used(S) : m2[h] = m[h]
  <2> TAKE h \in Used(S)
  <2>1. h \in Int /\ h <= h /\ h < h + m[h]
    BY <1>1
  <2> QED
    BY <1>3, <2>1
<1>5. Holds(m2, S)
  BY <1>4 DEF Holds, Used
<1>6. ASSUME NEW b \in S, NEW w \in Payload(b)
      PROVE  m2[w] = m[w]
  <2>1. b.at \in Nat \ {0} /\ b.len \in Nat
    OBVIOUS
  <2> DEFINE h == b.at - Header
  <2>2. h \in Used(S) /\ b.len + Header <= m[h] /\ h \in Nat /\ m[h] \in Nat
    BY <1>1 DEF Holds, Used
  <2>3. w \in Int /\ h <= w /\ w < h + m[h]
    BY <2>1, <2>2 DEF Payload, Header
  <2> QED
    BY <1>3, <2>2, <2>3
<1>7. \A T \in SUBSET S : Filled(m, T) => Filled(m2, T)
  BY <1>6 DEF Filled
<1> QED
  BY <1>4, <1>5, <1>7

-----------------------------------------------------------------------------
(***************************************************************************)
(* The state                                                               *)
(***************************************************************************)
\* What the blocks of the heap are in terms of the model's operators.
LEMMA BlockFacts ==
  ASSUME TypeOK, NEW F, NEW r, NEW X, Break, Shape(F, r, X)
  PROVE  /\ mem \in [Words -> Nat] /\ Top \in First .. Limit /\ First \in Nat /\ First > 0
         /\ \A h \in F \cup Used(live) \cup X :
              /\ h \in Nat \ {0} /\ h >= First
              /\ mem[h] \in Nat /\ mem[h] >= 3 /\ h + mem[h] <= Top
              /\ h \in Words /\ h + 1 \in Words /\ h + 2 \in Words
              /\ \A w \in Int : h <= w /\ w < h + mem[h] => w \in Words
              /\ SizeOf(h) = mem[h] /\ NextOf(h) = mem[h + 1] /\ End(h) = h + mem[h]
              /\ Read(mem, h) = mem[h] /\ Read(mem, Next_(h)) = mem[h + 1]
              /\ Read(mem, Prev_(h)) = mem[h + 2]
         /\ \A h, k \in F \cup Used(live) \cup X :
              h # k => h + mem[h] <= k \/ k + mem[k] <= h
         /\ \A x \in F : mem[x + 1] \in F \cup {NULL} /\ mem[x + 1] \in Nat
<1> DEFINE B == F \cup Used(live) \cup X
<1>1. mem \in [Words -> Nat] /\ Top \in First .. Limit /\ First \in Nat /\ First > 0
  BY ConstantTypes DEF TypeOK, Break
<1>2. Tiles(mem, B, Top)
  BY DEF Shape
<1>3. ASSUME NEW h \in B
      PROVE  /\ h \in Nat \ {0} /\ h >= First
             /\ mem[h] \in Nat /\ mem[h] >= 3 /\ h + mem[h] <= Top
             /\ h \in Words /\ h + 1 \in Words /\ h + 2 \in Words
             /\ \A w \in Int : h <= w /\ w < h + mem[h] => w \in Words
  BY <1>1, <1>2, InHeap
<1>4. \A h \in B :
              /\ SizeOf(h) = mem[h] /\ NextOf(h) = mem[h + 1] /\ End(h) = h + mem[h]
              /\ Read(mem, h) = mem[h] /\ Read(mem, Next_(h)) = mem[h + 1]
              /\ Read(mem, Prev_(h)) = mem[h + 2]
  BY <1>3 DEF SizeOf, NextOf, End, Read, Next_, Prev_
<1>5. \A h, k \in B : h # k => h + mem[h] <= k \/ k + mem[k] <= h
  BY <1>2, TilesApart
<1>6. \A x \in F : mem[x + 1] \in F \cup {NULL} /\ mem[x + 1] \in Nat
  BY <1>1, <1>3 DEF Shape, Chain
<1> QED
  BY <1>1, <1>3, <1>4, <1>5, <1>6

\* A step that leaves the allocator's data alone leaves the blocks alone.
LEMMA SameCalm ==
  ASSUME UNCHANGED <<code, live>>, NEW F, NEW r, NEW X
  PROVE  /\ Break' <=> Break
         /\ Shape(F, r, X)' <=> Shape(F, r, X)
         /\ Calm(F, r, X)' <=> Calm(F, r, X)
         /\ NoneLast(F)' <=> NoneLast(F)
         /\ Idle(F, r, X)' <=> Idle(F, r, X)
         /\ Filled(mem, live)' <=> Filled(mem, live)
         /\ Top' = Top
         /\ mem' = mem /\ head' = head /\ brk' = brk /\ live' = live
         /\ available_memory' = available_memory
<1>1. /\ mem' = mem /\ head' = head /\ brk' = brk /\ live' = live
      /\ available_memory' = available_memory /\ refused' = refused /\ block_end' = block_end
  BY DEF code
<1>2. Top' = Top
  BY <1>1 DEF Top
<1>3. Break' <=> Break
  BY <1>1, <1>2 DEF Break
<1>4. Shape(F, r, X)' <=> Shape(F, r, X)
  BY <1>1, <1>2 DEF Shape
<1>5. Calm(F, r, X)' <=> Calm(F, r, X)
  BY <1>1, <1>3, <1>4 DEF Calm, Apart
<1>6. NoneLast(F)' <=> NoneLast(F)
  BY <1>1, <1>2 DEF NoneLast
<1>7. Filled(mem, live)' <=> Filled(mem, live)
  BY <1>1
<1>8. Idle(F, r, X)' <=> Idle(F, r, X)
  BY <1>5, <1>6, <1>7 DEF Idle
<1> QED
  BY <1>1, <1>2, <1>3, <1>4, <1>5, <1>6, <1>7, <1>8

-----------------------------------------------------------------------------
(***************************************************************************)
(* Searches: the steps that only move in the list                          *)
(***************************************************************************)
LEMMA HeadSearch ==
  ASSUME NEW m, NEW h, NEW F, NEW r, Chain(m, h, F, r), F \subseteq Nat \ {0}
  PROVE  h \in F \cup {NULL} /\ \A x \in F : ~Passed(r, h, x)
<1>1. \A x \in F : h \in F /\ h # NULL /\ r[x] <= r[h] /\ r[x] \in Int /\ r[h] \in Int
  BY DEF Chain, NULL
<1>2. h \in F \cup {NULL}
  BY DEF Chain
<1> QED
  BY <1>1, <1>2 DEF Passed

\* One step of a search along the list.
LEMMA NextSearch ==
  ASSUME NEW m, NEW h, NEW F, NEW r, Chain(m, h, F, r), F \subseteq Nat \ {0},
         NEW t \in F
  PROVE  /\ m[t + 1] \in F \cup {NULL}
         /\ \A x \in F : Passed(r, m[t + 1], x) => x = t \/ Passed(r, t, x)
         /\ m[t + 1] = NULL => \A x \in F : x = t \/ Passed(r, t, x)
         /\ \A x \in F : r[t] > r[x] => m[t + 1] # NULL /\ (x = m[t + 1] \/ r[m[t + 1]] > r[x])
<1>0. t # NULL /\ \A x \in F : r[x] \in Int /\ (r[x] = r[t] => x = t)
  BY DEF Chain, NULL
<1>1. CASE m[t + 1] = NULL
  <2>1. \A x \in F : r[t] <= r[x]
    BY <1>1 DEF Chain
  <2> QED
    BY <1>0, <1>1, <2>1 DEF Passed
<1>2. CASE m[t + 1] # NULL
  <2>1. m[t + 1] \in F /\ r[m[t + 1]] = r[t] - 1
    BY <1>2 DEF Chain
  <2>2. \A x \in F : r[x] = r[m[t + 1]] => x = m[t + 1]
    BY <2>1 DEF Chain
  <2>3. \A x \in F : r[x] > r[m[t + 1]] => x = t \/ r[x] > r[t]
    BY <1>0, <2>1
  <2>4. \A x \in F : r[t] > r[x] => x = m[t + 1] \/ r[m[t + 1]] > r[x]
    BY <1>0, <2>1, <2>2
  <2> QED
    BY <1>2, <2>1, <2>3, <2>4 DEF Passed
<1> QED
  BY <1>1, <1>2

\* What the list of a state of the heap is to a search.
LEMMA SearchFacts ==
  ASSUME TypeOK, NEW F, NEW r, NEW X, Break, Shape(F, r, X)
  PROVE  /\ F \subseteq Nat \ {0} /\ Chain(mem, head, F, r)
         /\ head \in F \cup {NULL} /\ (head = NULL <=> F = {})
         /\ \A x \in F : ~Passed(r, head, x) /\ x # NULL
         /\ \A t \in F :
              /\ SizeOf(t) = mem[t] /\ NextOf(t) = mem[t + 1] /\ End(t) = t + mem[t]
              /\ NextOf(t) \in F \cup {NULL}
              /\ \A x \in F : Passed(r, NextOf(t), x) => x = t \/ Passed(r, t, x)
              /\ NextOf(t) = NULL => \A x \in F : x = t \/ Passed(r, t, x)
<1>1. F \subseteq Nat \ {0} /\ Chain(mem, head, F, r)
  BY BlockFacts DEF Shape
<1>2. head \in F \cup {NULL} /\ \A x \in F : ~Passed(r, head, x)
  BY <1>1, HeadSearch
<1>3. head = NULL <=> F = {}
  BY <1>1, <1>2 DEF Chain, NULL
<1>4. \A x \in F : x # NULL
  BY <1>1 DEF NULL
<1>5. \A t \in F : SizeOf(t) = mem[t] /\ NextOf(t) = mem[t + 1] /\ End(t) = t + mem[t]
  BY BlockFacts
<1>6. ASSUME NEW t \in F
      PROVE  /\ NextOf(t) \in F \cup {NULL}
             /\ \A x \in F : Passed(r, NextOf(t), x) => x = t \/ Passed(r, t, x)
             /\ NextOf(t) = NULL => \A x \in F : x = t \/ Passed(r, t, x)
  <2>1. NextOf(t) = mem[t + 1]
    BY <1>5
  <2>2. /\ mem[t + 1] \in F \cup {NULL}
        /\ \A x \in F : Passed(r, mem[t + 1], x) => x = t \/ Passed(r, t, x)
        /\ mem[t + 1] = NULL => \A x \in F : x = t \/ Passed(r, t, x)
    BY <1>1, NextSearch
  <2> QED
    BY <2>1, <2>2
<1> QED
  BY <1>1, <1>2, <1>3, <1>4, <1>5, <1>6

\* A search does not touch what was asked for.
LEMMA SameRequest ==
  ASSUME Requesting, mem' = mem, live' = live, brk' = brk,
         call'.op = call.op, call'.ptr = call.ptr, call'.len = call.len,
         call'.total = call.total, call'.prev_size = call.prev_size
  PROVE  Requesting'
BY DEF Requesting

\* First fit goes on, finds a block, or comes to the end (alloc.c:44-53).
LEMMA FitStep ==
  ASSUME TypeOK, NEW F, NEW r, NEW X, Fitting(F, r, X), Fit
  PROVE  /\ \/ pc' = "fit" /\ Fitting(F, r, X)'
            \/ pc' = "take" /\ Taking(F, r, X)'
            \/ pc' = "grow" /\ Growing(F, r, X)'
         /\ call'.op = call.op
<1>1. UNCHANGED <<code, live>> /\ pc = "fit" /\ call \in Locals
  BY DEF Fit, TypeOK
<1>2. Idle(F, r, X) /\ Requesting /\ Promised(F, r, call.total) /\ Break /\ Shape(F, r, X)
  BY DEF Fitting, Idle, Calm
<1>3. Idle(F, r, X)' /\ mem' = mem /\ live' = live /\ brk' = brk /\ head' = head
      /\ available_memory' = available_memory
  BY <1>1, <1>2, SameCalm
<1>4. call.temp \in F \cup {NULL}
      /\ \A x \in F : Passed(r, call.temp, x) => mem[x] < call.total
  BY DEF Fitting
<1>5. CASE /\ call.temp # NULL /\ SizeOf(call.temp) >= call.total
           /\ call' = [call EXCEPT !.block = call.temp]
           /\ pc' = "take"
  <2>1. /\ call'.op = call.op /\ call'.ptr = call.ptr /\ call'.len = call.len
        /\ call'.total = call.total /\ call'.prev_size = call.prev_size
        /\ call'.block = call.temp
    BY <1>1, <1>5 DEF Locals
  <2>2. Requesting'
    BY <1>2, <1>3, <2>1, SameRequest
  <2>3. call.temp \in F /\ mem[call.temp] >= call.total
    BY <1>2, <1>4, <1>5, SearchFacts
  <2>4. \A x \in F : r[x] > r[call.temp] => mem[x] < call.total
    BY <1>4 DEF Passed
  <2>5. Splits(call.temp, call.total)
    BY <1>2, <2>3, <2>4 DEF Promised
  <2>6. Splits(call.block, call.total)'
    BY <1>3, <2>1, <2>5 DEF Splits
  <2> QED
    BY <1>3, <1>5, <2>1, <2>2, <2>3, <2>6 DEF Taking
<1>6. CASE /\ call.temp # NULL /\ SizeOf(call.temp) < call.total
           /\ call' = [call EXCEPT !.temp = NextOf(call.temp)]
           /\ pc' = pc
  <2>1. /\ call'.op = call.op /\ call'.ptr = call.ptr /\ call'.len = call.len
        /\ call'.total = call.total /\ call'.prev_size = call.prev_size
        /\ call'.temp = NextOf(call.temp)
    BY <1>1, <1>6 DEF Locals
  <2>2. Requesting'
    BY <1>2, <1>3, <2>1, SameRequest
  <2>3. call.temp \in F /\ mem[call.temp] < call.total
    BY <1>2, <1>4, <1>6, SearchFacts
  <2>4. call'.temp \in F \cup {NULL}
        /\ \A x \in F : Passed(r, call'.temp, x) => mem[x] < call.total
    BY <1>2, <1>4, <2>1, <2>3, SearchFacts
  <2>5. Promised(F, r, call.total)'
    BY <1>2, <1>3, <2>1 DEF Promised, Splits, Growable, CanMove
  <2> QED
    BY <1>1, <1>3, <1>6, <2>1, <2>2, <2>4, <2>5 DEF Fitting
<1>7. CASE call.temp = NULL /\ pc' = "grow" /\ call' = call
  <2>1. Requesting'
    BY <1>2, <1>3, <1>7, SameRequest
  <2>2. \A x \in F : mem[x] < call.total
    BY <1>4, <1>7 DEF Passed
  <2>3. Growable(call.total)'
    BY <1>2, <1>3, <1>7, <2>2 DEF Promised, Growable, CanMove
  <2> QED
    BY <1>3, <1>7, <2>1, <2>3 DEF Growing
<1> QED
  BY <1>5, <1>6, <1>7 DEF Fit

\* What the search for the place of a freed block does not change.
LEMMA SameInner ==
  ASSUME UNCHANGED <<code, live>>, NEW F, NEW r, NEW X, Inner(F, r, X),
         call'.block = call.block, call'.op = call.op, call'.ptr = call.ptr
  PROVE  Inner(F, r, X)'
<1>1. Idle(F, r, X \cup {call.block})'
  <2>1. Idle(F, r, X \cup {call.block})
    BY DEF Inner, Freed
  <2> DEFINE Y == X \cup {call.block}
  <2>2. Y' = Y
    OBVIOUS
  <2>3. mem' = mem /\ head' = head /\ Top' = Top /\ live' = live
    BY SameCalm
  <2>4. Break' /\ Filled(mem, live)'
    BY <2>1, SameCalm DEF Idle, Calm
  <2> QED
    BY <2>1, <2>2, <2>3, <2>4 DEF Idle, Calm, Shape, Apart, NoneLast
<1>2. mem' = mem /\ head' = head /\ Top' = Top
  BY SameCalm
<1> QED
  BY <1>1, <1>2 DEF Inner, Freed, FreesInner

\* The search for a neighbour goes on or finds one (alloc.c:215-239, 287, 347).
LEMMA MergeSearch ==
  ASSUME TypeOK, NEW F, NEW r, NEW X, Merging(F, r, X), Merge, call.temp # NULL
  PROVE  /\ \/ pc' = "merge" /\ Merging(F, r, X)'
            \/ pc' = "above" /\ MergingAbove(F, r, X)'
            \/ pc' = "below" /\ MergingBelow(F, r, X)'
         /\ call'.op = call.op
<1>1. UNCHANGED <<code, live>> /\ pc = "merge" /\ call \in Locals
  BY DEF Merge, TypeOK
<1>2. Inner(F, r, X) /\ Break /\ Shape(F, r, X \cup {call.block})
      /\ call.temp \in F /\ F # {} /\ call.block \in X \cup {call.block}
  BY DEF Merging, Inner, Freed, Idle, Calm
<1>3. mem' = mem /\ head' = head
  BY <1>1, SameCalm
<1>4. End(call.temp) = call.temp + mem[call.temp] /\ End(call.block) = call.block + mem[call.block]
  BY <1>2, BlockFacts
<1>5. CASE /\ End(call.temp) = call.block
           /\ pc' = "above" /\ call' = [call EXCEPT !.temp2 = head]
  <2>1. /\ call'.op = call.op /\ call'.ptr = call.ptr /\ call'.block = call.block
        /\ call'.temp = call.temp /\ call'.temp2 = head
    BY <1>1, <1>5 DEF Locals
  <2>2. Inner(F, r, X)'
    BY <1>1, <1>2, <2>1, SameInner
  <2>3. head \in F /\ \A x \in F : ~Passed(r, head, x)
    BY <1>2, SearchFacts
  <2> QED
    BY <1>2, <1>3, <1>4, <1>5, <2>1, <2>2, <2>3 DEF MergingAbove, BelowIt
<1>6. CASE /\ End(call.temp) # call.block /\ End(call.block) = call.temp
           /\ pc' = "below" /\ call' = [call EXCEPT !.temp2 = head]
  <2>1. /\ call'.op = call.op /\ call'.ptr = call.ptr /\ call'.block = call.block
        /\ call'.temp = call.temp /\ call'.temp2 = head
    BY <1>1, <1>6 DEF Locals
  <2>2. Inner(F, r, X)'
    BY <1>1, <1>2, <2>1, SameInner
  <2>3. head \in F /\ \A x \in F : ~Passed(r, head, x)
    BY <1>2, SearchFacts
  <2> QED
    BY <1>2, <1>3, <1>4, <1>6, <2>1, <2>2, <2>3 DEF MergingBelow, AboveIt
<1>7. CASE /\ End(call.temp) # call.block /\ End(call.block) # call.temp
           /\ pc' = pc /\ call' = [call EXCEPT !.temp = NextOf(call.temp)]
  <2>1. /\ call'.op = call.op /\ call'.ptr = call.ptr /\ call'.block = call.block
        /\ call'.temp = NextOf(call.temp)
    BY <1>1, <1>7 DEF Locals
  <2>2. Inner(F, r, X)'
    BY <1>1, <1>2, <2>1, SameInner
  <2>3. ~BelowIt(call.temp) /\ ~AboveIt(call.temp)
    BY <1>4, <1>7 DEF BelowIt, AboveIt
  <2>4. /\ NextOf(call.temp) \in F \cup {NULL}
        /\ \A x \in F : Passed(r, NextOf(call.temp), x) => ~BelowIt(x) /\ ~AboveIt(x)
    BY <1>2, <2>3, SearchFacts DEF Merging
  <2>5. \A x \in F : (BelowIt(x) <=> BelowIt(x)') /\ (AboveIt(x) <=> AboveIt(x)')
    BY <1>3, <2>1 DEF BelowIt, AboveIt
  <2> QED
    BY <1>1, <1>2, <1>7, <2>1, <2>2, <2>4, <2>5 DEF Merging
<1> QED
  BY <1>5, <1>6, <1>7 DEF Merge

\* The search for a block above goes on (alloc.c:241-274).
LEMMA AboveSearch ==
  ASSUME TypeOK, NEW F, NEW r, NEW X, MergingAbove(F, r, X), Above,
         call.temp2 # End(call.block), NextOf(call.temp2) # NULL
  PROVE  pc' = "above" /\ MergingAbove(F, r, X)' /\ call'.op = call.op
<1>1. /\ UNCHANGED <<code, live, pc>> /\ pc = "above" /\ call \in Locals
      /\ call' = [call EXCEPT !.temp2 = NextOf(call.temp2)]
  BY DEF Above, TypeOK
<1>2. Inner(F, r, X) /\ Break /\ Shape(F, r, X \cup {call.block})
      /\ call.temp \in F /\ call.temp2 \in F /\ call.block \in X \cup {call.block}
  BY DEF MergingAbove, Inner, Freed, Idle, Calm
<1>3. mem' = mem
  BY <1>1, SameCalm
<1>4. /\ call'.op = call.op /\ call'.ptr = call.ptr /\ call'.block = call.block
      /\ call'.temp = call.temp /\ call'.temp2 = NextOf(call.temp2)
  BY <1>1 DEF Locals
<1>5. Inner(F, r, X)'
  BY <1>1, <1>2, <1>4, SameInner
<1>6. ~AboveIt(call.temp2)
  <2>1. End(call.block) = call.block + mem[call.block]
    BY <1>2, BlockFacts
  <2> QED
    BY <2>1 DEF AboveIt
<1>7. /\ NextOf(call.temp2) \in F
      /\ \A x \in F : Passed(r, NextOf(call.temp2), x) => ~AboveIt(x)
  BY <1>2, <1>6, SearchFacts DEF MergingAbove
<1>8. \A x \in F : (BelowIt(x) <=> BelowIt(x)') /\ (AboveIt(x) <=> AboveIt(x)')
  BY <1>3, <1>4 DEF BelowIt, AboveIt
<1>9. BelowIt(call.temp)
  BY DEF MergingAbove
<1> QED
  BY <1>1, <1>2, <1>3, <1>4, <1>5, <1>7, <1>8, <1>9 DEF MergingAbove

\* The search for a block below goes on (alloc.c:290-327).
LEMMA BelowSearch ==
  ASSUME TypeOK, NEW F, NEW r, NEW X, MergingBelow(F, r, X), Below,
         call.temp2 # NULL, End(call.temp2) # call.block
  PROVE  pc' = "below" /\ MergingBelow(F, r, X)' /\ call'.op = call.op
<1>1. /\ UNCHANGED <<code, live, pc>> /\ pc = "below" /\ call \in Locals
      /\ call' = [call EXCEPT !.temp2 = NextOf(call.temp2)]
  BY DEF Below, TypeOK
<1>2. Inner(F, r, X) /\ Break /\ Shape(F, r, X \cup {call.block})
      /\ call.temp \in F /\ call.temp2 \in F
  BY DEF MergingBelow, Inner, Freed, Idle, Calm
<1>3. mem' = mem
  BY <1>1, SameCalm
<1>4. /\ call'.op = call.op /\ call'.ptr = call.ptr /\ call'.block = call.block
      /\ call'.temp = call.temp /\ call'.temp2 = NextOf(call.temp2)
  BY <1>1 DEF Locals
<1>5. Inner(F, r, X)'
  BY <1>1, <1>2, <1>4, SameInner
<1>6. ~BelowIt(call.temp2)
  <2>1. End(call.temp2) = call.temp2 + mem[call.temp2]
    BY <1>2, BlockFacts
  <2> QED
    BY <2>1 DEF BelowIt
<1>7. /\ NextOf(call.temp2) \in F \cup {NULL}
      /\ \A x \in F : Passed(r, NextOf(call.temp2), x) => ~BelowIt(x)
  BY <1>2, <1>6, SearchFacts DEF MergingBelow
<1>8. \A x \in F : (BelowIt(x) <=> BelowIt(x)') /\ (AboveIt(x) <=> AboveIt(x)')
  BY <1>3, <1>4 DEF BelowIt, AboveIt
<1>9. AboveIt(call.temp)
  BY DEF MergingBelow
<1> QED
  BY <1>1, <1>2, <1>3, <1>4, <1>5, <1>7, <1>8, <1>9 DEF MergingBelow

\* The search for the block before the one to take goes on (alloc.c:118-134).
LEMMA UnlinkSearch ==
  ASSUME TypeOK, NEW F, NEW r, NEW X, Unlinking(F, r, X), Unlink,
         NextOf(call.temp) # call.block
  PROVE  pc' = "unlink" /\ Unlinking(F, r, X)' /\ call'.op = call.op
<1>1. /\ UNCHANGED <<code, live>> /\ pc = "unlink" /\ call \in Locals
      /\ call' = [call EXCEPT !.temp = NextOf(call.temp)]
      /\ pc' = IF NextOf(call.temp) = NULL THEN "return" ELSE pc
  BY DEF Unlink, TypeOK, code
<1>2. /\ Idle(F, r, X \cup {Subseq}) /\ Break /\ Shape(F, r, X \cup {Subseq}) /\ Requesting
      /\ call.temp \in F /\ call.block \in F /\ r[call.temp] > r[call.block]
  BY DEF Unlinking, Idle, Calm
<1>3. /\ call'.op = call.op /\ call'.ptr = call.ptr /\ call'.len = call.len
      /\ call'.total = call.total /\ call'.prev_size = call.prev_size
      /\ call'.block = call.block /\ call'.size_diff = call.size_diff
      /\ call'.temp = NextOf(call.temp)
  BY <1>1 DEF Locals
<1>4. /\ mem' = mem /\ head' = head /\ brk' = brk /\ live' = live /\ Top' = Top
      /\ Break' /\ Filled(mem, live)'
  BY <1>1, <1>2, SameCalm DEF Idle
<1>5. Requesting'
  BY <1>2, <1>3, <1>4, SameRequest
<1>6. Subseq' = Subseq
  BY <1>3 DEF Subseq
<1>7. Idle(F, r, X \cup {Subseq})'
  BY <1>2, <1>4, <1>6 DEF Idle, Calm, Shape, Apart, NoneLast
<1>8. /\ NextOf(call.temp) \in F /\ r[NextOf(call.temp)] > r[call.block]
      /\ NextOf(call.temp) # NULL
  <2>1. /\ F \subseteq Nat \ {0} /\ Chain(mem, head, F, r) /\ NextOf(call.temp) = mem[call.temp + 1]
    BY <1>2, SearchFacts
  <2> DEFINE t == call.temp
  <2>2. t \in F /\ call.block \in F /\ r[t] > r[call.block] /\ NextOf(t) = mem[t + 1]
    BY <1>2, <2>1
  <2> HIDE DEF t
  <2>3. mem[t + 1] \in F \cup {NULL} /\ mem[t + 1] # NULL
        /\ (call.block = mem[t + 1] \/ r[mem[t + 1]] > r[call.block])
    BY <2>1, <2>2, NextSearch
  <2>4. NextOf(t) # call.block
    BY DEF t
  <2>5. NextOf(t) \in F /\ r[NextOf(t)] > r[call.block] /\ NextOf(t) # NULL
    BY <2>2, <2>3, <2>4
  <2> QED
    BY <2>5 DEF t
<1> QED
  BY <1>1, <1>2, <1>3, <1>4, <1>5, <1>6, <1>7, <1>8 DEF Unlinking

\* Where there is a block, the blocks end at block_end.
LEMMA TopIsEnd ==
  ASSUME TypeOK, NEW F, NEW r, NEW X, Break, Shape(F, r, X),
         NEW h \in F \cup Used(live) \cup X
  PROVE  Top = block_end
<1>1. h >= First /\ h \in Nat /\ mem[h] \in Nat /\ mem[h] >= 3 /\ h + mem[h] <= Top /\ First \in Nat
  BY BlockFacts
<1>2. Top # First
  BY <1>1
<1> QED
  BY <1>2 DEF Top

\* The loop that trims finds nothing while the freed block ends elsewhere.
LEMMA TrimSearchInner ==
  ASSUME TypeOK, NEW F, NEW r, NEW X, TrimmingInner(F, r, X), ~call.return_flag, Trim
  PROVE  /\ pc' = "trim" /\ TrimmingInner(F, r, X)' /\ ~call'.return_flag
         /\ call'.op = call.op
<1>1. Inner(F, r, X) /\ Break /\ Shape(F, r, X \cup {call.block}) /\ NoneLast(F)
      /\ call.temp \in F /\ call \in Locals
  BY DEF TrimmingInner, Inner, Freed, Idle, Calm, TypeOK, Trim
<1>2. End(call.temp) # block_end
  <2>1. End(call.temp) = call.temp + mem[call.temp] /\ Top = block_end
    BY <1>1, SearchFacts, TopIsEnd
  <2> QED
    BY <1>1, <2>1 DEF NoneLast
<1>3. UNCHANGED <<code, live, pc>> /\ call' = [call EXCEPT !.temp = NextOf(call.temp)]
  BY <1>2 DEF Trim, code
<1>4. /\ call'.op = call.op /\ call'.ptr = call.ptr /\ call'.block = call.block
      /\ call'.return_flag = call.return_flag /\ call'.temp = NextOf(call.temp)
  BY <1>1, <1>3 DEF Locals
<1>5. Inner(F, r, X)'
  BY <1>1, <1>3, <1>4, SameInner
<1>6. NextOf(call.temp) \in F \cup {NULL}
  BY <1>1, SearchFacts
<1> QED
  BY <1>3, <1>4, <1>5, <1>6 DEF Trim, TrimmingInner

\* It goes on when a listed block is not the last one now.
LEMMA TrimSearchLast ==
  ASSUME TypeOK, NEW F, NEW r, NEW X, TrimmingLast(F, r, X), call.return_flag, Trim,
         End(call.temp) # block_end
  PROVE  /\ pc' = "trim" /\ TrimmingLast(F, r, X)' /\ call'.return_flag
         /\ call'.op = call.op
<1>1. Break /\ Shape(F, r, X) /\ Calm(F, r, X)
      /\ call.temp \in F /\ call \in Locals
  BY DEF TrimmingLast, Calm, TypeOK, Trim
<1>2. UNCHANGED <<code, live, pc>> /\ call' = [call EXCEPT !.temp = NextOf(call.temp)]
  BY DEF Trim, code
<1>3. /\ call'.op = call.op /\ call'.ptr = call.ptr
      /\ call'.return_flag = call.return_flag /\ call'.temp = NextOf(call.temp)
  BY <1>1, <1>2 DEF Locals
<1>4. /\ mem' = mem /\ head' = head /\ Top' = Top /\ available_memory' = available_memory
      /\ Calm(F, r, X)' /\ Filled(mem, live)'
  BY <1>1, <1>2, SameCalm DEF TrimmingLast
<1>5. call.temp + mem[call.temp] # Top
  BY <1>1, SearchFacts, TopIsEnd
<1>6. /\ NextOf(call.temp) \in F \cup {NULL}
      /\ \A x \in F : Passed(r, NextOf(call.temp), x) => x + mem[x] # Top
  BY <1>1, <1>5, SearchFacts DEF TrimmingLast
<1>7. FreesLast(F, Top)'
  BY <1>4 DEF TrimmingLast, FreesLast
<1> QED
  BY <1>2, <1>3, <1>4, <1>6, <1>7 DEF Trim, TrimmingLast

-----------------------------------------------------------------------------
(***************************************************************************)
(* Listing the block that was freed                                        *)
(***************************************************************************)
\* No field of one block is a field of another.
LEMMA FieldsApart ==
  ASSUME TypeOK, NEW F, NEW r, NEW X, Break, Shape(F, r, X),
         NEW h \in F \cup Used(live) \cup X, NEW k \in F \cup Used(live) \cup X, h # k
  PROVE  /\ h # k + 1 /\ h # k + 2 /\ h + 1 # k /\ h + 1 # k + 1 /\ h + 1 # k + 2
         /\ h + 2 # k /\ h + 2 # k + 1 /\ h + 2 # k + 2
<1>1. /\ h \in Nat /\ k \in Nat /\ mem[h] \in Nat /\ mem[k] \in Nat /\ mem[h] >= 3 /\ mem[k] >= 3
      /\ h + mem[h] <= k \/ k + mem[k] <= h
  BY BlockFacts
<1> QED
  BY <1>1

\* The block is listed: with it, G are the blocks of the list.
LEMMA FreeIdle ==
  ASSUME TypeOK, NEW F, NEW r, NEW X, NEW c,
         Idle(F, r, X \cup {c}), c \notin X,
         UNCHANGED <<block_end, available_memory, brk, refused, live>>,
         NEW G, NEW q, G \subseteq F \cup {c},
         Chain(mem', head', G, q),
         Tiles(mem', G \cup Used(live) \cup X, Top),
         Within(mem, mem', Top, F \cup {c}),
         \A x \in G : x + mem'[x] # Top /\ \A y \in G : x + mem'[x] # y
  PROVE  Idle(G, q, X)'
<1>1. Break /\ Shape(F, r, X \cup {c}) /\ Filled(mem, live)
  BY DEF Idle, Calm
<1>2. Top' = Top /\ live' = live
  BY DEF Top
<1>3. Break'
  BY <1>1, <1>2 DEF Break
<1> DEFINE Y == F \cup X \cup {c}
<1>4. /\ mem \in [Words -> Nat] /\ Top \in First .. Limit
      /\ live \subseteq [at : Nat \ {0}, len : Nat]
  BY <1>1, BlockFacts DEF TypeOK
<1>5. Y \cup Used(live) = F \cup Used(live) \cup (X \cup {c})
  OBVIOUS
<1>6. Tiles(mem, Y \cup Used(live), Top) /\ Used(live) \cap Y = {} /\ Holds(mem, live)
  BY <1>1, <1>5 DEF Shape
<1>7. Within(mem, mem', Top, Y)
  BY DEF Within
<1>8. Holds(mem', live) /\ Filled(mem', live)
  <2> DEFINE B == Y \cup Used(live)
  <2>1. Y \in SUBSET B /\ Used(live) \subseteq B \ Y /\ live \in SUBSET live
        /\ live \in SUBSET [at : Nat \ {0}, len : Nat] /\ Tiles(mem, B, Top)
    BY <1>4, <1>6
  <2> HIDE DEF B, Y
  <2>2. Holds(mem', live)
    BY <1>4, <1>6, <1>7, <2>1, LiveKept
  <2>3. Filled(mem', live)
    BY <1>1, <1>4, <1>6, <1>7, <2>1, LiveKept
  <2> QED
    BY <2>2, <2>3
<1>9. /\ G \cap Used(live) = {} /\ G \cap X = {} /\ Used(live) \cap X = {}
  BY <1>1 DEF Shape
<1>10. Shape(G, q, X)'
  BY <1>2, <1>8, <1>9 DEF Shape
<1> QED
  BY <1>2, <1>3, <1>8, <1>10 DEF Idle, Calm, Apart, NoneLast

\* What the search knows of the freed block c.
LEMMA FreedFacts ==
  ASSUME TypeOK, NEW F, NEW r, NEW X, Freed(F, r, X)
  PROVE  /\ Idle(F, r, X \cup {call.block}) /\ Break /\ Shape(F, r, X \cup {call.block})
         /\ F \subseteq Nat \ {0} /\ Chain(mem, head, F, r)
         /\ call.block \in Nat \ {0} /\ call.block \notin F /\ call.block \notin X
         /\ call.block \notin Used(live)
         /\ head \in Nat /\ (head = NULL <=> F = {}) /\ head \in F \cup {NULL}
         /\ \A x, y \in F : x + mem[x] # y
         /\ \A x \in F : x + mem[x] # Top
<1>1. Idle(F, r, X \cup {call.block}) /\ Break /\ Shape(F, r, X \cup {call.block})
      /\ call.block \notin X
  BY DEF Freed, Idle, Calm
<1>2. F \subseteq Nat \ {0} /\ Chain(mem, head, F, r) /\ (head = NULL <=> F = {})
      /\ head \in F \cup {NULL}
  BY <1>1, SearchFacts
<1>3. call.block \in Nat \ {0}
  BY <1>1, BlockFacts
<1>4. call.block \notin F /\ call.block \notin Used(live)
  BY <1>1 DEF Shape
<1>5. /\ \A x, y \in F : x + mem[x] # y
      /\ \A x \in F : x + mem[x] # Top
  BY <1>1 DEF Idle, Calm, Apart, NoneLast
<1>6. head \in Nat
  BY DEF TypeOK
<1> QED
  BY <1>1, <1>2, <1>3, <1>4, <1>5, <1>6

\* The block c becomes the head of the list: its neighbours are not listed.
LEMMA ListsFirst ==
  ASSUME TypeOK, NEW F, NEW r, NEW X, NEW c, c = call.block, Freed(F, r, X),
         \A x \in F : ~BelowIt(x) /\ ~AboveIt(x),
         c + mem[c] # Top,
         mem' \in [Words -> Nat],
         \A w \in Words : mem'[w] = IF F # {} /\ w = head + 2 THEN c
                                    ELSE IF w = c + 1 THEN head ELSE mem[w],
         head' = c,
         UNCHANGED <<block_end, available_memory, brk, refused, live>>
  PROVE  \E G, q : Idle(G, q, X)'
<1> DEFINE B == F \cup Used(live) \cup (X \cup {c})
           G == F \cup {c}
           q == Pushed(r, head, F, c)
<1>1. /\ Idle(F, r, X \cup {c}) /\ Break /\ Shape(F, r, X \cup {c})
      /\ F \subseteq Nat \ {0} /\ Chain(mem, head, F, r)
      /\ c \in Nat \ {0} /\ c \notin F /\ c \notin X /\ c \notin Used(live)
      /\ head \in Nat /\ (head = NULL <=> F = {}) /\ head \in F \cup {NULL}
      /\ \A x, y \in F : x + mem[x] # y
      /\ \A x \in F : x + mem[x] # Top
  BY FreedFacts
<1>2. \A h \in B : /\ h \in Words /\ h + 1 \in Words /\ h + 2 \in Words /\ h \in Nat
                   /\ mem[h] \in Nat /\ mem[h] >= 3
  BY <1>1, BlockFacts
<1>3. \A h, k \in B : h # k => /\ h # k + 1 /\ h # k + 2 /\ h + 1 # k /\ h + 1 # k + 1
                               /\ h + 1 # k + 2 /\ h + 2 # k /\ h + 2 # k + 1 /\ h + 2 # k + 2
  BY <1>1, FieldsApart
<1>4. c \in B /\ F \subseteq B /\ (F # {} => head \in F)
  BY <1>1
<1> HIDE DEF B
<1>5. \A h \in B : mem'[h] = mem[h]
  <2> TAKE h \in B
  <2>1. h # c + 1
    BY <1>2, <1>3, <1>4
  <2>2. F # {} => h # head + 2
    BY <1>2, <1>3, <1>4
  <2> QED
    BY <1>2, <2>1, <2>2
<1>6. Chain(mem', head', G, q)
  <2>1. mem'[c + 1] = head
    BY <1>1, <1>2, <1>3, <1>4
  <2>2. F # {} => mem'[head + 2] = c
    BY <1>2, <1>4
  <2>3. ASSUME NEW y \in F
        PROVE  mem'[y + 1] = mem[y + 1] /\ (y # head => mem'[y + 2] = mem[y + 2])
    <3>1. y \in B /\ y # c /\ head \in F /\ head \in B
      BY <1>1, <1>4
    <3>2. y + 1 # c + 1 /\ y + 1 # head + 2 /\ y + 2 # c + 1 /\ (y # head => y + 2 # head + 2)
      BY <1>2, <1>3, <1>4, <3>1
    <3> QED
      BY <1>2, <3>1, <3>2
  <2> HIDE DEF G, q
  <2>4. /\ Chain(mem, head, F, r) /\ F \subseteq Nat \ {0} /\ c \in Nat \ {0} /\ c \notin F
    BY <1>1
  <2>5. Chain(mem', c, F \cup {c}, Pushed(r, head, F, c))
    BY ONLY <2>1, <2>2, <2>3, <2>4, ChainPush, ZenonT(40)
  <2> QED
    BY <2>5 DEF G, q
<1>7. Tiles(mem', G \cup Used(live) \cup X, Top)
  <2>1. G \cup Used(live) \cup X = B
    BY DEF B
  <2>2. Tiles(mem, B, Top)
    BY <1>1 DEF Shape, B
  <2> QED
    BY <1>5, <2>1, <2>2, TilesSame
<1>8. Within(mem, mem', Top, F \cup {c})
  <2> SUFFICES ASSUME NEW w \in Words, mem'[w] # mem[w]
               PROVE  \E x \in F \cup {c} : x <= w /\ w < x + mem[x]
    BY DEF Within
  <2>1. CASE F # {} /\ w = head + 2
    <3>1. head \in F /\ head <= w /\ w < head + mem[head]
      BY <1>1, <1>2, <1>4, <2>1
    <3> QED
      BY <3>1
  <2>2. CASE w = c + 1
    <3>1. c <= w /\ w < c + mem[c]
      BY <1>1, <1>2, <1>4, <2>2
    <3> QED
      BY <3>1
  <2> QED
    BY <2>1, <2>2
<1>9. ASSUME NEW x \in G
      PROVE  x + mem'[x] # Top /\ \A y \in G : x + mem'[x] # y
  <2>1. mem'[x] = mem[x] /\ x \in B
    BY <1>4, <1>5
  <2>2. CASE x = c
    <3>1. \A y \in F : c + mem[c] # y
      BY DEF AboveIt
    <3>2. c + mem[c] # c
      BY <1>1, <1>2, <1>4
    <3> QED
      BY <2>1, <2>2, <3>1, <3>2
  <2>3. CASE x \in F
    <3>1. x + mem[x] # c
      BY <2>3 DEF BelowIt
    <3> QED
      BY <1>1, <2>1, <2>3, <3>1
  <2> QED
    BY <2>2, <2>3
<1>10. \E g, s : g = G /\ s = q
  OBVIOUS
<1>11. PICK g, s : g = G /\ s = q
  BY <1>10
<1> HIDE DEF q
<1>12. Idle(g, s, X)'
  <2>1. g \subseteq F \cup {c}
    BY <1>11 DEF G
  <2> HIDE DEF G
  <2>2. Idle(F, r, X \cup {c}) /\ c \notin X
    BY <1>1
  <2>3. UNCHANGED <<block_end, available_memory, brk, refused, live>>
    OBVIOUS
  <2>4. Chain(mem', head', g, s)
    BY <1>6, <1>11
  <2>5. Tiles(mem', g \cup Used(live) \cup X, Top)
    BY <1>7, <1>11
  <2>6. \A x \in g : x + mem'[x] # Top /\ \A y \in g : x + mem'[x] # y
    BY <1>9, <1>11
  <2> QED
    BY ONLY TypeOK, <2>1, <2>2, <2>3, <2>4, <2>5, <2>6, <1>8, FreeIdle
<1> QED
  BY <1>12

\* A block with no listed neighbour becomes the head of the list.
LEMMA PushStep ==
  ASSUME TypeOK, NEW F, NEW r, NEW X, Merging(F, r, X), call.temp = NULL, Push
  PROVE  \E G, q : Idle(G, q, X)'
<1> DEFINE c == call.block
           m1 == Write(mem, Next_(c), head)
           m2 == Write(m1, Prev_(head), c)
<1>1. /\ Freed(F, r, X) /\ F # {} /\ c + mem[c] # Top
      /\ \A x \in F : ~BelowIt(x) /\ ~AboveIt(x)
  BY DEF Merging, Inner, Passed
<1>2. /\ Break /\ Shape(F, r, X \cup {c}) /\ head \in F /\ c \in Nat \ {0} /\ head \in Nat
  BY <1>1, FreedFacts
<1>3. c + 1 \in Words /\ head + 2 \in Words /\ mem \in [Words -> Nat]
  BY <1>2, BlockFacts
<1>4. mem' = m2 /\ head' = c /\ UNCHANGED <<block_end, available_memory, brk, refused, live>>
  BY DEF Push, Free
<1>5. Wrote(mem, m1, c + 1, head)
  BY <1>2, <1>3, WriteIn DEF Next_
<1> HIDE DEF m1, c
<1>6. Wrote(m1, m2, head + 2, c)
  <2>1. m1 \in [Words -> Nat]
    BY <1>5 DEF Wrote
  <2> QED
    BY <1>2, <1>3, <2>1, WriteIn DEF Prev_
<1> HIDE DEF m2
<1>7. \A w \in Words : mem'[w] = IF F # {} /\ w = head + 2 THEN c
                                 ELSE IF w = c + 1 THEN head ELSE mem[w]
  BY <1>1, <1>4, <1>5, <1>6 DEF Wrote
<1>8. mem' \in [Words -> Nat]
  BY <1>4, <1>6 DEF Wrote
<1> QED
  BY <1>1, <1>4, <1>7, <1>8, ListsFirst DEF c

\* The loop that trims is over.
LEMMA TrimmedStep ==
  ASSUME TypeOK, NEW F, NEW r, NEW X, Trimmed,
         \/ call.return_flag /\ TrimmingLast(F, r, X)
         \/ ~call.return_flag /\ TrimmingInner(F, r, X)
  PROVE  \/ pc' = "idle" /\ call' = NoCall /\ \E G, q : Idle(G, q, X)'
         \/ pc' = "merge" /\ call'.op = call.op /\ Merging(F, r, X)'
<1>1. CASE call.return_flag
  <2>1. TrimmingLast(F, r, X) /\ Calm(F, r, X) /\ Filled(mem, live)
    BY <1>1 DEF TrimmingLast
  <2>2. UNCHANGED <<code, live>> /\ pc' = "idle" /\ call' = NoCall /\ call.temp = NULL
    BY <1>1 DEF Trimmed, code
  <2>3. Idle(F, r, X)
    BY <2>1, <2>2 DEF TrimmingLast, Idle, NoneLast, Passed
  <2>4. Idle(F, r, X)'
    BY <2>2, <2>3, SameCalm
  <2> QED
    BY <2>2, <2>4
<1>2. CASE ~call.return_flag /\ head = NULL
  <2> DEFINE c == call.block
  <2>1. Inner(F, r, X) /\ Freed(F, r, X) /\ c + mem[c] # Top
    BY <1>2 DEF TrimmingInner, Inner
  <2>2. F = {} /\ Break /\ Shape(F, r, X \cup {c}) /\ c \in Nat \ {0}
    BY <1>2, <2>1, FreedFacts
  <2>3. c + 1 \in Words /\ mem \in [Words -> Nat]
    BY <2>2, BlockFacts
  <2>4. /\ mem' = Write(mem, Next_(c), NULL) /\ head' = c /\ pc' = "idle" /\ call' = NoCall
        /\ UNCHANGED <<block_end, available_memory, brk, refused, live>>
    BY <1>2 DEF Trimmed
  <2> HIDE DEF c
  <2>5. mem' \in [Words -> Nat] /\ \A w \in Words : mem'[w] = IF w = c + 1 THEN head ELSE mem[w]
    <3>1. Wrote(mem, mem', c + 1, head)
      BY <1>2, <2>3, <2>4, WriteIn DEF Next_, NULL
    <3> QED
      BY <3>1 DEF Wrote
  <2>6. \E G, q : Idle(G, q, X)'
    <3>1. \A w \in Words : mem'[w] = IF F # {} /\ w = head + 2 THEN c
                                 ELSE IF w = c + 1 THEN head ELSE mem[w]
      BY <2>2, <2>5
    <3>2. \A x \in F : ~BelowIt(x) /\ ~AboveIt(x)
      BY <2>2
    <3> QED
      BY <2>1, <2>4, <2>5, <3>1, <3>2, ListsFirst DEF c
  <2> QED
    BY <2>4, <2>6
<1>3. CASE ~call.return_flag /\ head # NULL
  <2>1. Inner(F, r, X) /\ Freed(F, r, X) /\ call \in Locals
    BY <1>3 DEF TrimmingInner, Inner, TypeOK
  <2>2. /\ UNCHANGED <<code, live>> /\ pc' = "merge" /\ call' = [call EXCEPT !.temp = head]
    BY <1>3 DEF Trimmed, code
  <2>3. /\ call'.op = call.op /\ call'.ptr = call.ptr /\ call'.block = call.block
        /\ call'.temp = head
    BY <2>1, <2>2 DEF Locals
  <2>4. Inner(F, r, X)'
    BY <2>1, <2>2, <2>3, SameInner
  <2>5. Break /\ Shape(F, r, X \cup {call.block}) /\ F # {} /\ head \in F
    BY <1>3, <2>1, FreedFacts
  <2>6. \A x \in F : ~Passed(r, head, x)
    BY <2>5, SearchFacts
  <2> QED
    BY <2>2, <2>3, <2>4, <2>5, <2>6 DEF Merging
<1> QED
  BY <1>1, <1>2, <1>3

-----------------------------------------------------------------------------
(***************************************************************************)
(* Merging the block that was freed                                        *)
(***************************************************************************)
\* The block c that is freed and the listed ones, as blocks of one tiling.
LEMMA FreedBlocks ==
  ASSUME TypeOK, NEW F, NEW r, NEW X, NEW c, c = call.block, Freed(F, r, X),
         NEW B, B = F \cup Used(live) \cup (X \cup {c})
  PROVE  /\ F \subseteq B /\ c \in B /\ Tiles(mem, B, Top) /\ Top \in Nat
         /\ B \ {c} = F \cup Used(live) \cup X
         /\ \A h \in B : /\ h \in Words /\ h + 1 \in Words /\ h + 2 \in Words
                         /\ h \in Nat \ {0} /\ mem[h] \in Nat /\ mem[h] >= 3
                         /\ mem[h + 1] \in Nat /\ mem[h + 2] \in Nat
         /\ \A h, k \in B : h # k => /\ h # k + 1 /\ h # k + 2 /\ h + 1 # k /\ h + 1 # k + 1
                                     /\ h + 1 # k + 2 /\ h + 2 # k /\ h + 2 # k + 1
                                     /\ h + 2 # k + 2
<1>1. Break /\ Shape(F, r, X \cup {c}) /\ c \notin F /\ c \notin X /\ c \notin Used(live)
  BY FreedFacts
<1>2. F \subseteq B /\ c \in B /\ B \ {c} = F \cup Used(live) \cup X
  BY <1>1
<1>3. Tiles(mem, B, Top) /\ Top \in Nat
  <2>1. Tiles(mem, B, Top)
    BY <1>1 DEF Shape
  <2>2. Top \in Nat
    BY <1>1, ConstantTypes DEF Break
  <2> QED
    BY <2>1, <2>2
<1>4. \A h \in B : /\ h \in Words /\ h + 1 \in Words /\ h + 2 \in Words
                   /\ h \in Nat \ {0} /\ mem[h] \in Nat /\ mem[h] >= 3
  BY <1>1, BlockFacts
<1>5. \A h \in B : mem[h + 1] \in Nat /\ mem[h + 2] \in Nat
  BY <1>4 DEF TypeOK
<1>6. \A h, k \in B : h # k => /\ h # k + 1 /\ h # k + 2 /\ h + 1 # k /\ h + 1 # k + 1
                               /\ h + 1 # k + 2 /\ h + 2 # k /\ h + 2 # k + 1 /\ h + 2 # k + 2
  BY <1>1, FieldsApart
<1> QED
  BY <1>2, <1>3, <1>4, <1>5, <1>6

\* A listed block l grows over c.
LEMMA MergesAbove ==
  ASSUME TypeOK, NEW F, NEW r, NEW X, NEW c, c = call.block, Freed(F, r, X),
         NEW l \in F, l + mem[l] = c,
         \A x \in F : ~AboveIt(x),
         c + mem[c] # Top,
         Wrote(mem, mem', l, mem[l] + mem[c]),
         head' = head,
         UNCHANGED <<block_end, available_memory, brk, refused, live>>
  PROVE  Idle(F, r, X)'
<1>1. /\ Idle(F, r, X \cup {c}) /\ c \notin F /\ c \notin X /\ Chain(mem, head, F, r)
  BY FreedFacts
<1>2. /\ \A x, y \in F : x + mem[x] # y
      /\ \A x \in F : x + mem[x] # Top
  BY FreedFacts
<1>3. PICK B : B = F \cup Used(live) \cup (X \cup {c})
  OBVIOUS
<1>4. /\ F \subseteq B /\ c \in B /\ Tiles(mem, B, Top) /\ Top \in Nat
      /\ B \ {c} = F \cup Used(live) \cup X
  BY <1>3, FreedBlocks
<1>5. \A h \in B : /\ h \in Words /\ h + 1 \in Words /\ h + 2 \in Words
                   /\ h \in Nat /\ mem[h] \in Nat /\ mem[h] >= 3
  BY <1>3, FreedBlocks
<1>6. \A h, k \in B : h # k => l # h + 1 /\ k # h + 1 /\ k # h + 2
  BY <1>3, FreedBlocks
<1>7. \A h \in B : h # l => mem'[h] = mem[h]
  BY <1>5 DEF Wrote
<1>8. mem'[l] = mem[l] + mem[c]
  BY <1>4, <1>5 DEF Wrote
<1>9. \A h \in B : mem'[h + 1] = mem[h + 1] /\ mem'[h + 2] = mem[h + 2]
  <2> TAKE h \in B
  <2>1. l # h + 1 /\ l # h + 2
    BY <1>4, <1>5, <1>6
  <2> QED
    BY <1>5, <2>1 DEF Wrote
<1>10. Chain(mem', head', F, r)
  BY ONLY <1>1, <1>4, <1>9, ChainSame, head' = head
<1>11. Tiles(mem', F \cup Used(live) \cup X, Top)
  <2>1. l \in B /\ c \in B /\ l + mem[l] = c
    BY <1>4
  <2>2. Tiles(mem', B \ {c}, Top)
    BY ONLY <1>4, <1>7, <1>8, <2>1, TilesJoin
  <2> QED
    BY <1>4, <2>2
<1>12. Within(mem, mem', Top, F \cup {c})
  <2> SUFFICES ASSUME NEW w \in Words, mem'[w] # mem[w]
               PROVE  \E x \in F \cup {c} : x <= w /\ w < x + mem[x]
    BY DEF Within
  <2>1. w = l
    BY DEF Wrote
  <2>2. l <= w /\ w < l + mem[l]
    BY <1>4, <1>5, <2>1
  <2> QED
    BY <2>2
<1>13. ASSUME NEW x \in F
       PROVE  x + mem'[x] # Top /\ \A y \in F : x + mem'[x] # y
  <2>1. CASE x = l
    <3>1. l + mem'[l] = c + mem[c]
      BY <1>4, <1>5, <1>8
    <3> QED
      BY <2>1, <3>1 DEF AboveIt
  <2>2. CASE x # l
    BY <1>2, <1>4, <1>7, <2>2
  <2> QED
    BY <2>1, <2>2
<1>14. F \subseteq F \cup {c}
  OBVIOUS
<1> QED
  BY ONLY TypeOK, <1>1, <1>10, <1>11, <1>12, <1>13, <1>14, FreeIdle,
          UNCHANGED <<block_end, available_memory, brk, refused, live>>

\* The listed block below grows over the freed one.
LEMMA MergeAboveStep ==
  ASSUME TypeOK, NEW F, NEW r, NEW X, MergingAbove(F, r, X),
         call.temp2 # End(call.block), NextOf(call.temp2) = NULL, MergeAbove
  PROVE  Idle(F, r, X)'
<1> DEFINE c == call.block
           l == call.temp
<1>1. /\ Freed(F, r, X) /\ l \in F /\ l + mem[l] = c /\ c + mem[c] # Top
      /\ call.temp2 \in F /\ \A x \in F : Passed(r, call.temp2, x) => ~AboveIt(x)
  BY DEF MergingAbove, Inner, BelowIt
<1>2. Break /\ Shape(F, r, X \cup {c})
  BY <1>1, FreedFacts
<1>3. End(c) = c + mem[c] /\ SizeOf(l) = mem[l] /\ SizeOf(c) = mem[c] /\ l \in Words
      /\ mem[l] \in Nat /\ mem[c] \in Nat /\ mem \in [Words -> Nat]
  BY <1>1, <1>2, BlockFacts
<1>4. \A x \in F : ~AboveIt(x)
  <2>1. ~AboveIt(call.temp2)
    BY <1>3 DEF AboveIt
  <2>2. \A x \in F : x = call.temp2 \/ Passed(r, call.temp2, x)
    BY <1>1, <1>2, SearchFacts
  <2> QED
    BY <1>1, <2>1, <2>2
<1>5. Wrote(mem, mem', l, mem[l] + mem[c])
  BY <1>3, WriteIn DEF MergeAbove, Free
<1>6. head' = head /\ UNCHANGED <<block_end, available_memory, brk, refused, live>>
  BY DEF MergeAbove, Free
<1> QED
  BY <1>1, <1>4, <1>5, <1>6, MergesAbove

\* The block c takes the place of the listed block u above it.
LEMMA MergesBelow ==
  ASSUME TypeOK, NEW F, NEW r, NEW X, NEW c, c = call.block, Freed(F, r, X),
         NEW u \in F, c + mem[c] = u, mem[u + 1] = NULL,
         \A x \in F : ~BelowIt(x),
         mem' \in [Words -> Nat],
         \A w \in Words : mem'[w] = IF u # head /\ w = mem[u + 2] + 1 THEN c
                                    ELSE IF w = c + 2 THEN mem[u + 2]
                                    ELSE IF w = c + 1 THEN NULL
                                    ELSE IF w = c THEN mem[c] + mem[u] ELSE mem[w],
         head' = IF u = head THEN c ELSE head,
         UNCHANGED <<block_end, available_memory, brk, refused, live>>
  PROVE  \E G, q : Idle(G, q, X)'
<1>1. /\ Idle(F, r, X \cup {c}) /\ c \notin F /\ c \notin X /\ c \notin Used(live)
      /\ Chain(mem, head, F, r)
  BY FreedFacts
<1>2. /\ \A x, y \in F : x + mem[x] # y
      /\ \A x \in F : x + mem[x] # Top
  BY FreedFacts
<1>3. PICK B : B = F \cup Used(live) \cup (X \cup {c})
  OBVIOUS
<1>4. /\ F \subseteq B /\ c \in B /\ Tiles(mem, B, Top) /\ Top \in Nat
      /\ B \ {c} = F \cup Used(live) \cup X
  BY <1>3, FreedBlocks
<1>5. \A h \in B : /\ h \in Words /\ h + 1 \in Words /\ h + 2 \in Words
                   /\ h \in Nat \ {0} /\ mem[h] \in Nat /\ mem[h] >= 3
  BY <1>3, FreedBlocks
<1>6. \A h, k \in B : h # k => /\ h # k + 1 /\ h # k + 2 /\ h + 1 # k + 1
                               /\ h + 1 # k + 2 /\ h + 2 # k + 1 /\ h + 2 # k + 2
  BY <1>3, FreedBlocks
<1>7. PICK p : p = mem[u + 2]
  OBVIOUS
<1>8. u # head => p \in F /\ p \in B /\ p # u /\ p # c /\ mem[p + 1] = u /\ p + 1 \in Words
  BY <1>1, <1>4, <1>5, <1>7 DEF Chain, NULL
<1>9. \A h \in B : h # c => mem'[h] = mem[h]
  <2> TAKE h \in B
  <2> HAVE h # c
  <2>1. h \in Words /\ h # c + 1 /\ h # c + 2
    BY <1>4, <1>5, <1>6
  <2>2. u # head => h # p + 1
    BY <1>5, <1>6, <1>8
  <2> QED
    BY <1>7, <2>1, <2>2
<1>10. mem'[c] = mem[c] + mem[u]
  <2>1. c \in Words /\ c # c + 1 /\ c # c + 2
    BY <1>4, <1>5
  <2>2. u # head => c # p + 1
    BY <1>4, <1>6, <1>8
  <2> QED
    BY <1>7, <2>1, <2>2
<1>11. mem'[c + 1] = NULL
  <2>1. c + 1 \in Words /\ c + 1 # c + 2
    BY <1>4, <1>5
  <2>2. u # head => c + 1 # p + 1
    BY <1>4, <1>6, <1>8
  <2> QED
    BY <1>7, <2>1, <2>2
<1>12. u # head => mem'[p + 1] = c /\ mem'[c + 2] = p
  <2>1. c + 2 \in Words
    BY <1>4, <1>5
  <2>2. u # head => c + 2 # p + 1
    BY <1>4, <1>6, <1>8
  <2> QED
    BY <1>7, <1>8, <2>1, <2>2
<1>13. ASSUME NEW y \in F \ {u}
       PROVE  /\ u = head \/ y # p => mem'[y + 1] = mem[y + 1]
              /\ mem'[y + 2] = mem[y + 2]
  <2>1. /\ y \in B /\ y # c /\ y + 1 \in Words /\ y + 2 \in Words
        /\ y + 1 # c /\ y + 1 # c + 1 /\ y + 1 # c + 2
        /\ y + 2 # c /\ y + 2 # c + 1 /\ y + 2 # c + 2
    BY <1>1, <1>3, FreedBlocks
  <2>2. u # head => y + 2 # p + 1 /\ (y # p => y + 1 # p + 1)
    BY <1>5, <1>6, <1>8, <2>1
  <2> QED
    BY <1>7, <2>1, <2>2
<1> DEFINE G == (F \ {u}) \cup {c}
<1>14. Chain(mem', head', G, Replaced(r, F, u, c))
  <2>1. /\ Chain(mem, head, F, r) /\ F \subseteq Nat \ {0} /\ c \in Nat \ {0} /\ c \notin F
    BY <1>1, <1>4, <1>5
  <2>2. mem'[c + 1] = mem[u + 1] /\ ~(mem[u + 1] # NULL)
    BY <1>11
  <2>3. u # head => mem'[mem[u + 2] + 1] = c /\ mem'[c + 2] = mem[u + 2]
    BY <1>7, <1>12
  <2>4. \A y \in F \ {u} : /\ (u = head \/ y # mem[u + 2]) => mem'[y + 1] = mem[y + 1]
                           /\ y # head /\ y # mem[u + 1] => mem'[y + 2] = mem[y + 2]
    BY <1>7, <1>13
  <2>5. Chain(mem', IF u = head THEN c ELSE head, (F \ {u}) \cup {c}, Replaced(r, F, u, c))
    BY ONLY u \in F, <2>1, <2>2, <2>3, <2>4, ChainReplace
  <2> QED
    BY <2>5
<1>15. Tiles(mem', G \cup Used(live) \cup X, Top)
  <2>1. Tiles(mem', B \ {u}, Top)
    <3>1. c \in B /\ u \in B /\ \A h \in B : h # c /\ h # u => mem'[h] = mem[h]
      BY <1>4, <1>9
    <3> QED
      BY ONLY c + mem[c] = u, <1>4, <1>10, <3>1, TilesJoin
  <2>2. B \ {u} = G \cup Used(live) \cup X
    <3>1. u \notin Used(live) /\ u \notin X
      BY <1>1 DEF Idle, Calm, Shape
    <3> QED
      BY <1>1, <1>3, <3>1
  <2> QED
    BY <2>1, <2>2
<1>16. Within(mem, mem', Top, F \cup {c})
  <2> SUFFICES ASSUME NEW w \in Words, mem'[w] # mem[w]
               PROVE  \E x \in F \cup {c} : x <= w /\ w < x + mem[x]
    BY DEF Within
  <2>1. CASE w = c \/ w = c + 1 \/ w = c + 2
    <3>1. c <= w /\ w < c + mem[c]
      BY <1>4, <1>5, <2>1
    <3> QED
      BY <3>1
  <2>2. CASE u # head /\ w = p + 1
    <3>1. p \in F /\ p <= w /\ w < p + mem[p]
      BY <1>5, <1>8, <2>2
    <3> QED
      BY <3>1
  <2> QED
    BY <1>7, <2>1, <2>2
<1>17. ASSUME NEW x \in G
       PROVE  x + mem'[x] # Top /\ \A y \in G : x + mem'[x] # y
  <2>1. CASE x = c
    <3>1. c + mem'[c] = u + mem[u]
      BY <1>4, <1>5, <1>10
    <3>2. u + mem[u] # c
      BY DEF BelowIt
    <3> QED
      BY <1>2, <2>1, <3>1, <3>2
  <2>2. CASE x # c
    <3>1. x \in F /\ mem'[x] = mem[x]
      BY <1>4, <1>9, <2>2
    <3>2. x + mem[x] # c
      BY <3>1 DEF BelowIt
    <3> QED
      BY <1>2, <3>1, <3>2
  <2> QED
    BY <2>1, <2>2
<1>18. PICK q : q = Replaced(r, F, u, c)
  OBVIOUS
<1>19. Idle(G, q, X)'
  <2>1. G \subseteq F \cup {c}
    OBVIOUS
  <2>2. Chain(mem', head', G, q)
    BY <1>14, <1>18
  <2>3. PICK g : g = G
    OBVIOUS
  <2>4. /\ g \subseteq F \cup {c} /\ Chain(mem', head', g, q)
        /\ Tiles(mem', g \cup Used(live) \cup X, Top)
        /\ \A x \in g : x + mem'[x] # Top /\ \A y \in g : x + mem'[x] # y
    BY <1>15, <1>17, <2>1, <2>2, <2>3
  <2>5. Idle(g, q, X)'
    BY ONLY TypeOK, <1>1, <1>16, <2>4, FreeIdle,
            UNCHANGED <<block_end, available_memory, brk, refused, live>>
  <2> QED
    BY <2>3, <2>5
<1> QED
  BY <1>19

\* The freed block grows over the listed one above and takes its place.
LEMMA MergeBelowStep ==
  ASSUME TypeOK, NEW F, NEW r, NEW X, MergingBelow(F, r, X),
         call.temp2 = NULL, MergeBelow
  PROVE  \E G, q : Idle(G, q, X)'
<1>1. PICK c, u : c = call.block /\ u = call.temp
  OBVIOUS
<1>2. /\ Freed(F, r, X) /\ FreesInner(F, c) /\ u \in F /\ c + mem[c] = u
      /\ \A x \in F : ~BelowIt(x)
  BY <1>1 DEF MergingBelow, Inner, AboveIt, Passed
<1>3. mem[u + 1] = NULL
  <2>1. \A l \in F : l + mem[l] # c
    BY <1>1, <1>2 DEF BelowIt
  <2> QED
    BY <1>2, <2>1 DEF FreesInner
<1>4. Chain(mem, head, F, r) /\ c \notin F
  BY <1>1, <1>2, FreedFacts
<1>5. PICK B : B = F \cup Used(live) \cup (X \cup {c})
  OBVIOUS
<1>6. F \subseteq B /\ c \in B /\ u \in B /\ u # c
  BY <1>1, <1>2, <1>4, <1>5, FreedBlocks
<1>7. \A h \in B : /\ h \in Words /\ h + 1 \in Words /\ h + 2 \in Words
                   /\ h \in Nat \ {0} /\ mem[h] \in Nat
                   /\ mem[h + 1] \in Nat /\ mem[h + 2] \in Nat
  BY <1>1, <1>2, <1>5, FreedBlocks
<1>8. /\ u + 1 # c /\ u + 2 # c /\ u + 2 # c + 1 /\ u + 2 # c + 2
  BY <1>1, <1>2, <1>5, <1>6, FreedBlocks
<1>9. PICK p : p = mem[u + 2]
  OBVIOUS
<1>10. u # head => p \in F /\ p + 1 \in Words
  BY <1>2, <1>4, <1>6, <1>7, <1>9 DEF Chain
<1>11. SizeOf(c) = mem[c] /\ SizeOf(u) = mem[u]
  BY <1>6, <1>7 DEF SizeOf, Read
<1> DEFINE m1 == Write(mem, c, mem[c] + mem[u])
           m2 == Write(m1, Next_(c), Read(m1, Next_(u)))
           m3 == Write(m2, Prev_(c), Read(m2, Prev_(u)))
           m4 == Write(m3, Next_(Read(m3, Prev_(u))), c)
<1>12. /\ IF u # head THEN mem' = m4 /\ head' = head ELSE mem' = m3 /\ head' = c
       /\ UNCHANGED <<block_end, available_memory, brk, refused, live>>
  BY <1>1, <1>11 DEF MergeBelow, Free
<1>13. Wrote(mem, m1, c, mem[c] + mem[u])
  BY <1>6, <1>7, WriteIn DEF TypeOK
<1>14. Wrote(m1, m2, c + 1, NULL)
  <2> HIDE DEF m1
  <2>1. m1 \in [Words -> Nat] /\ m1[u + 1] = NULL
    BY <1>3, <1>6, <1>7, <1>8, <1>13 DEF Wrote
  <2>2. Read(m1, Next_(u)) = NULL
    BY <1>6, <1>7, <2>1 DEF Read, Next_
  <2> QED
    BY <1>6, <1>7, <2>1, <2>2, WriteIn DEF Next_, NULL
<1> HIDE DEF m1
<1>15. Wrote(m2, m3, c + 2, p)
  <2> HIDE DEF m2
  <2>1. m2 \in [Words -> Nat] /\ m2[u + 2] = p /\ p \in Nat
    BY <1>6, <1>7, <1>8, <1>9, <1>13, <1>14 DEF Wrote
  <2>2. Read(m2, Prev_(u)) = p
    BY <1>6, <1>7, <2>1 DEF Read, Prev_
  <2> QED
    BY <1>6, <1>7, <2>1, <2>2, WriteIn DEF Prev_
<1> HIDE DEF m2
<1>16. u # head => Wrote(m3, m4, p + 1, c)
  <2> HAVE u # head
  <2> HIDE DEF m3
  <2>1. m3 \in [Words -> Nat] /\ m3[u + 2] = p
    BY <1>6, <1>7, <1>8, <1>9, <1>13, <1>14, <1>15 DEF Wrote
  <2>2. Read(m3, Prev_(u)) = p
    BY <1>6, <1>7, <2>1 DEF Read, Prev_
  <2> QED
    BY <1>6, <1>7, <1>10, <2>1, <2>2, WriteIn DEF Next_
<1> HIDE DEF m3, m4
<1>17. mem' \in [Words -> Nat]
  BY <1>12, <1>15, <1>16 DEF Wrote
<1>18. \A w \in Words : mem'[w] = IF u # head /\ w = p + 1 THEN c
                                  ELSE IF w = c + 2 THEN p
                                  ELSE IF w = c + 1 THEN NULL
                                  ELSE IF w = c THEN mem[c] + mem[u] ELSE mem[w]
  BY <1>12, <1>13, <1>14, <1>15, <1>16 DEF Wrote
<1>19. head' = IF u = head THEN c ELSE head
  BY <1>12
<1>20. UNCHANGED <<block_end, available_memory, brk, refused, live>>
  BY <1>12
<1>21. \A w \in Words : mem'[w] = IF u # head /\ w = mem[u + 2] + 1 THEN c
                                  ELSE IF w = c + 2 THEN mem[u + 2]
                                  ELSE IF w = c + 1 THEN NULL
                                  ELSE IF w = c THEN mem[c] + mem[u] ELSE mem[w]
  BY <1>9, <1>18
<1> QED
  BY ONLY TypeOK, <1>1, <1>2, <1>3, <1>17, <1>19, <1>20, <1>21, MergesBelow

\* A listed block l grows over c and the listed block u, which leaves the list.
LEMMA MergesThree ==
  ASSUME TypeOK, NEW F, NEW r, NEW X, NEW c, c = call.block, Freed(F, r, X),
         NEW l \in F, NEW u \in F, l + mem[l] = c, c + mem[c] = u,
         mem' \in [Words -> Nat],
         mem'[l] = mem[l] + mem[c] + mem[u],
         \A w \in Words : w \notin {l, l + 1, l + 2} => mem'[w] = mem[w],
         NEW q, Chain(mem', head', F \ {u}, q),
         UNCHANGED <<block_end, available_memory, brk, refused, live>>
  PROVE  Idle(F \ {u}, q, X)'
<1>1. /\ Idle(F, r, X \cup {c}) /\ c \notin F /\ c \notin X /\ c \notin Used(live)
      /\ u \notin Used(live) /\ u \notin X
  <2>1. /\ Idle(F, r, X \cup {c}) /\ c \notin F /\ c \notin X /\ c \notin Used(live)
        /\ Shape(F, r, X \cup {c})
    BY FreedFacts
  <2> QED
    BY <2>1 DEF Shape
<1>2. /\ \A x, y \in F : x + mem[x] # y
      /\ \A x \in F : x + mem[x] # Top
  BY FreedFacts
<1>3. PICK B : B = F \cup Used(live) \cup (X \cup {c})
  OBVIOUS
<1>4. /\ F \subseteq B /\ c \in B /\ Tiles(mem, B, Top) /\ Top \in Nat
      /\ B \ {c} = F \cup Used(live) \cup X
  BY <1>3, FreedBlocks
<1>5. \A h \in B : /\ h \in Words /\ h \in Nat \ {0} /\ mem[h] \in Nat /\ mem[h] >= 3
  BY <1>3, FreedBlocks
<1>6. \A h, k \in B : h # k => h # k + 1 /\ h # k + 2
  BY <1>3, FreedBlocks
<1>7. l \in B /\ u \in B /\ c # l /\ u # l /\ u # c /\ l # l + 1 /\ l # l + 2
  BY <1>4, <1>5
<1>8. mem'[l] = mem[l] + mem[c] + mem[u]
  OBVIOUS
<1>9. \A h \in B : h # l => mem'[h] = mem[h]
  BY <1>5, <1>6, <1>7
<1>10. Tiles(mem', (F \ {u}) \cup Used(live) \cup X, Top)
  <2>1. PICK m1 : m1 = [mem EXCEPT ![l] = mem[l] + mem[c]]
    OBVIOUS
  <2>2. m1[l] = mem[l] + mem[c] /\ \A h \in B : h # l => m1[h] = mem[h]
    BY <1>5, <1>7, <2>1 DEF TypeOK
  <2>3. Tiles(m1, B \ {c}, Top)
    BY ONLY <1>4, <1>7, <2>2, TilesJoin, l + mem[l] = c
  <2>4. PICK D : D = B \ {c}
    OBVIOUS
  <2>5. Tiles(m1, D, Top) /\ l \in D /\ u \in D /\ l + m1[l] = u
    BY <1>4, <1>5, <1>7, <2>2, <2>3, <2>4
  <2>6. mem'[l] = m1[l] + m1[u] /\ \A h \in D : h # l /\ h # u => mem'[h] = m1[h]
    BY <1>5, <1>7, <1>8, <1>9, <2>2, <2>4
  <2>7. Tiles(mem', D \ {u}, Top)
    BY ONLY <1>4, <2>5, <2>6, TilesJoin
  <2>8. D \ {u} = (F \ {u}) \cup Used(live) \cup X
    BY <1>1, <1>4, <2>4
  <2> QED
    BY <2>7, <2>8
<1>11. Within(mem, mem', Top, F \cup {c})
  <2> SUFFICES ASSUME NEW w \in Words, mem'[w] # mem[w]
               PROVE  \E x \in F \cup {c} : x <= w /\ w < x + mem[x]
    BY DEF Within
  <2>1. w \in {l, l + 1, l + 2}
    OBVIOUS
  <2>2. l <= w /\ w < l + mem[l]
    BY <1>5, <1>7, <2>1
  <2> QED
    BY <2>2
<1>12. ASSUME NEW x \in F \ {u}
       PROVE  x + mem'[x] # Top /\ \A y \in F \ {u} : x + mem'[x] # y
  <2>1. CASE x = l
    <3>1. l + mem'[l] = u + mem[u]
      BY <1>4, <1>5, <1>7, <1>8
    <3> QED
      BY <1>2, <2>1, <3>1
  <2>2. CASE x # l
    <3>1. mem'[x] = mem[x]
      BY <1>4, <1>9, <2>2
    <3> QED
      BY <1>2, <3>1
  <2> QED
    BY <2>1, <2>2
<1>13. PICK g : g = F \ {u}
  OBVIOUS
<1>14. /\ g \subseteq F \cup {c} /\ Chain(mem', head', g, q)
       /\ Tiles(mem', g \cup Used(live) \cup X, Top)
       /\ \A x \in g : x + mem'[x] # Top /\ \A y \in g : x + mem'[x] # y
  BY <1>10, <1>12, <1>13
<1>15. Idle(g, q, X)'
  BY ONLY TypeOK, <1>1, <1>11, <1>14, FreeIdle,
          UNCHANGED <<block_end, available_memory, brk, refused, live>>
<1> QED
  BY <1>13, <1>15

\* The freed block and its two listed neighbours become one.
LEMMA MergeThreeStep ==
  ASSUME TypeOK, NEW F, NEW r, NEW X, Inner(F, r, X),
         NEW l \in F, NEW u \in F, l + mem[l] = call.block,
         call.block + mem[call.block] = u, MergeThree(l, u)
  PROVE  \E G, q : Idle(G, q, X)'
<1>1. PICK c : c = call.block
  OBVIOUS
<1>2. /\ Freed(F, r, X) /\ l + mem[l] = c /\ c + mem[c] = u
      /\ \/ head = l /\ mem[l + 1] = u /\ mem[u + 1] = NULL
         \/ head = u /\ mem[u + 1] = l
  BY <1>1 DEF Inner, FreesInner
<1>3. Chain(mem, head, F, r) /\ c \notin F /\ F \subseteq Nat \ {0}
  BY <1>1, <1>2, FreedFacts
<1>4. PICK B : B = F \cup Used(live) \cup (X \cup {c})
  OBVIOUS
<1>5. F \subseteq B /\ c \in B /\ u \in B /\ l \in B
  BY <1>1, <1>2, <1>3, <1>4, FreedBlocks
<1>6. \A h \in B : /\ h \in Words /\ h + 1 \in Words /\ h + 2 \in Words
                   /\ h \in Nat \ {0} /\ mem[h] \in Nat /\ mem[h] >= 3
                   /\ mem[h + 1] \in Nat /\ mem[h + 2] \in Nat
  BY <1>1, <1>2, <1>4, FreedBlocks
<1>7. \A h, k \in B : h # k => /\ h # k + 1 /\ h # k + 2 /\ h + 1 # k /\ h + 1 # k + 1
                               /\ h + 1 # k + 2 /\ h + 2 # k /\ h + 2 # k + 1 /\ h + 2 # k + 2
  BY <1>1, <1>2, <1>4, FreedBlocks
<1>8. u # l
  BY <1>2, <1>5, <1>6
<1>9. /\ SizeOf(c) = mem[c] /\ SizeOf(u) = mem[u] /\ SizeOf(l) = mem[l]
      /\ Read(mem, Next_(u)) = mem[u + 1]
  BY <1>5, <1>6 DEF SizeOf, Read, Next_
<1>10. PICK sum : sum = mem[l] + mem[c] + mem[u]
  OBVIOUS
<1>11. sum \in Nat /\ SizeOf(l) + SizeOf(c) + SizeOf(u) = sum
  BY <1>5, <1>6, <1>9, <1>10
<1> DEFINE m1 == Write(mem, l, sum)
<1>12. Wrote(mem, m1, l, sum)
  BY <1>5, <1>6, <1>11, WriteIn DEF TypeOK
<1>13. UNCHANGED <<block_end, available_memory, brk, refused, live>>
  BY DEF MergeThree, Free
<1>14. PICK q : q = Only(r, F \ {u})
  OBVIOUS
<1>15. CASE head = l /\ mem[l + 1] = u /\ mem[u + 1] = NULL
  <2> DEFINE m2 == Write(m1, Next_(l), NULL)
             m4 == Write(m2, Next_(Read(m2, Prev_(u))), l)
             m5 == Write(m4, Next_(l), NULL)
  <2>1. Wrote(m1, m2, l + 1, NULL)
    <3> HIDE DEF m1
    <3>1. m1 \in [Words -> Nat]
      BY <1>12 DEF Wrote
    <3> QED
      BY <1>5, <1>6, <3>1, WriteIn DEF Next_, NULL
  <2>2. mem[u + 2] = l
    <3>1. l \in F /\ mem[l + 1] # NULL
      BY <1>5, <1>6, <1>15 DEF NULL
    <3> QED
      BY <1>3, <1>15, <3>1, ChainBack
  <2>3. Wrote(m2, m4, l + 1, l)
    <3> HIDE DEF m2
    <3>1. m2 \in [Words -> Nat] /\ m2[u + 2] = l
      BY <1>5, <1>6, <1>7, <1>8, <1>12, <2>1, <2>2 DEF Wrote
    <3>2. Read(m2, Prev_(u)) = l
      BY <1>5, <1>6, <3>1 DEF Read, Prev_
    <3> QED
      BY <1>5, <1>6, <3>1, <3>2, WriteIn DEF Next_
  <2>4. Wrote(m4, m5, l + 1, NULL)
    <3> HIDE DEF m4
    <3>1. m4 \in [Words -> Nat]
      BY <2>3 DEF Wrote
    <3> QED
      BY <1>5, <1>6, <3>1, WriteIn DEF Next_, NULL
  <2>5. Read(m4, Next_(l)) = l
    <3> HIDE DEF m4
    <3> QED
      BY <1>5, <1>6, <2>3 DEF Read, Next_, Wrote
  <2>6. mem' = m5 /\ head' = l
    <3>1. NULL # l
      BY <1>5, <1>6 DEF NULL
    <3>2. u # head
      BY <1>8, <1>15
    <3> QED
      BY <1>1, <1>9, <1>11, <1>15, <2>5, <3>1, <3>2 DEF MergeThree, Free
  <2> HIDE DEF m1, m2, m4, m5
  <2>7. mem' \in [Words -> Nat]
    BY <2>4, <2>6 DEF Wrote
  <2>8. \A w \in Words : mem'[w] = IF w = l + 1 THEN NULL ELSE IF w = l THEN sum ELSE mem[w]
    BY <1>12, <2>1, <2>3, <2>4, <2>6 DEF Wrote
  <2>9. Chain(mem', head', F \ {u}, q)
    <3>1. u \in F /\ u # head /\ mem[u + 1] = NULL
      BY <1>8, <1>15
    <3>2. mem'[mem[u + 2] + 1] = NULL
      BY <1>5, <1>6, <2>2, <2>8
    <3>3. ASSUME NEW x \in F \ {u}
          PROVE  /\ x # mem[u + 2] => mem'[x + 1] = mem[x + 1]
                 /\ x # head => mem'[x + 2] = mem[x + 2]
      <4>1. CASE x = l
        BY <1>15, <2>2, <4>1
      <4>2. CASE x # l
        <5>1. x \in B /\ x + 1 \in Words /\ x + 2 \in Words
          BY <1>5, <1>6
        <5>2. x + 1 # l /\ x + 1 # l + 1 /\ x + 2 # l /\ x + 2 # l + 1
          BY <1>5, <1>7, <4>2, <5>1
        <5> QED
          BY <2>8, <5>1, <5>2
      <4> QED
        BY <4>1, <4>2
    <3>4. Chain(mem', head, F \ {u}, Only(r, F \ {u}))
      BY ONLY <1>3, <3>1, <3>2, <3>3, ChainDrop
    <3> QED
      BY <1>14, <1>15, <2>6, <3>4
  <2>10. Idle(F \ {u}, q, X)'
    <3>1. mem'[l] = mem[l] + mem[c] + mem[u]
      BY <1>5, <1>6, <1>10, <2>8
    <3>2. \A w \in Words : w \notin {l, l + 1, l + 2} => mem'[w] = mem[w]
      BY <2>8
    <3>3. c = call.block /\ Freed(F, r, X) /\ l + mem[l] = c /\ c + mem[c] = u
      BY <1>1, <1>2
    <3> QED
      BY ONLY TypeOK, l \in F, u \in F, <1>13, <2>7, <2>9, <3>1, <3>2, <3>3, MergesThree
  <2> QED
    BY <2>10
<1>16. CASE head = u /\ mem[u + 1] = l
  <2> DEFINE m2 == Write(m1, Prev_(l), l)
  <2>1. Wrote(m1, m2, l + 2, l)
    <3> HIDE DEF m1
    <3>1. m1 \in [Words -> Nat]
      BY <1>12 DEF Wrote
    <3> QED
      BY <1>5, <1>6, <3>1, WriteIn DEF Prev_
  <2>2. mem[l + 1] # l
    <3>1. mem[l + 1] # NULL => r[mem[l + 1]] = r[l] - 1 /\ r[l] \in Int
      BY <1>3 DEF Chain
    <3>2. l # NULL
      BY <1>5, <1>6 DEF NULL
    <3> QED
      BY <3>1, <3>2
  <2>3. Read(m2, Next_(l)) # l
    <3> HIDE DEF m2
    <3>1. m2[l + 1] = mem[l + 1]
      BY <1>5, <1>6, <1>12, <2>1 DEF Wrote
    <3> QED
      BY <1>5, <1>6, <2>2, <3>1 DEF Read, Next_
  <2>4. mem' = m2 /\ head' = l
    <3>1. NULL # l
      BY <1>5, <1>6 DEF NULL
    <3> QED
      BY <1>1, <1>9, <1>11, <1>16, <2>3, <3>1 DEF MergeThree, Free
  <2> HIDE DEF m1, m2
  <2>5. mem' \in [Words -> Nat]
    BY <2>1, <2>4 DEF Wrote
  <2>6. \A w \in Words : mem'[w] = IF w = l + 2 THEN l ELSE IF w = l THEN sum ELSE mem[w]
    BY <1>12, <2>1, <2>4 DEF Wrote
  <2>7. Chain(mem', head', F \ {u}, q)
    <3>1. head # NULL /\ mem[head + 1] = l
      BY <1>5, <1>6, <1>16 DEF NULL
    <3>2. ASSUME NEW x \in F \ {head}
          PROVE  /\ mem'[x + 1] = mem[x + 1]
                 /\ x # mem[head + 1] => mem'[x + 2] = mem[x + 2]
      <4>1. x \in B /\ x + 1 \in Words /\ x + 2 \in Words
        BY <1>5, <1>6
      <4>2. x + 1 # l /\ x + 1 # l + 2 /\ (x # l => x + 2 # l + 2) /\ x + 2 # l
        BY <1>5, <1>6, <1>7, <4>1
      <4> QED
        BY <2>6, <3>1, <4>1, <4>2
    <3>3. Chain(mem', mem[head + 1], F \ {head}, Only(r, F \ {head}))
      BY ONLY <1>3, <3>1, <3>2, ChainPop
    <3> QED
      BY <1>14, <1>16, <2>4, <3>1, <3>3
  <2>8. Idle(F \ {u}, q, X)'
    <3>1. mem'[l] = mem[l] + mem[c] + mem[u]
      BY <1>5, <1>6, <1>10, <2>6
    <3>2. \A w \in Words : w \notin {l, l + 1, l + 2} => mem'[w] = mem[w]
      BY <2>6
    <3>3. c = call.block /\ Freed(F, r, X) /\ l + mem[l] = c /\ c + mem[c] = u
      BY <1>1, <1>2
    <3> QED
      BY ONLY TypeOK, l \in F, u \in F, <1>13, <2>5, <2>7, <3>1, <3>2, <3>3, MergesThree
  <2> QED
    BY <2>8
<1> QED
  BY <1>2, <1>15, <1>16

-----------------------------------------------------------------------------
(***************************************************************************)
(* Giving the last block back                                              *)
(***************************************************************************)
\* The break can be lowered by the last block t, and no word below t is lost.
LEMMA BreakMoves ==
  ASSUME TypeOK, NEW F, NEW r, NEW X, Break, Shape(F, r, X),
         NEW t \in F \cup Used(live) \cup X, t + mem[t] = Top
  PROVE  /\ CanMove(-mem[t]) /\ Moved(-mem[t]) = t + available_memory
         /\ t + available_memory \in First .. Limit
         /\ t \in First .. Limit /\ t \in Nat \ {0} /\ Top = block_end
         /\ SizeOf(t) = mem[t] /\ End(t) = block_end
         /\ Unmap(mem, Moved(-mem[t])) \in [Words -> Nat]
         /\ \A w \in Words : w <= LastMapped(t + available_memory) =>
              Unmap(mem, Moved(-mem[t]))[w] = mem[w]
         /\ LastMapped(t + available_memory) \in Nat
         /\ LastMapped(t + available_memory) >= t - 1
         /\ \A h \in (F \cup Used(live) \cup X) \ {t} : h + mem[h] <= t
<1>1. /\ t \in Nat \ {0} /\ t >= First /\ mem[t] \in Nat /\ mem[t] >= 3
      /\ SizeOf(t) = mem[t] /\ End(t) = t + mem[t]
      /\ mem \in [Words -> Nat] /\ Top \in First .. Limit
  BY BlockFacts
<1>2. Top = block_end
  BY TopIsEnd
<1>3. /\ brk = Top + available_memory /\ available_memory \in Nat /\ brk \in First .. Limit
      /\ First \in Nat /\ Limit \in Nat
  BY ConstantTypes DEF Break, TypeOK
<1>4. brk + (-mem[t]) = t + available_memory
  BY <1>1, <1>3
<1>5. t + available_memory \in First .. Limit /\ t \in First .. Limit
      /\ t + available_memory \in Nat /\ t + available_memory > 0
  BY <1>1, <1>3
<1>6. CanMove(-mem[t]) /\ Moved(-mem[t]) = t + available_memory
  BY <1>4, <1>5 DEF CanMove, Moved
<1>7. /\ LastMapped(t + available_memory) \in Nat
      /\ LastMapped(t + available_memory) >= t + available_memory - 1
  <2>1. PICK a : a = t + available_memory
    OBVIOUS
  <2>2. LastMapped(a) \in Nat /\ LastMapped(a) >= a - 1
    BY <1>5, <2>1, MappedBelow
  <2>3. LastMapped(t + available_memory) = LastMapped(a)
    BY <2>1, Zenon
  <2> QED
    BY <1>1, <1>3, <1>5, <2>1, <2>2, <2>3
<1>8. /\ Unmap(mem, t + available_memory) \in [Words -> Nat]
      /\ \A w \in Words : w <= LastMapped(t + available_memory) =>
           Unmap(mem, t + available_memory)[w] = mem[w]
  BY <1>1, <1>5, UnmapIn
<1>9. ASSUME NEW h \in (F \cup Used(live) \cup X) \ {t}
      PROVE  h + mem[h] <= t
  <2>1. /\ h \in Nat /\ mem[h] \in Nat /\ mem[h] >= 3 /\ h + mem[h] <= Top
        /\ h + mem[h] <= t \/ t + mem[t] <= h
    BY BlockFacts
  <2> QED
    BY <1>1, <2>1
<1>10. LastMapped(t + available_memory) >= t - 1
  BY <1>1, <1>3, <1>7
<1> QED
  BY <1>1, <1>2, <1>5, <1>6, <1>7, <1>8, <1>9, <1>10

\* The last block t is gone: the heap ends where it started.
LEMMA LowersCalm ==
  ASSUME TypeOK, NEW F, NEW r, NEW X, Break, Shape(F, r, X), Apart(F), Filled(mem, live),
         NEW t \in F \cup Used(live) \cup X, t + mem[t] = Top, t \notin Used(live),
         NEW G, NEW q, NEW Y, G \subseteq F, Y \subseteq X,
         (F \cup Used(live) \cup X) \ {t} = G \cup Used(live) \cup Y,
         Chain(mem', head', G, q),
         \A h \in (F \cup Used(live) \cup X) \ {t} : mem'[h] = mem[h],
         Within(mem, mem', t, F),
         block_end' = t, brk' = Moved(-mem[t]),
         refused' = (refused \/ ~CanMove(-mem[t])),
         available_memory' = available_memory, live' = live
  PROVE  Calm(G, q, Y)' /\ Filled(mem, live)' /\ Top' = t
<1>1. /\ CanMove(-mem[t]) /\ Moved(-mem[t]) = t + available_memory
      /\ t \in First .. Limit /\ t \in Nat \ {0}
  BY BreakMoves
<1>2. Top' = t
  BY <1>1 DEF Top, NULL
<1>3. Break'
  BY <1>1, <1>2 DEF Break, NULL
<1>4. PICK B : B = F \cup Used(live) \cup X
  OBVIOUS
<1>5. Tiles(mem, B, Top) /\ t \in B /\ Top \in Nat
  <2>1. Tiles(mem, B, Top)
    BY <1>4 DEF Shape
  <2>2. Top \in Nat
    BY ConstantTypes DEF Break
  <2> QED
    BY <1>4, <2>1, <2>2
<1>6. Tiles(mem', B \ {t}, t)
  <2>1. \A h \in B : h # t => mem'[h] = mem[h]
    BY <1>4
  <2> QED
    BY ONLY t + mem[t] = Top, <1>5, <2>1, TilesDrop
<1>7. Holds(mem', live) /\ Filled(mem', live)
  <2>1. PICK Z : Z = F \ {t}
    OBVIOUS
  <2>2. PICK D : D = B \ {t}
    OBVIOUS
  <2>3. \A h \in D : mem[h] = mem'[h]
    BY <1>4, <2>2
  <2>4. Tiles(mem, D, t)
    BY ONLY <1>6, <2>2, <2>3, TilesSame
  <2>5. /\ mem \in [Words -> Nat] /\ live \in SUBSET [at : Nat \ {0}, len : Nat]
        /\ Holds(mem, live)
    BY DEF TypeOK, Shape
  <2>6. Z \in SUBSET D /\ Used(live) \subseteq D \ Z
    BY <1>4, <2>1, <2>2 DEF Shape
  <2>7. Within(mem, mem', t, Z)
    <3> SUFFICES ASSUME NEW w \in Words, w < t, mem'[w] # mem[w]
                 PROVE  \E x \in Z : x <= w /\ w < x + mem[x]
      BY DEF Within
    <3>1. PICK x \in F : x <= w /\ w < x + mem[x]
      BY DEF Within
    <3>2. x # t
      BY <1>1, <3>1, ConstantTypes
    <3> QED
      BY <2>1, <3>1, <3>2
  <2>8. Holds(mem', live)
    BY ONLY <1>1, <2>4, <2>5, <2>6, <2>7, LiveKept
  <2>9. live \in SUBSET live
    OBVIOUS
  <2>10. Filled(mem', live)
    BY ONLY <1>1, <2>4, <2>5, <2>6, <2>7, <2>9, LiveKept, Filled(mem, live)
  <2> QED
    BY <2>8, <2>10
<1>8. Shape(G, q, Y)'
  <2>1. Tiles(mem', G \cup Used(live) \cup Y, t)
    BY <1>4, <1>6
  <2>2. G \cap Used(live) = {} /\ G \cap Y = {} /\ Used(live) \cap Y = {}
    BY DEF Shape
  <2> QED
    BY <1>2, <1>7, <2>1, <2>2 DEF Shape
<1>9. Apart(G)'
  <2>1. \A x \in G : x \in F /\ mem'[x] = mem[x]
    OBVIOUS
  <2> QED
    BY <2>1 DEF Apart
<1> QED
  BY <1>2, <1>3, <1>7, <1>8, <1>9 DEF Calm

\* A listed block that has become the last is given back (alloc.c:193-204).
LEMMA TrimDropStep ==
  ASSUME TypeOK, NEW F, NEW r, NEW X, TrimmingLast(F, r, X), call.return_flag, Trim,
         End(call.temp) = block_end
  PROVE  /\ pc' = "trim" /\ call'.return_flag /\ call'.op = call.op
         /\ \E G, q : TrimmingLast(G, q, X)'
<1>1. PICK t : t = call.temp
  OBVIOUS
<1>2. /\ Break /\ Shape(F, r, X) /\ Calm(F, r, X) /\ Apart(F) /\ Filled(mem, live)
      /\ t \in F /\ call \in Locals
  BY <1>1 DEF TrimmingLast, Calm, TypeOK, Trim
<1>3. PICK m : m = Unmap(mem, Moved(-mem[t]))
  OBVIOUS
<1>4. /\ F \subseteq Nat \ {0} /\ Chain(mem, head, F, r)
      /\ SizeOf(t) = mem[t] /\ End(t) = t + mem[t]
  BY <1>2, SearchFacts
<1>5. t + mem[t] = Top
  BY <1>1, <1>2, <1>4, TopIsEnd
<1>6. PICK a : a = LastMapped(t + available_memory)
  OBVIOUS
<1>7. t + 2 <= a /\ (t = head \/ mem[t + 1] = NULL)
  BY <1>2, <1>5, <1>6 DEF TrimmingLast, FreesLast
<1>8. /\ m \in [Words -> Nat] /\ a \in Nat
      /\ \A w \in Words : w <= a => m[w] = mem[w]
      /\ \A h \in (F \cup Used(live) \cup X) \ {t} : h + mem[h] <= t
  BY <1>2, <1>3, <1>5, <1>6, BreakMoves
<1>9. PICK B : B = F \cup Used(live) \cup X
  OBVIOUS
<1>10. \A h \in B : /\ h \in Words /\ h + 1 \in Words /\ h + 2 \in Words
                    /\ h \in Nat \ {0} /\ mem[h] \in Nat /\ mem[h] >= 3
                    /\ \A w \in Int : h <= w /\ w < h + mem[h] => w \in Words
  BY <1>2, <1>9, BlockFacts
<1>11. \A h, k \in B : h # k => /\ h # k + 1 /\ h + 1 # k + 1 /\ h + 2 # k + 1
  BY <1>2, <1>9, FieldsApart
<1>12. t \in B /\ F \subseteq B /\ t \in Nat /\ t \notin Used(live) /\ t \notin X
  BY <1>2, <1>9, <1>10 DEF Shape
<1>13. \A h \in B : m[h] = mem[h] /\ m[h + 1] = mem[h + 1] /\ m[h + 2] = mem[h + 2]
  <2> TAKE h \in B
  <2>1. h + 2 <= a
    <3>1. CASE h = t
      BY <1>7, <3>1
    <3>2. CASE h # t
      <4>1. h + mem[h] <= t /\ mem[h] >= 3 /\ h \in Nat /\ mem[h] \in Nat
        BY <1>8, <1>9, <1>10, <3>2
      <4> QED
        BY <1>7, <1>8, <1>12, <4>1
    <3> QED
      BY <3>1, <3>2
  <2> QED
    BY <1>8, <1>10, <2>1
<1>14. \A w \in Words : w < t => m[w] = mem[w]
  <2> TAKE w \in Words
  <2>1. w \in Nat
    BY ConstantTypes
  <2> QED
    BY <1>7, <1>8, <1>12, <2>1
<1>15. /\ call' = [call EXCEPT !.temp = Read(mem', Next_(t))]
       /\ head' = IF t = head THEN Read(m, Next_(t)) ELSE head
       /\ mem' = IF t = head THEN m ELSE Write(m, Next_(Read(m, Prev_(t))), Read(m, Next_(t)))
       /\ block_end' = t /\ brk' = Moved(-mem[t])
       /\ refused' = (refused \/ ~CanMove(-mem[t]))
       /\ UNCHANGED <<available_memory, live, pc>> /\ pc = "trim"
  BY <1>1, <1>3, <1>4 DEF Trim, Sbrk
<1>16. Read(m, Next_(t)) = mem[t + 1] /\ Read(m, Prev_(t)) = mem[t + 2]
  BY <1>10, <1>12, <1>13 DEF Read, Next_, Prev_
<1>17. PICK G, q : G = F \ {t} /\ q = Only(r, F \ {t})
  <2>1. \E G, q : G = F \ {t} /\ q = Only(r, F \ {t})
    OBVIOUS
  <2> QED
    BY <2>1
<1>18. /\ Chain(mem', head', G, q)
       /\ \A h \in B \ {t} : mem'[h] = mem[h]
       /\ mem'[t + 1] = mem[t + 1]
       /\ Within(mem, mem', t, F)
  <2>1. CASE t = head
    <3>1. mem' = m /\ head' = mem[head + 1]
      BY <1>15, <1>16, <2>1
    <3>2. Chain(mem', mem[head + 1], F \ {head}, Only(r, F \ {head}))
      <4>1. head # NULL
        BY <1>10, <1>12, <2>1 DEF NULL
      <4>2. \A x \in F \ {head} : /\ mem'[x + 1] = mem[x + 1]
                                  /\ x # mem[head + 1] => mem'[x + 2] = mem[x + 2]
        BY <1>12, <1>13, <3>1
      <4> QED
        BY ONLY <1>4, <4>1, <4>2, ChainPop
    <3>3. Chain(mem', head', G, q)
      BY <1>17, <2>1, <3>1, <3>2
    <3> QED
      BY <1>12, <1>13, <1>14, <3>1, <3>3 DEF Within
  <2>2. CASE t # head
    <3>1. PICK p : p = mem[t + 2]
      OBVIOUS
    <3>2. p \in F /\ mem[p + 1] = t /\ mem[t + 1] = NULL /\ p # t /\ p \in B
      <4>1. mem[t + 1] = NULL
        BY <1>7, <2>2
      <4>2. mem[t + 2] \in F /\ mem[mem[t + 2] + 1] = t
        BY <1>2, <1>4, <2>2 DEF Chain
      <4>3. p \in F /\ mem[p + 1] = t /\ p \in B
        BY <1>12, <3>1, <4>2
      <4>4. t # NULL
        BY <1>10, <1>12 DEF NULL
      <4> QED
        BY <4>1, <4>3, <4>4
    <3>3. Wrote(m, mem', p + 1, NULL) /\ head' = head
      BY <1>8, <1>10, <1>15, <1>16, <2>2, <3>1, <3>2, WriteIn DEF Next_, NULL
    <3>4. mem'[p + 1] = NULL
      BY <1>10, <3>2, <3>3 DEF Wrote
    <3>5. ASSUME NEW h \in B
          PROVE  /\ mem'[h] = mem[h] /\ mem'[h + 2] = mem[h + 2]
                 /\ h # p => mem'[h + 1] = mem[h + 1]
      <4>1. h \in Words /\ h + 1 \in Words /\ h + 2 \in Words
            /\ h # p + 1 /\ h + 2 # p + 1 /\ (h # p => h + 1 # p + 1)
        BY <1>10, <1>11, <3>2
      <4> QED
        BY <1>13, <3>3, <4>1 DEF Wrote
    <3>6. Chain(mem', head', G, q)
      <4>1. t \in F /\ t # head /\ mem[t + 1] = NULL /\ mem'[mem[t + 2] + 1] = NULL
        BY <1>2, <2>2, <3>1, <3>2, <3>4
      <4>2. \A x \in F \ {t} : /\ x # mem[t + 2] => mem'[x + 1] = mem[x + 1]
                               /\ x # head => mem'[x + 2] = mem[x + 2]
        BY <1>12, <3>1, <3>5
      <4>3. Chain(mem', head, F \ {t}, Only(r, F \ {t}))
        BY ONLY <1>4, <4>1, <4>2, ChainDrop
      <4> QED
        BY <1>17, <3>3, <4>3
    <3>7. Within(mem, mem', t, F)
      <4> SUFFICES ASSUME NEW w \in Words, w < t, mem'[w] # mem[w]
                   PROVE  \E x \in F : x <= w /\ w < x + mem[x]
        BY DEF Within
      <4>1. w = p + 1
        BY <1>14, <3>3 DEF Wrote
      <4>2. p <= w /\ w < p + mem[p]
        BY <1>10, <3>2, <4>1
      <4> QED
        BY <3>2, <4>2
    <3> QED
      BY <1>12, <3>2, <3>5, <3>6, <3>7
  <2> QED
    BY <2>1, <2>2
<1>19. Calm(G, q, X)' /\ Filled(mem, live)' /\ Top' = t
  <2>1. G \subseteq F /\ X \subseteq X /\ (F \cup Used(live) \cup X) \ {t} = G \cup Used(live) \cup X
    BY <1>12, <1>17
  <2>2. \A h \in (F \cup Used(live) \cup X) \ {t} : mem'[h] = mem[h]
    BY <1>9, <1>18
  <2>3. t \in F \cup Used(live) \cup X
    BY <1>2
  <2> QED
    BY ONLY TypeOK, <1>2, <1>5, <1>12, <1>15, <1>18, <2>1, <2>2, <2>3, LowersCalm
<1>20. \A x \in G : x + mem'[x] # t
  BY <1>2, <1>9, <1>17, <1>18 DEF Apart
<1>21. call'.temp = mem[t + 1] /\ call'.op = call.op /\ call'.ptr = call.ptr
       /\ call'.return_flag = call.return_flag
  <2>1. Read(mem', Next_(t)) = mem[t + 1]
    BY <1>10, <1>12, <1>18 DEF Read, Next_
  <2> QED
    BY <1>2, <1>15, <2>1 DEF Locals
<1>22. mem[t + 1] \in G \cup {NULL}
  BY <1>2, <1>4, <1>17 DEF Chain, NULL
<1>23. TrimmingLast(G, q, X)'
  BY <1>19, <1>20, <1>21, <1>22 DEF TrimmingLast, FreesLast
<1> QED
  BY <1>15, <1>21, <1>23

\* The break is left where it is, and no word of a block is lost.
LEMMA BreakStays ==
  ASSUME TypeOK, NEW F, NEW r, NEW X, Break, Shape(F, r, X)
  PROVE  /\ CanMove(0) /\ Moved(0) = brk
         /\ Unmap(mem, brk) \in [Words -> Nat]
         /\ \A w \in Words : w < Top => Unmap(mem, brk)[w] = mem[w]
<1>1. /\ mem \in [Words -> Nat] /\ brk \in First .. Limit /\ First \in Nat /\ First > 0
      /\ Limit \in Nat /\ Words \subseteq Nat
      /\ Top \in Nat /\ available_memory \in Nat /\ brk = Top + available_memory
  BY ConstantTypes DEF TypeOK, Break
<1>2. brk \in Nat /\ brk > 0 /\ brk + 0 = brk
  BY <1>1
<1>3. CanMove(0) /\ Moved(0) = brk
  BY <1>1, <1>2 DEF CanMove, Moved
<1>4. LastMapped(brk) \in Nat /\ LastMapped(brk) >= brk - 1
  BY <1>2, MappedBelow
<1>5. /\ Unmap(mem, brk) \in [Words -> Nat]
      /\ \A w \in Words : w <= LastMapped(brk) => Unmap(mem, brk)[w] = mem[w]
  BY <1>1, <1>2, UnmapIn
<1>6. \A w \in Words : w < Top => w <= LastMapped(brk)
  BY <1>1, <1>4
<1> QED
  BY <1>3, <1>5, <1>6

\* The freed block is given back if it is the last (alloc.c:171-182).
LEMMA LastBlockStep ==
  ASSUME TypeOK, NEW F, NEW r, NEW X, Freeing(F, r, X), LastBlock
  PROVE  /\ pc' = "trim" /\ call'.op = call.op
         /\ \/ call'.return_flag /\ TrimmingLast(F, r, X)'
            \/ ~call'.return_flag /\ TrimmingInner(F, r, X)'
<1>1. PICK c : c = call.block
  OBVIOUS
<1>2. PICK Y : Y = X \cup {c}
  OBVIOUS
<1>3. /\ Freed(F, r, X) /\ Idle(F, r, Y) /\ Calm(F, r, Y) /\ NoneLast(F) /\ Break /\ Shape(F, r, Y)
      /\ Apart(F) /\ Filled(mem, live) /\ call \in Locals
      /\ c \in Y /\ c \notin X /\ call.op = "free" /\ call.ptr = NULL
  BY <1>1, <1>2 DEF Freeing, Freed, Idle, Calm, TypeOK
<1>4. /\ F \subseteq Nat \ {0} /\ Chain(mem, head, F, r) /\ head \in F \cup {NULL}
      /\ \A x \in F : ~Passed(r, head, x)
  BY <1>3, SearchFacts
<1>5. PICK B : B = F \cup Used(live) \cup Y
  OBVIOUS
<1>6. \A h \in B : /\ h \in Words /\ h + 1 \in Words /\ h + 2 \in Words
                   /\ h \in Nat \ {0} /\ mem[h] \in Nat /\ mem[h] >= 3 /\ h + mem[h] <= Top
  BY <1>3, <1>5, BlockFacts
<1>7. c \in B /\ F \subseteq B /\ c \notin F /\ c \notin Used(live) /\ Top = block_end
  <2>1. c \in F \cup Used(live) \cup Y
    BY <1>3
  <2>2. Top = block_end
    BY <1>3, <2>1, TopIsEnd
  <2> QED
    BY <1>3, <1>5, <2>2 DEF Shape
<1>8. SizeOf(c) = mem[c] /\ End(c) = c + mem[c]
  BY <1>6, <1>7 DEF SizeOf, End, Read
<1>9. CASE c + mem[c] = Top
  <2>1. /\ call' = [call EXCEPT !.return_flag = TRUE, !.temp = head]
        /\ mem' = Unmap(mem, Moved(-mem[c]))
        /\ block_end' = c /\ brk' = Moved(-mem[c])
        /\ refused' = (refused \/ ~CanMove(-mem[c]))
        /\ UNCHANGED <<head, available_memory, live>>
        /\ pc' = "trim"
    BY <1>1, <1>7, <1>8, <1>9 DEF LastBlock, Sbrk
  <2>2. /\ call'.return_flag /\ call'.op = call.op /\ call'.ptr = call.ptr /\ call'.temp = head
    BY <1>3, <2>1 DEF Locals
  <2>3. /\ mem' \in [Words -> Nat] /\ LastMapped(c + available_memory) \in Nat
        /\ \A w \in Words : w <= LastMapped(c + available_memory) => mem'[w] = mem[w]
        /\ LastMapped(c + available_memory) >= c - 1
        /\ \A h \in B \ {c} : h + mem[h] <= c
    BY <1>3, <1>5, <1>9, <2>1, BreakMoves
  <2>4. \A w \in Words : w < c => mem'[w] = mem[w]
    <3> TAKE w \in Words
    <3>1. w \in Nat /\ c \in Nat
      BY <1>6, <1>7, ConstantTypes
    <3> QED
      BY <2>3, <3>1
  <2>5. \A h \in B \ {c} : mem'[h] = mem[h] /\ mem'[h + 1] = mem[h + 1] /\ mem'[h + 2] = mem[h + 2]
    <3> TAKE h \in B \ {c}
    <3>1. /\ h \in Words /\ h + 1 \in Words /\ h + 2 \in Words
          /\ h < c /\ h + 1 < c /\ h + 2 < c
      BY <1>6, <1>7, <2>3
    <3> QED
      BY <2>4, <3>1
  <2>6. Chain(mem', head', F, r)
    <3>1. \A x \in F : mem'[x + 1] = mem[x + 1] /\ (x # head => mem'[x + 2] = mem[x + 2])
      BY <1>7, <2>5
    <3>2. head' = head
      BY <2>1
    <3> QED
      BY ONLY <1>4, <3>1, <3>2, ChainSame
  <2>7. Calm(F, r, X)' /\ Filled(mem, live)' /\ Top' = c
    <3>1. F \subseteq F /\ X \subseteq Y /\ (F \cup Used(live) \cup Y) \ {c} = F \cup Used(live) \cup X
      BY <1>2, <1>3, <1>7
    <3>2. \A h \in (F \cup Used(live) \cup Y) \ {c} : mem'[h] = mem[h]
      BY <1>5, <2>5
    <3>3. c \in F \cup Used(live) \cup Y
      BY <1>3
    <3>4. Within(mem, mem', c, F)
      BY <2>4 DEF Within
    <3> QED
      BY ONLY TypeOK, <1>3, <1>7, <1>9, <2>1, <2>6, <3>1, <3>2, <3>3, <3>4, LowersCalm
  <2>8. FreesLast(F, Top)'
    <3>1. FreesLast(F, c)
      BY <1>1, <1>9 DEF Freeing
    <3>2. \A x \in F : mem'[x] = mem[x] /\ mem'[x + 1] = mem[x + 1]
      BY <1>7, <2>5
    <3>3. head' = head /\ available_memory' = available_memory
      BY <2>1
    <3> QED
      BY <2>7, <3>1, <3>2, <3>3 DEF FreesLast
  <2> QED
    BY <1>3, <1>4, <2>1, <2>2, <2>7, <2>8 DEF TrimmingLast
<1>10. CASE c + mem[c] # Top
  <2>1. /\ call' = [call EXCEPT !.return_flag = FALSE, !.temp = head]
        /\ mem' = Unmap(mem, brk) /\ block_end' = block_end
        /\ brk' = brk /\ refused' = refused
        /\ UNCHANGED <<head, available_memory, live>>
        /\ pc' = "trim"
    <3> DEFINE size == IF End(c) = block_end THEN SizeOf(c) ELSE 0
    <3>1. CanMove(0) /\ Moved(0) = brk
      BY <1>3, BreakStays
    <3>2. End(c) # block_end
      BY <1>7, <1>8, <1>10
    <3>3. /\ call' = [call EXCEPT !.return_flag = (End(c) = block_end), !.temp = head]
          /\ mem' = Unmap(mem, Moved(-size)) /\ brk' = Moved(-size)
          /\ refused' = (refused \/ ~CanMove(-size))
          /\ block_end' = IF End(c) = block_end THEN c ELSE block_end
          /\ UNCHANGED <<head, available_memory, live>> /\ pc' = "trim"
      BY <1>1 DEF LastBlock, Sbrk
    <3>5. CanMove(-size) /\ Moved(-size) = brk
      BY <3>1, <3>2
    <3> HIDE DEF size
    <3>6. mem' = Unmap(mem, brk) /\ brk' = brk
      BY <3>3, <3>5
    <3>7. (End(c) = block_end) = FALSE
      BY <3>2
    <3>8. call' = [call EXCEPT !.return_flag = FALSE, !.temp = head]
      BY <3>3, <3>7, Zenon
    <3>9. refused' = refused /\ block_end' = block_end
      <4>1. refused = FALSE
        BY <1>3 DEF Break, TypeOK
      <4>2. refused' = refused
        BY <3>3, <3>5, <4>1
      <4>3. block_end' = block_end
        BY <3>2, <3>3
      <4> QED
        BY <4>2, <4>3
    <3> QED
      BY <3>3, <3>6, <3>8, <3>9
  <2>2. /\ ~call'.return_flag /\ call'.op = call.op /\ call'.ptr = call.ptr /\ call'.temp = head
        /\ call'.block = call.block
    BY <1>3, <2>1 DEF Locals
  <2>3. mem' \in [Words -> Nat] /\ \A w \in Words : w < Top => mem'[w] = mem[w]
    BY <1>3, <2>1, BreakStays
  <2>4. \A h \in B : mem'[h] = mem[h] /\ mem'[h + 1] = mem[h + 1] /\ mem'[h + 2] = mem[h + 2]
    <3> TAKE h \in B
    <3>1. /\ h \in Words /\ h + 1 \in Words /\ h + 2 \in Words
          /\ h < Top /\ h + 1 < Top /\ h + 2 < Top
      <4>1. Top \in Nat
        BY <1>3, ConstantTypes DEF Break
      <4> QED
        BY <1>6, <4>1
    <3> QED
      BY <2>3, <3>1
  <2>5. Top' = Top
    BY <2>1 DEF Top
  <2>6. Break'
    BY <1>3, <2>1, <2>5 DEF Break
  <2>7. Chain(mem', head', F, r)
    <3>1. \A x \in F : mem'[x + 1] = mem[x + 1] /\ (x # head => mem'[x + 2] = mem[x + 2])
      BY <1>7, <2>4
    <3>2. head' = head
      BY <2>1
    <3> QED
      BY ONLY <1>4, <3>1, <3>2, ChainSame
  <2>8. Tiles(mem', B, Top)
    <3>1. Tiles(mem, B, Top)
      BY <1>3, <1>5 DEF Shape
    <3> QED
      BY <2>4, <3>1, TilesSame
  <2>9. Holds(mem', live) /\ Filled(mem', live)
    <3>1. /\ mem \in [Words -> Nat] /\ live \in SUBSET [at : Nat \ {0}, len : Nat]
          /\ Holds(mem, live) /\ Tiles(mem, B, Top) /\ Top \in First .. Limit
      BY <1>3, <1>5 DEF TypeOK, Shape, Break
    <3>2. PICK Z : Z = {}
      OBVIOUS
    <3>3. Z \in SUBSET B /\ Used(live) \subseteq B \ Z /\ live \in SUBSET live
      BY <1>5, <3>2
    <3>4. Within(mem, mem', Top, Z)
      BY <2>3 DEF Within
    <3>5. Holds(mem', live)
      BY ONLY <3>1, <3>3, <3>4, LiveKept
    <3>6. Filled(mem', live)
      BY ONLY <1>3, <3>1, <3>3, <3>4, LiveKept
    <3> QED
      BY <3>5, <3>6
  <2>10. live' = live /\ head' = head
    BY <2>1
  <2>11. Shape(F, r, Y)'
    BY <1>3, <1>5, <2>5, <2>7, <2>8, <2>9, <2>10 DEF Shape
  <2>12. \A x \in F : mem'[x] = mem[x] /\ mem'[x + 1] = mem[x + 1]
    BY <1>7, <2>4
  <2>13. Idle(F, r, Y)'
    BY <1>3, <2>5, <2>6, <2>9, <2>10, <2>11, <2>12 DEF Idle, Calm, Apart, NoneLast
  <2>14. Freed(F, r, X)'
    <3>1. (X \cup {call.block})' = Y
      BY <1>1, <1>2, <2>2
    <3> QED
      BY <1>1, <1>3, <2>2, <2>13, <3>1 DEF Freed
  <2>15. FreesInner(F, c)'
    <3>1. FreesInner(F, c)
      BY <1>1, <1>10 DEF Freeing
    <3>2. mem'[c] = mem[c]
      BY <1>7, <2>4
    <3> QED
      BY <2>10, <2>12, <3>1, <3>2 DEF FreesInner
  <2>16. call'.block + mem'[call'.block] # Top'
    BY <1>1, <1>7, <1>10, <2>2, <2>4, <2>5
  <2> QED
    BY <1>1, <1>4, <2>1, <2>2, <2>14, <2>15, <2>16 DEF TrimmingInner, Inner
<1> QED
  BY <1>9, <1>10

-----------------------------------------------------------------------------
(***************************************************************************)
(* The words of the allocations                                            *)
(***************************************************************************)
\* An allocation lies in its block, past the header.
LEMMA PayloadFacts ==
  ASSUME TypeOK, NEW F, NEW r, NEW X, Break, Shape(F, r, X), NEW b \in live
  PROVE  /\ b.at \in Nat \ {0} /\ b.len \in Nat
         /\ b.at - Header \in Used(live)
         /\ b.at - Header \in Nat \ {0} /\ b.at = (b.at - Header) + Header
         /\ SizeOf(b.at - Header) = mem[b.at - Header] /\ mem[b.at - Header] \in Nat
         /\ End(b.at - Header) = b.at - Header + mem[b.at - Header]
         /\ b.len + Header <= mem[b.at - Header]
         /\ \A w \in Payload(b) : /\ w \in Words /\ w \in Int
                                  /\ b.at - Header < w
                                  /\ w < b.at - Header + mem[b.at - Header]
<1>1. b.at \in Nat \ {0} /\ b.len \in Nat
  BY DEF TypeOK
<1>2. b.at - Header \in Used(live) /\ b.at = (b.at - Header) + Header
  BY <1>1 DEF Used, Header
<1>3. PICK h : h = b.at - Header
  OBVIOUS
<1>4. /\ h \in Nat \ {0} /\ mem[h] \in Nat /\ SizeOf(h) = mem[h] /\ End(h) = h + mem[h]
      /\ \A w \in Int : h <= w /\ w < h + mem[h] => w \in Words
  BY <1>2, <1>3, BlockFacts
<1>5. b.len + Header <= mem[h]
  BY <1>3 DEF Shape, Holds
<1>6. \A w \in Payload(b) : w \in Words /\ w \in Int /\ h < w /\ w < h + mem[h]
  <2> TAKE w \in Payload(b)
  <2>1. w \in Int /\ h < w /\ w < h + mem[h]
    BY <1>1, <1>3, <1>4, <1>5 DEF Payload, Header
  <2>2. h <= w
    BY <1>4, <2>1
  <2> QED
    BY <1>4, <2>1, <2>2
<1> QED
  BY <1>1, <1>2, <1>3, <1>4, <1>5, <1>6

\* Every word that differs is one of the block h, past its header.
Inside(m, m2, h) == \A w \in Words : m2[w] # m[w] => h < w /\ w < h + m[h]

\* Headers are kept, and all of a block other than h.
Elsewhere(m, m2, B, h) ==
  /\ \A k \in B : m2[k] = m[k]
  /\ \A k \in B : k # h => \A w \in Words : k <= w /\ w < k + m[k] => m2[w] = m[w]

\* What is written past the header of a block h that is not listed leaves the
\* blocks as they are, whoever owns h then.
LEMMA WritesInside ==
  ASSUME TypeOK, NEW F, NEW r, NEW X, Calm(F, r, X), NoneLast(F),
         NEW h \in Used(live) \cup X,
         mem' \in [Words -> Nat],
         Inside(mem, mem', h),
         UNCHANGED <<head, block_end, available_memory, brk, refused>>,
         NEW Y, Used(live') \cup Y = Used(live) \cup X, Used(live') \cap Y = {},
         Holds(mem, live')
  PROVE  /\ Calm(F, r, Y)' /\ NoneLast(F)'
         /\ Elsewhere(mem, mem', F \cup Used(live) \cup X, h)
<1>1. Break /\ Shape(F, r, X) /\ Apart(F)
  BY DEF Calm
<1>2. PICK B : B = F \cup Used(live) \cup X
  OBVIOUS
<1>3. \A k \in B : /\ k \in Words /\ k + 1 \in Words /\ k + 2 \in Words /\ k \in Nat
                   /\ mem[k] \in Nat /\ mem[k] >= 3
  BY <1>1, <1>2, BlockFacts
<1>4. \A k \in B : k # h => h + mem[h] <= k \/ k + mem[k] <= h
  BY <1>1, <1>2, BlockFacts
<1>5. h \in B /\ F \subseteq B /\ h \notin F
  BY <1>1, <1>2 DEF Shape
<1>6. \A k \in B : k # h => \A w \in Words : k <= w /\ w < k + mem[k] => mem'[w] = mem[w]
  <2> TAKE k \in B
  <2> HAVE k # h
  <2> TAKE w \in Words
  <2> HAVE k <= w /\ w < k + mem[k]
  <2>1. w \in Nat
    BY ConstantTypes
  <2>2. ~(h < w /\ w < h + mem[h])
    BY <1>3, <1>4, <1>5, <2>1
  <2> QED
    BY <2>2 DEF Inside
<1>7. \A k \in B : mem'[k] = mem[k]
  <2> TAKE k \in B
  <2>1. CASE k = h
    BY <1>3, <2>1 DEF Inside
  <2>2. CASE k # h
    <3>1. k \in Words /\ k <= k /\ k < k + mem[k]
      BY <1>3
    <3> QED
      BY <1>6, <2>2, <3>1
  <2> QED
    BY <2>1, <2>2
<1>8. \A k \in F : mem'[k + 1] = mem[k + 1] /\ mem'[k + 2] = mem[k + 2]
  <2> TAKE k \in F
  <2>1. /\ k \in B /\ k # h /\ k + 1 \in Words /\ k + 2 \in Words
        /\ k <= k + 1 /\ k + 1 < k + mem[k] /\ k <= k + 2 /\ k + 2 < k + mem[k]
    BY <1>3, <1>5
  <2> QED
    BY <1>6, <2>1
<1>9. Top' = Top
  BY DEF Top
<1>10. Break'
  BY <1>1, <1>9 DEF Break
<1>11. Chain(mem', head', F, r)
  <2>1. Chain(mem, head, F, r) /\ head' = head
    BY <1>1 DEF Shape
  <2> QED
    BY ONLY <1>8, <2>1, ChainSame
<1>12. Tiles(mem', B, Top)
  <2>1. Tiles(mem, B, Top)
    BY <1>1, <1>2 DEF Shape
  <2> QED
    BY ONLY <1>7, <2>1, TilesSame
<1>13. B = F \cup Used(live') \cup Y
  BY <1>2
<1>14. Holds(mem', live')
  <2>1. \A b \in live' : mem'[b.at - Header] = mem[b.at - Header]
    <3> TAKE b \in live'
    <3>1. b.at - Header \in Used(live')
      BY DEF Used
    <3> QED
      BY <1>7, <1>13, <3>1
  <2> QED
    BY <2>1 DEF Holds
<1>15. F \cap Used(live') = {} /\ F \cap Y = {}
  BY <1>1 DEF Shape
<1>16. Shape(F, r, Y)'
  BY <1>9, <1>11, <1>12, <1>13, <1>14, <1>15 DEF Shape
<1>17. Apart(F)' /\ NoneLast(F)'
  BY <1>1, <1>5, <1>7, <1>9 DEF Apart, NoneLast
<1>18. Elsewhere(mem, mem', F \cup Used(live) \cup X, h)
  BY <1>2, <1>6, <1>7 DEF Elsewhere
<1> QED
  BY <1>10, <1>16, <1>17, <1>18 DEF Calm

\* The allocations of S are in other blocks than h: they keep their contents.
LEMMA KeepsFilled ==
  ASSUME TypeOK, NEW F, NEW r, NEW X, Break, Shape(F, r, X),
         NEW h, NEW S \in SUBSET live, Filled(mem, S),
         \A b \in S : b.at - Header # h,
         Elsewhere(mem, mem', F \cup Used(live) \cup X, h)
  PROVE  Filled(mem', S)
<1> SUFFICES ASSUME NEW b \in S, NEW w \in Payload(b)
             PROVE  mem'[w] = Data(b.at)
  BY DEF Filled
<1>1. b \in live
  OBVIOUS
<1>2. PICK k : k = b.at - Header
  OBVIOUS
<1>3. /\ k \in Used(live) /\ w \in Words /\ w \in Int /\ k < w /\ w < k + mem[k] /\ k \in Nat
  BY <1>1, <1>2, PayloadFacts
<1>4. k # h /\ k <= w
  BY <1>2, <1>3
<1>5. mem'[w] = mem[w]
  BY <1>3, <1>4 DEF Elsewhere
<1> QED
  BY <1>5 DEF Filled

\* The client fills what it was given and holds it like the rest.
LEMMA FillStep ==
  ASSUME TypeOK, NEW F, NEW r, NEW X, Filling(F, r, X), Fill
  PROVE  pc' = "idle" /\ call' = NoCall /\ Idle(F, r, X)'
<1>1. /\ Calm(F, r, X) /\ NoneLast(F) /\ Filled(mem, live \ Given) /\ Given # {}
      /\ Break /\ Shape(F, r, X) /\ Holds(mem, live)
  BY DEF Filling, Calm, Shape
<1>a. Calm(F, r, X) /\ NoneLast(F)
  BY <1>1
<1>b. Break /\ Shape(F, r, X)
  BY <1>1
<1>2. PICK h : h = call.block
  OBVIOUS
<1>3. \A b \in live : b.at \in Nat \ {0} /\ b.at - Header \in Used(live)
  BY <1>1, PayloadFacts
<1>4. PICK b \in live : b.at = h + Header
  BY <1>1, <1>2 DEF Given
<1>5. h \in Nat
  BY <1>2 DEF TypeOK, Locals
<1>6. b.at - Header = h
  BY <1>3, <1>4, <1>5 DEF Header
<1>7. Given = {b}
  <2>1. b \in Given /\ \A g \in Given : g \in live /\ g.at = b.at
    BY <1>2, <1>4 DEF Given
  <2> QED
    BY <1>1, <2>1 DEF Holds
<1>8. h \in Used(live) \cup X /\ h \in Used(live)
  BY <1>3, <1>6
<1>9. \A w \in Payload(b) : w \in Words /\ h < w /\ w < h + mem[h]
  BY <1>1, <1>6, PayloadFacts
<1>10. Data(b.at) \in Nat /\ mem \in [Words -> Nat]
  BY <1>3, ConstantTypes DEF Data, TypeOK
<1>11. /\ mem' = [w \in Words |-> IF w \in Payload(b) THEN Data(b.at) ELSE mem[w]]
       /\ pc' = "idle" /\ call' = NoCall
       /\ UNCHANGED <<head, block_end, available_memory, brk, refused, live>>
  BY <1>2, <1>4, <1>7 DEF Fill
<1>12. /\ mem' \in [Words -> Nat]
       /\ \A w \in Words : mem'[w] = IF w \in Payload(b) THEN Data(b.at) ELSE mem[w]
  BY <1>10, <1>11
<1>13. Inside(mem, mem', h)
  BY <1>9, <1>12 DEF Inside
<1>14. /\ Used(live') \cup X = Used(live) \cup X /\ Used(live') \cap X = {}
       /\ Holds(mem, live')
  BY <1>1, <1>11 DEF Shape
<1>15. Calm(F, r, X)' /\ NoneLast(F)'
  BY ONLY TypeOK, <1>a, <1>8, <1>11, <1>12, <1>13, <1>14, WritesInside
<1>16. Elsewhere(mem, mem', F \cup Used(live) \cup X, h)
  BY ONLY TypeOK, <1>a, <1>8, <1>11, <1>12, <1>13, <1>14, WritesInside
<1>17. Filled(mem', live \ {b})
  <2>1. PICK S : S = live \ {b}
    OBVIOUS
  <2>2. S \in SUBSET live /\ Filled(mem, S)
    BY <1>1, <1>7, <2>1
  <2>3. \A c \in S : c.at - Header # h
    <3> TAKE c \in S
    <3>1. c \in live /\ c # b
      BY <2>1
    <3>2. c.at # b.at
      BY <1>1, <3>1 DEF Holds
    <3> QED
      BY <1>3, <1>6, <3>1, <3>2 DEF Header
  <2>4. Filled(mem', S)
    BY ONLY TypeOK, <1>b, <1>16, <2>2, <2>3, KeepsFilled
  <2> QED
    BY <2>1, <2>4
<1>18. \A w \in Payload(b) : mem'[w] = Data(b.at)
  BY <1>9, <1>12
<1>19. Filled(mem', live)
  BY <1>17, <1>18 DEF Filled
<1>20. Filled(mem, live)'
  BY <1>11, <1>19 DEF Filled
<1> QED
  BY <1>11, <1>15, <1>20 DEF Idle

\* The client frees a block that it may free.
LEMMA CallFreeStep ==
  ASSUME TypeOK, NEW F, NEW r, NEW X, Idle(F, r, X), NEW b \in live, CallFree(b),
         IF b.at - Header + mem[b.at - Header] = Top
         THEN FreesLast(F, b.at - Header) ELSE FreesInner(F, b.at - Header)
  PROVE  pc' = "last" /\ call'.op = "free" /\ Freeing(F, r, X)'
<1>1. /\ Calm(F, r, X) /\ NoneLast(F) /\ Filled(mem, live)
      /\ Break /\ Shape(F, r, X) /\ Holds(mem, live)
  BY DEF Idle, Calm, Shape
<1>a. Calm(F, r, X) /\ NoneLast(F)
  BY <1>1
<1>b. Break /\ Shape(F, r, X)
  BY <1>1
<1>2. PICK h : h = b.at - Header
  OBVIOUS
<1>3. \A c \in live : c.at \in Nat \ {0} /\ c.at - Header \in Used(live)
  BY <1>1, PayloadFacts
<1>4. h \in Used(live) \cup X /\ h \in Used(live)
  BY <1>2, <1>3
<1>5. \A w \in Payload(b) : w \in Words /\ h < w /\ w < h + mem[h]
  BY <1>1, <1>2, PayloadFacts
<1>6. Poison \in Nat /\ mem \in [Words -> Nat]
  BY ConstantTypes DEF TypeOK
<1>7. /\ live' = live \ {b} /\ mem' = Overwrite(mem, Payload(b), Poison)
      /\ call' = [NoCall EXCEPT !.op = "free", !.block = h]
      /\ pc' = "last"
      /\ UNCHANGED <<head, block_end, available_memory, brk, refused>>
  BY <1>2 DEF CallFree
<1>8. /\ mem' \in [Words -> Nat]
      /\ \A w \in Words : mem'[w] = IF w \in Payload(b) THEN Poison ELSE mem[w]
  BY <1>6, <1>7, OverwriteIn
<1>9. Inside(mem, mem', h)
  BY <1>5, <1>8 DEF Inside
<1>10. \A c \in live \ {b} : c.at - Header # h
  <2> TAKE c \in live \ {b}
  <2>1. c.at # b.at
    BY <1>1 DEF Holds
  <2> QED
    BY <1>2, <1>3, <2>1 DEF Header
<1>11. PICK Y : Y = X \cup {h}
  OBVIOUS
<1>12. Used(live') = Used(live) \ {h}
  BY <1>2, <1>7, <1>10 DEF Used
<1>13. h \notin X /\ Used(live) \cap X = {}
  BY <1>1, <1>4 DEF Shape
<1>14. /\ Used(live') \cup Y = Used(live) \cup X /\ Used(live') \cap Y = {}
       /\ Holds(mem, live')
  <2>1. Holds(mem, live')
    BY <1>1, <1>7 DEF Holds
  <2> QED
    BY <1>4, <1>11, <1>12, <1>13, <2>1
<1>15. Calm(F, r, Y)' /\ NoneLast(F)'
  BY ONLY TypeOK, <1>a, <1>4, <1>7, <1>8, <1>9, <1>14, WritesInside
<1>16. Elsewhere(mem, mem', F \cup Used(live) \cup X, h)
  BY ONLY TypeOK, <1>a, <1>4, <1>7, <1>8, <1>9, <1>14, WritesInside
<1>17. Filled(mem', live')
  <2>1. live' \in SUBSET live /\ Filled(mem, live') /\ \A c \in live' : c.at - Header # h
    BY <1>1, <1>7, <1>10 DEF Filled
  <2>2. PICK S : S = live'
    OBVIOUS
  <2>3. Filled(mem', S)
    BY ONLY TypeOK, <1>b, <1>16, <2>1, <2>2, KeepsFilled
  <2> QED
    BY <2>2, <2>3
<1>18. Filled(mem, live)'
  BY <1>17 DEF Filled
<1>19. call'.op = "free" /\ call'.block = h /\ call'.ptr = NULL
  BY <1>7 DEF NoCall
<1>20. Freed(F, r, X)'
  <2>1. (X \cup {call.block})' = Y
    BY <1>11, <1>19
  <2> QED
    BY <1>13, <1>15, <1>18, <1>19, <2>1 DEF Freed, Idle
<1>21. /\ mem'[h] = mem[h] /\ \A x \in F : mem'[x] = mem[x] /\ mem'[x + 1] = mem[x + 1]
       /\ head' = head /\ available_memory' = available_memory /\ Top' = Top
  <2>1. mem'[h] = mem[h] /\ \A x \in F : mem'[x] = mem[x]
    BY <1>4, <1>16 DEF Elsewhere
  <2>2. ASSUME NEW x \in F
        PROVE  mem'[x + 1] = mem[x + 1]
    <3>1. x # h
      BY <1>1, <1>4 DEF Shape
    <3>2. x + 1 \in Words /\ x <= x + 1 /\ x + 1 < x + mem[x]
      BY <1>1, BlockFacts
    <3> QED
      BY <1>16, <3>1, <3>2 DEF Elsewhere
  <2>3. Top' = Top
    BY <1>7 DEF Top
  <2> QED
    BY <1>7, <2>1, <2>2, <2>3
<1>22. IF call'.block + mem'[call'.block] = Top'
       THEN FreesLast(F, call.block)' ELSE FreesInner(F, call.block)'
  <2>1. CASE h + mem[h] = Top
    <3>1. FreesLast(F, h)
      BY <1>2, <2>1
    <3> QED
      BY <1>19, <1>21, <2>1, <3>1 DEF FreesLast
  <2>2. CASE h + mem[h] # Top
    <3>1. FreesInner(F, h)
      BY <1>2, <2>2
    <3> QED
      BY <1>19, <1>21, <2>2, <3>1 DEF FreesInner
  <2> QED
    BY <2>1, <2>2
<1> QED
  BY <1>7, <1>19, <1>20, <1>22 DEF Freeing

\* The block in hand becomes an allocation: of kurealloc, instead of the old one,
\* whose block nobody frees.
LEMMA ReturnStep ==
  ASSUME TypeOK, NEW F, NEW r, NEW X, Returning(F, r, X), Return
  PROVE  /\ pc' = "fill" /\ call' = call
         /\ \E Y : (call.op # "realloc" => Y = X) /\ Filling(F, r, Y)'
<1>1. PICK c : c = call.block
  OBVIOUS
<1>2. PICK Z : Z = X \cup {c}
  OBVIOUS
<1>3. /\ Calm(F, r, Z) /\ NoneLast(F) /\ Filled(mem, live) /\ Break /\ Shape(F, r, Z)
      /\ Holds(mem, live) /\ Requesting /\ c \notin X /\ mem[c] = call.total /\ c \in Z
  BY <1>1, <1>2 DEF Returning, Idle, Calm, Shape
<1>a. Calm(F, r, Z) /\ NoneLast(F)
  BY <1>3
<1>b. Break /\ Shape(F, r, Z)
  BY <1>3
<1>4. \A b \in live : /\ b.at \in Nat \ {0} /\ b.at - Header \in Used(live)
                      /\ b.at - Header \in Nat \ {0}
  BY <1>b, PayloadFacts
<1>5. /\ c \in Nat \ {0} /\ mem[c] \in Nat /\ mem[c] >= 3 /\ mem \in [Words -> Nat]
      /\ c \notin Used(live) /\ c \notin F
  <2>1. c \notin Used(live) /\ c \notin F
    BY <1>3 DEF Shape
  <2> QED
    BY <1>3, <2>1, BlockFacts
<1>6. /\ call.len \in Nat /\ call.total \in Nat /\ call.prev_size \in Nat /\ call.ptr \in Nat
      /\ call \in Locals
  BY DEF TypeOK, Locals
<1>7. PICK new : new = [at |-> c + Header, len |-> call.len]
  OBVIOUS
<1>8. /\ new.at - Header = c /\ new.len = call.len /\ new.at = c + Header
      /\ new.len + Header <= mem[c]
  <2>1. call.len + Header <= call.total
    BY <1>3, <1>6 DEF Requesting, Header
  <2> QED
    BY <1>3, <1>5, <1>6, <1>7, <2>1 DEF Header
<1>9. PICK old : old = {b \in live : b.at = call.ptr}
  OBVIOUS
<1>10. /\ live' = (live \ old) \cup {new} /\ pc' = "fill" /\ call' = call
       /\ UNCHANGED <<head, block_end, available_memory, brk, refused>>
  <2>1. {b \in live : b.at # call.ptr} = live \ old
    BY <1>9
  <2> QED
    BY <1>1, <1>7, <2>1 DEF Return
<1>11. mem' \in [Words -> Nat] /\ Inside(mem, mem', c)
  <2>1. CASE call.op = "calloc"
    <3>1. mem' = Overwrite(mem, Cleared, 0)
      BY <2>1 DEF Return
    <3>2. /\ mem' \in [Words -> Nat]
          /\ \A w \in Words : mem'[w] = IF w \in Cleared THEN 0 ELSE mem[w]
      BY <1>5, <3>1, OverwriteIn
    <3>3. \A w \in Cleared : c < w /\ w < c + mem[c]
      BY <1>1, <1>3, <1>5, <1>6 DEF Cleared, Header
    <3> QED
      BY <3>2, <3>3 DEF Inside
  <2>2. CASE call.op = "realloc"
    <3>1. mem' = [a \in Words |-> IF a \in Copied
                                  THEN Read(mem, a - call.block - 1 + call.ptr) ELSE mem[a]]
      BY <2>2 DEF Return
    <3>2. mem' \in [Words -> Nat]
      BY <1>5, <3>1, ReadType
    <3>3. call.prev_size < call.len /\ call.total = call.len + 2 * Header
      BY <1>3, <2>2 DEF Requesting
    <3>4. \A w \in Copied : c < w /\ w < c + mem[c]
      BY <1>1, <1>3, <1>5, <1>6, <3>3 DEF Copied, Header
    <3> QED
      BY <3>1, <3>2, <3>4 DEF Inside
  <2>3. CASE call.op = "malloc"
    <3>1. mem' = mem
      BY <2>3, Zenon DEF Return
    <3> QED
      BY <1>5, <3>1 DEF Inside
  <2> QED
    BY <1>3, <2>1, <2>2, <2>3 DEF Requesting
<1>12. PICK Y : Y = X \cup Used(old)
  OBVIOUS
<1>13. call.op # "realloc" => Y = X
  <2> HAVE call.op # "realloc"
  <2>1. call.ptr = NULL
    BY <1>3 DEF Requesting
  <2>2. old = {}
    BY <1>4, <1>9, <2>1 DEF NULL
  <2> QED
    BY <1>12, <2>2 DEF Used
<1>14. Used(live') = (Used(live) \ Used(old)) \cup {c}
  <2>1. Used(live') = Used(live \ old) \cup {c}
    BY <1>8, <1>10 DEF Used
  <2>2. Used(live \ old) = Used(live) \ Used(old)
    <3>1. ASSUME NEW b \in live \ old, NEW o \in old
          PROVE  b.at - Header # o.at - Header
      <4>1. b \in live /\ o \in live /\ b.at # o.at
        BY <1>9
      <4> QED
        BY <1>4, <4>1 DEF Header
    <3>2. Used(live \ old) \subseteq Used(live) \ Used(old)
      BY <3>1 DEF Used
    <3>3. Used(live) \ Used(old) \subseteq Used(live \ old)
      BY DEF Used
    <3> QED
      BY <3>2, <3>3
  <2> QED
    BY <2>1, <2>2
<1>15. Used(old) \subseteq Used(live) /\ Used(live) \cap X = {}
  BY <1>2, <1>3, <1>9 DEF Used, Shape
<1>16. Used(live') \cup Y = Used(live) \cup Z /\ Used(live') \cap Y = {}
  BY <1>2, <1>3, <1>5, <1>12, <1>14, <1>15
<1>17. Holds(mem, live')
  <2>1. \A b \in live' : b.len + Header <= mem[b.at - Header]
    BY <1>3, <1>8, <1>10 DEF Holds
  <2>2. \A b \in live : b.at # new.at
    <3> TAKE b \in live
    <3>1. b.at - Header # new.at - Header
      BY <1>4, <1>5, <1>8
    <3> QED
      BY <3>1
  <2>3. \A b, d \in live' : b.at = d.at => b = d
    BY <1>3, <1>10, <2>2 DEF Holds
  <2> QED
    BY <2>1, <2>3 DEF Holds
<1>c. c \in Used(live) \cup Z
  BY <1>3
<1>18. Calm(F, r, Y)' /\ NoneLast(F)'
  BY ONLY TypeOK, <1>a, <1>10, <1>11, <1>16, <1>17, <1>c, WritesInside
<1>19. Elsewhere(mem, mem', F \cup Used(live) \cup Z, c)
  BY ONLY TypeOK, <1>a, <1>10, <1>11, <1>16, <1>17, <1>c, WritesInside
<1>20. PICK S : S = live \ old
  OBVIOUS
<1>21. Filled(mem', S)
  <2>1. S \in SUBSET live /\ Filled(mem, S)
    BY <1>3, <1>20 DEF Filled
  <2>2. \A b \in S : b.at - Header # c
    BY <1>4, <1>5, <1>20
  <2> QED
    BY ONLY TypeOK, <1>b, <1>19, <2>1, <2>2, KeepsFilled
<1>22. new \in Given' /\ live' \ Given' \subseteq S
  BY <1>1, <1>8, <1>10, <1>20 DEF Given
<1>23. Filled(mem, live \ Given)'
  BY <1>21, <1>22 DEF Filled
<1>24. Filling(F, r, Y)'
  BY <1>18, <1>22, <1>23 DEF Filling
<1> QED
  BY <1>10, <1>13, <1>24

\* kurealloc leaves an allocation where it is: it only has another length.
LEMMA ResizeStep ==
  ASSUME TypeOK, NEW F, NEW r, NEW X, Idle(F, r, X),
         NEW b \in live, NEW n \in Nat, CallRealloc(b, n),
         SizeOf(b.at - Header) >= n, n <= SizeOf(b.at - Header) - Header
  PROVE  pc' = "fill" /\ call'.op = "resize" /\ Filling(F, r, X)'
<1>1. /\ Calm(F, r, X) /\ NoneLast(F) /\ Filled(mem, live)
      /\ Break /\ Shape(F, r, X) /\ Holds(mem, live)
  BY DEF Idle, Calm, Shape
<1>2. PICK h : h = b.at - Header
  OBVIOUS
<1>3. \A c \in live : c.at \in Nat \ {0} /\ c.at - Header \in Used(live)
  BY <1>1, PayloadFacts
<1>4. /\ h \in Used(live) /\ h \in Nat /\ b.at = h + Header
      /\ SizeOf(h) = mem[h] /\ mem[h] \in Nat
  BY <1>1, <1>2, PayloadFacts
<1>5. PICK new : new = [at |-> b.at, len |-> n]
  OBVIOUS
<1>6. /\ live' = (live \ {b}) \cup {new}
      /\ call' = [NoCall EXCEPT !.op = "resize", !.ptr = b.at, !.len = b.len, !.block = h]
      /\ pc' = "fill" /\ UNCHANGED code
  BY <1>2, <1>5 DEF CallRealloc
<1>7. new.at = b.at /\ new.len = n /\ new.at - Header = h /\ n + Header <= mem[h]
  BY <1>2, <1>4, <1>5 DEF Header
<1>8. /\ mem' = mem /\ head' = head /\ block_end' = block_end
      /\ available_memory' = available_memory /\ brk' = brk /\ refused' = refused
  BY <1>6 DEF code
<1>9. Used(live') = Used(live)
  BY <1>2, <1>6, <1>7 DEF Used
<1>10. Holds(mem, live')
  <2>1. \A c \in live' : c.len + Header <= mem[c.at - Header]
    BY <1>1, <1>6, <1>7 DEF Holds
  <2>2. \A c \in live \ {b} : c.at # new.at
    BY <1>1, <1>7 DEF Holds
  <2>3. \A c, d \in live' : c.at = d.at => c = d
    BY <1>1, <1>6, <2>2 DEF Holds
  <2> QED
    BY <2>1, <2>3 DEF Holds
<1>11. Break' /\ Top' = Top
  BY <1>1, <1>8 DEF Break, Top
<1>12. Calm(F, r, X)' /\ NoneLast(F)'
  BY <1>1, <1>8, <1>9, <1>10, <1>11 DEF Calm, Shape, Apart, NoneLast
<1>13. call'.op = "resize" /\ call'.block = h
  BY <1>6 DEF NoCall
<1>14. new \in Given' /\ live' \ Given' \subseteq live
  BY <1>4, <1>6, <1>7, <1>13 DEF Given
<1>15. Filled(mem, live \ Given)'
  BY <1>1, <1>8, <1>14 DEF Filled
<1> QED
  BY <1>6, <1>12, <1>13, <1>14, <1>15 DEF Filling

-----------------------------------------------------------------------------
(***************************************************************************)
(* Taking a listed block                                                   *)
(***************************************************************************)
\* What is asked for is a block of three words or more.
LEMMA RequestTotal ==
  ASSUME TypeOK, NEW F, NEW r, NEW X, Break, Shape(F, r, X), Requesting
  PROVE  call.total \in Nat /\ call.total >= 3 /\ call.block \in Nat
<1>1. call.total \in Nat /\ call.len \in Nat /\ call.block \in Nat
  BY DEF TypeOK, Locals
<1>2. CASE call.op \in {"malloc", "calloc"}
  BY <1>1, <1>2 DEF Requesting, Header
<1>3. CASE call.op = "realloc"
  <2>1. PICK b \in live : b.at = call.ptr
    BY <1>3 DEF Requesting
  <2>2. PICK h : h = b.at - Header
    OBVIOUS
  <2>3. mem[h] \in Nat /\ h \in Used(live)
    BY <2>2, PayloadFacts
  <2>4. mem[h] >= 3
    BY <2>3, BlockFacts
  <2>5. /\ call.total = call.len + 2 * Header
        /\ call.prev_size = mem[h] /\ call.prev_size < call.len
    BY <1>3, <2>1, <2>2 DEF Requesting
  <2> QED
    BY <1>1, <2>3, <2>4, <2>5 DEF Header
<1> QED
  BY <1>2, <1>3 DEF Requesting

\* The request stands while the headers of the allocations do.
LEMMA RequestKept ==
  ASSUME Requesting, \A h \in Used(live) : mem'[h] = mem[h],
         live' = live, brk' = brk,
         call'.op = call.op, call'.ptr = call.ptr, call'.len = call.len,
         call'.total = call.total, call'.prev_size = call.prev_size
  PROVE  Requesting'
<1>1. CASE call.op = "realloc"
  <2>1. PICK b \in live : b.at = call.ptr
    BY <1>1 DEF Requesting
  <2>2. call.ptr - Header \in Used(live)
    BY <2>1 DEF Used
  <2>3. mem'[call.ptr - Header] = mem[call.ptr - Header]
    BY <2>2
  <2> QED
    BY <1>1, <2>3 DEF Requesting
<1> QED
  BY <1>1 DEF Requesting

\* The list and the blocks outside it change, the allocations do not.
LEMMA KeepsIdle ==
  ASSUME TypeOK, NEW F, NEW r, NEW X, Idle(F, r, X),
         UNCHANGED <<block_end, available_memory, brk, refused, live>>,
         NEW G, NEW q, NEW Y,
         Chain(mem', head', G, q),
         Tiles(mem', G \cup Used(live) \cup Y, Top),
         G \cap Used(live) = {}, G \cap Y = {}, Used(live) \cap Y = {},
         Within(mem, mem', Top, F \cup X),
         \A x \in G : x + mem'[x] # Top /\ \A y \in G : x + mem'[x] # y
  PROVE  Idle(G, q, Y)' /\ \A h \in Used(live) : mem'[h] = mem[h]
<1>1. Break /\ Shape(F, r, X) /\ Filled(mem, live)
  BY DEF Idle, Calm
<1>2. Top' = Top /\ live' = live
  BY DEF Top
<1>3. Break'
  BY <1>1, <1>2 DEF Break
<1>4. /\ mem \in [Words -> Nat] /\ Top \in First .. Limit
      /\ live \in SUBSET [at : Nat \ {0}, len : Nat]
  BY <1>1, BlockFacts DEF TypeOK
<1>5. PICK Z, B : Z = F \cup X /\ B = F \cup Used(live) \cup X
  <2>1. \E Z, B : Z = F \cup X /\ B = F \cup Used(live) \cup X
    OBVIOUS
  <2> QED
    BY <2>1
<1>6. /\ Z \in SUBSET B /\ Used(live) \subseteq B \ Z /\ Tiles(mem, B, Top)
      /\ Holds(mem, live) /\ live \in SUBSET live
  BY <1>1, <1>5 DEF Shape
<1>7. Within(mem, mem', Top, Z)
  BY <1>5
<1>8. Holds(mem', live)
  BY ONLY <1>4, <1>6, <1>7, LiveKept
<1>9. \A h \in Used(live) : mem'[h] = mem[h]
  BY ONLY <1>4, <1>6, <1>7, LiveKept
<1>10. Filled(mem', live)
  BY ONLY <1>1, <1>4, <1>6, <1>7, LiveKept
<1>11. Shape(G, q, Y)'
  BY <1>2, <1>8 DEF Shape
<1> QED
  BY <1>2, <1>3, <1>9, <1>10, <1>11 DEF Idle, Calm, Apart, NoneLast

\* A listed block is split: what is written lies in it.
LEMMA SplitFacts ==
  ASSUME TypeOK, NEW F, NEW r, NEW X, Taking(F, r, X),
         NEW b, b = call.block, NEW s, s = b + call.total
  PROVE  /\ Split \in [Words -> Nat]
         /\ \A w \in Words : Split[w] = IF w = b THEN call.total
                                        ELSE IF w = s THEN mem[b] - call.total
                                        ELSE IF w = s + 1 THEN NULL ELSE mem[w]
         /\ Subseq = s /\ s \in Nat \ {0} /\ b \in Nat \ {0} /\ b + 3 <= s
         /\ s \in Words /\ s + 1 \in Words /\ s + 2 \in Words /\ s + 3 <= b + mem[b]
         /\ mem[b] \in Nat /\ call.total \in Nat /\ call.total >= 3
         /\ mem[b] >= call.total + 3
         /\ SizeOf(b) = mem[b]
         /\ b \in F /\ (b = head <=> mem[b + 1] = NULL)
         /\ Idle(F, r, X) /\ Break /\ Shape(F, r, X) /\ Requesting
<1>1. Idle(F, r, X) /\ Break /\ Shape(F, r, X) /\ Requesting /\ b \in F /\ Splits(b, call.total)
  BY DEF Taking, Idle, Calm
<1>2. call.total \in Nat /\ call.total >= 3
  BY <1>1, RequestTotal
<1>3. mem[b] >= call.total + 3 /\ (b = head <=> mem[b + 1] = NULL)
  BY <1>1 DEF Splits
<1>4. /\ b \in Nat \ {0} /\ mem[b] \in Nat /\ b \in Words /\ SizeOf(b) = mem[b]
      /\ \A w \in Int : b <= w /\ w < b + mem[b] => w \in Words
  BY <1>1, BlockFacts
<1>5. s \in Nat \ {0} /\ b + 3 <= s /\ s + 3 <= b + mem[b]
  BY <1>2, <1>3, <1>4
<1>6. s \in Words /\ s + 1 \in Words /\ s + 2 \in Words
  <2>1. /\ s \in Int /\ b <= s /\ s < b + mem[b]
        /\ s + 1 \in Int /\ b <= s + 1 /\ s + 1 < b + mem[b]
        /\ s + 2 \in Int /\ b <= s + 2 /\ s + 2 < b + mem[b]
    BY <1>4, <1>5
  <2> QED
    BY <1>4, <2>1
<1>7. Subseq = s
  BY DEF Subseq
<1> DEFINE m1 == Write(mem, s + 1, NULL)
           m2 == Write(m1, s, mem[b] - call.total)
<1>8. Split = Write(m2, b, call.total)
  BY <1>4, <1>7 DEF Split, Next_
<1>9. Wrote(mem, m1, s + 1, NULL)
  BY <1>6, WriteIn DEF TypeOK, NULL
<1>10. Wrote(m1, m2, s, mem[b] - call.total)
  <2>1. m1 \in [Words -> Nat] /\ mem[b] - call.total \in Nat
    BY <1>2, <1>3, <1>4, <1>9 DEF Wrote
  <2> HIDE DEF m1
  <2> QED
    BY <1>6, <2>1, WriteIn
<1> HIDE DEF m1
<1>11. Wrote(m2, Split, b, call.total)
  <2>1. m2 \in [Words -> Nat]
    BY <1>10 DEF Wrote
  <2> HIDE DEF m2
  <2> QED
    BY <1>2, <1>4, <1>8, <2>1, WriteIn
<1> HIDE DEF m2
<1>12. Split \in [Words -> Nat]
  BY <1>11 DEF Wrote
<1>13. \A w \in Words : Split[w] = IF w = b THEN call.total
                                   ELSE IF w = s THEN mem[b] - call.total
                                   ELSE IF w = s + 1 THEN NULL ELSE mem[w]
  BY <1>9, <1>10, <1>11 DEF Wrote
<1> QED
  BY <1>1, <1>2, <1>3, <1>4, <1>5, <1>6, <1>7, <1>12, <1>13

\* The blocks after the split: s is one of its own.
LEMMA SplitTiles ==
  ASSUME TypeOK, NEW F, NEW r, NEW X, Taking(F, r, X),
         NEW b, b = call.block, NEW s, s = b + call.total,
         NEW B, B = F \cup Used(live) \cup X,
         mem'[b] = call.total, mem'[s] = mem[b] - call.total,
         \A h \in B : h # b => mem'[h] = mem[h]
  PROVE  Tiles(mem', B \cup {s}, Top) /\ s \notin B
<1>1. /\ call.total \in Nat /\ call.total >= 3 /\ mem[b] >= call.total + 3
      /\ b \in F /\ Break /\ Shape(F, r, X)
  BY SplitFacts
<1>2. Tiles(mem, B, Top) /\ b \in B
  BY <1>1 DEF Shape
<1>3. Top \in Nat
  BY <1>1, ConstantTypes DEF Break
<1>4. mem'[b + call.total] = mem[b] - call.total
  OBVIOUS
<1>5. PICK t : t = call.total
  OBVIOUS
<1>6. /\ t \in Nat /\ t >= 3 /\ mem[b] >= t + 3 /\ mem'[b] = t /\ mem'[b + t] = mem[b] - t
      /\ s = b + t
  BY <1>1, <1>4, <1>5
<1>7. Tiles(mem', B \cup {b + t}, Top) /\ b + t \notin B
  BY ONLY <1>2, <1>3, <1>6, TilesSplit, \A h \in B : h # b => mem'[h] = mem[h]
<1> QED
  BY <1>6, <1>7

\* The head of the list is split and handed out (alloc.c:94-109).
LEMMA TakeHeadStep ==
  ASSUME TypeOK, NEW F, NEW r, NEW X, Taking(F, r, X), TakeHead
  PROVE  pc' = "return" /\ call' = call /\ \E G, q : Returning(G, q, X)'
<1>1. PICK b, s : b = call.block /\ s = b + call.total
  <2>1. \E b, s : b = call.block /\ s = b + call.total
    OBVIOUS
  <2> QED
    BY <2>1
<1>2. /\ Split \in [Words -> Nat]
      /\ \A w \in Words : Split[w] = IF w = b THEN call.total
                                     ELSE IF w = s THEN mem[b] - call.total
                                     ELSE IF w = s + 1 THEN NULL ELSE mem[w]
  BY <1>1, SplitFacts
<1>3. /\ Subseq = s /\ s \in Nat \ {0} /\ b \in Nat \ {0} /\ b + 3 <= s
      /\ s \in Words /\ s + 1 \in Words /\ s + 2 \in Words /\ s + 3 <= b + mem[b]
      /\ mem[b] \in Nat /\ call.total \in Nat /\ call.total >= 3
      /\ mem[b] >= call.total + 3 /\ SizeOf(b) = mem[b]
      /\ b \in F /\ (b = head <=> mem[b + 1] = NULL)
  BY <1>1, SplitFacts
<1>4. Idle(F, r, X) /\ Break /\ Shape(F, r, X) /\ Requesting
  BY <1>1, SplitFacts
<1>5. b = head /\ mem[b + 1] = NULL
  BY <1>1, <1>3 DEF TakeHead
<1>6. F = {b} /\ Chain(mem, head, F, r)
  <2>1. Chain(mem, head, F, r)
    BY <1>4 DEF Shape
  <2>2. \A x \in F : r[x] \in Int /\ r[x] <= r[b] /\ r[b] <= r[x]
    BY <1>3, <1>5, <2>1 DEF Chain
  <2>3. \A x \in F : r[x] = r[b]
    BY <1>3, <2>2
  <2>4. \A x, y \in F : r[x] = r[y] => x = y
    BY <2>1 DEF Chain
  <2> QED
    BY <1>3, <2>1, <2>3, <2>4
<1>7. PICK B : B = F \cup Used(live) \cup X
  OBVIOUS
<1>8. \A h \in B : h \in Words /\ h + 1 \in Words /\ h + 2 \in Words /\ h \in Nat
                   /\ mem[h] \in Nat /\ mem[h] >= 3
  BY <1>4, <1>7, BlockFacts
<1>9. \A h \in B : h # b => h + mem[h] <= b \/ b + mem[b] <= h
  BY <1>3, <1>4, <1>7, BlockFacts
<1>10. PICK p : p = mem[b + 2]
  OBVIOUS
<1>11. p \in Nat
  BY <1>3, <1>7, <1>8, <1>10 DEF TypeOK
<1> DEFINE m1 == Write(Split, s + 1, NULL)
           m2 == Write(m1, s + 2, p)
<1>12. Wrote(Split, m1, s + 1, NULL)
  BY <1>2, <1>3, WriteIn DEF NULL
<1>13. Wrote(m1, m2, s + 2, p)
  <2>1. m1 \in [Words -> Nat]
    BY <1>12 DEF Wrote
  <2> HIDE DEF m1
  <2> QED
    BY <1>3, <1>11, <2>1, WriteIn
<1>14. Read(Split, Next_(b)) = NULL /\ Read(m1, Prev_(b)) = p
  <2>1. b + 1 \in Words /\ b + 2 \in Words
    BY <1>3, <1>7, <1>8
  <2>2. Split[b + 1] = NULL
    BY <1>2, <1>3, <1>5, <2>1
  <2>3. m1[b + 2] = p
    <3> HIDE DEF m1
    <3> QED
      BY <1>2, <1>3, <1>10, <1>12, <2>1 DEF Wrote
  <2> HIDE DEF m1
  <2> QED
    BY <2>1, <2>2, <2>3 DEF Read, Next_, Prev_
<1>15. /\ mem' = m2 /\ head' = s /\ pc' = "return"
       /\ UNCHANGED <<block_end, available_memory, brk, refused, live, call>>
  <2>1. SizeOf(head) > call.total /\ ~(SizeOf(head) <= call.total)
    BY <1>3, <1>5
  <2>2. Write(Split, Next_(Subseq), Read(Split, Next_(head))) = m1
    BY <1>3, <1>5, <1>14 DEF Next_
  <2>3. Prev_(Subseq) = s + 2
    BY <1>3 DEF Prev_
  <2> DEFINE m0 == Write(Split, Next_(Subseq), Read(Split, Next_(head)))
  <2>4. /\ mem' = Write(m0, Prev_(Subseq), Read(m0, Prev_(head)))
        /\ head' = Subseq /\ pc' = "return"
        /\ UNCHANGED <<block_end, available_memory, brk, refused, live, call>>
    BY <2>1 DEF TakeHead
  <2> HIDE DEF m0, m1
  <2>5. m0 = m1
    BY <2>2 DEF m0
  <2> QED
    BY <1>3, <1>5, <1>14, <2>3, <2>4, <2>5
<1> HIDE DEF m1, m2
<1>16. \A w \in Words : mem'[w] = IF w = s + 2 THEN p
                                  ELSE IF w = s + 1 THEN NULL
                                  ELSE IF w = s THEN mem[b] - call.total
                                  ELSE IF w = b THEN call.total ELSE mem[w]
  BY <1>2, <1>3, <1>12, <1>13, <1>15 DEF Wrote
<1>17. /\ mem'[b] = call.total /\ mem'[s] = mem[b] - call.total /\ mem'[s + 1] = NULL
       /\ \A h \in B : h # b => mem'[h] = mem[h]
  <2>1. b \in Words
    BY <1>3, <1>7, <1>8
  <2>2. mem'[b] = call.total /\ mem'[s] = mem[b] - call.total /\ mem'[s + 1] = NULL
    BY <1>3, <1>16, <2>1
  <2>3. ASSUME NEW h \in B, h # b
        PROVE  mem'[h] = mem[h]
    <3>1. h \in Words /\ h # s /\ h # s + 1 /\ h # s + 2
      BY <1>3, <1>8, <1>9, <2>3
    <3> QED
      BY <1>16, <2>3, <3>1
  <2> QED
    BY <2>2, <2>3
<1>18. Tiles(mem', B \cup {s}, Top) /\ s \notin B
  <2>1. Taking(F, r, X)
    OBVIOUS
  <2> QED
    BY ONLY TypeOK, <1>1, <1>7, <1>17, <2>1, SplitTiles
<1>19. PICK q, G, Y : q = Replaced(r, F, b, s) /\ G = {s} /\ Y = X \cup {b}
  <2>1. \E q, G, Y : q = Replaced(r, F, b, s) /\ G = {s} /\ Y = X \cup {b}
    OBVIOUS
  <2> QED
    BY <2>1
<1>20. Chain(mem', head', G, q)
  <2>1. /\ F \subseteq Nat \ {0} /\ b \in F /\ s \notin F /\ s \in Nat \ {0}
        /\ mem'[s + 1] = mem[b + 1] /\ ~(b # head) /\ ~(mem[b + 1] # NULL)
        /\ F \ {b} = {}
    BY <1>3, <1>5, <1>6, <1>7, <1>17, <1>18
  <2>2. \A y \in F \ {b} : /\ (b = head \/ y # mem[b + 2]) => mem'[y + 1] = mem[y + 1]
                           /\ y # head /\ y # mem[b + 1] => mem'[y + 2] = mem[y + 2]
    BY <2>1
  <2>3. Chain(mem', IF b = head THEN s ELSE head, (F \ {b}) \cup {s}, Replaced(r, F, b, s))
    BY ONLY <1>6, <2>1, <2>2, ChainReplace
  <2>4. (F \ {b}) \cup {s} = G /\ (IF b = head THEN s ELSE head) = head'
    BY <1>5, <1>15, <1>19, <2>1
  <2> QED
    BY <1>19, <2>3, <2>4
<1>21. /\ B \cup {s} = G \cup Used(live) \cup Y
       /\ G \cap Used(live) = {} /\ G \cap Y = {} /\ Used(live) \cap Y = {}
  <2>1. b \notin Used(live) /\ Used(live) \cap X = {}
    BY <1>3, <1>4 DEF Shape
  <2>2. s # b /\ s \notin Used(live) /\ s \notin X
    BY <1>3, <1>7, <1>18
  <2> QED
    BY <1>6, <1>7, <1>19, <2>1, <2>2
<1>22. Within(mem, mem', Top, F \cup X)
  <2> SUFFICES ASSUME NEW w \in Words, mem'[w] # mem[w]
               PROVE  \E x \in F \cup X : x <= w /\ w < x + mem[x]
    BY DEF Within
  <2>1. w = b \/ w = s \/ w = s + 1 \/ w = s + 2
    BY <1>16
  <2>2. b <= w /\ w < b + mem[b]
    BY <1>3, <2>1
  <2> QED
    BY <1>3, <2>2
<1>23. \A x \in G : x + mem'[x] # Top /\ \A y \in G : x + mem'[x] # y
  <2>1. s + mem'[s] = b + mem[b]
    BY <1>1, <1>3, <1>17
  <2>2. b + mem[b] # Top
    BY <1>3, <1>4 DEF Idle, NoneLast
  <2>3. b + mem[b] # s
    BY <1>3
  <2> QED
    BY <1>19, <2>1, <2>2, <2>3
<1>24. Tiles(mem', G \cup Used(live) \cup Y, Top)
  BY <1>18, <1>21
<1>25. Idle(G, q, Y)'
  BY ONLY TypeOK, <1>4, <1>15, <1>20, <1>21, <1>22, <1>23, <1>24, KeepsIdle
<1>26. \A h \in Used(live) : mem'[h] = mem[h]
  BY ONLY TypeOK, <1>4, <1>15, <1>20, <1>21, <1>22, <1>23, <1>24, KeepsIdle
<1>27. Requesting'
  BY <1>4, <1>15, <1>26, RequestKept
<1>28. Returning(G, q, X)'
  <2>1. (X \cup {call.block})' = Y /\ call'.block = b /\ call'.total = call.total
    BY <1>1, <1>15, <1>19
  <2>2. b \notin X
    BY <1>3, <1>4 DEF Shape
  <2> QED
    BY <1>17, <1>25, <1>27, <2>1, <2>2 DEF Returning
<1> QED
  BY <1>15, <1>28

\* An inner block is split, to be replaced by its rest (alloc.c:97-117).
LEMMA TakeOtherStep ==
  ASSUME TypeOK, NEW F, NEW r, NEW X, Taking(F, r, X), TakeOther
  PROVE  pc' = "unlink" /\ call'.op = call.op /\ Unlinking(F, r, X)'
<1>1. PICK b, s : b = call.block /\ s = b + call.total
  <2>1. \E b, s : b = call.block /\ s = b + call.total
    OBVIOUS
  <2> QED
    BY <2>1
<1>2. /\ Split \in [Words -> Nat]
      /\ \A w \in Words : Split[w] = IF w = b THEN call.total
                                     ELSE IF w = s THEN mem[b] - call.total
                                     ELSE IF w = s + 1 THEN NULL ELSE mem[w]
  BY <1>1, SplitFacts
<1>3. /\ Subseq = s /\ s \in Nat \ {0} /\ b \in Nat \ {0} /\ b + 3 <= s
      /\ s \in Words /\ s + 1 \in Words /\ s + 2 \in Words /\ s + 3 <= b + mem[b]
      /\ mem[b] \in Nat /\ call.total \in Nat /\ call.total >= 3
      /\ mem[b] >= call.total + 3 /\ SizeOf(b) = mem[b]
      /\ b \in F /\ (b = head <=> mem[b + 1] = NULL)
  BY <1>1, SplitFacts
<1>4. Idle(F, r, X) /\ Break /\ Shape(F, r, X) /\ Requesting
  BY <1>1, SplitFacts
<1>5. b # head /\ mem[b + 1] # NULL
  BY <1>1, <1>3 DEF TakeOther
<1>6. Chain(mem, head, F, r)
  BY <1>4 DEF Shape
<1>7. PICK B : B = F \cup Used(live) \cup X
  OBVIOUS
<1>8. \A h \in B : h \in Words /\ h + 1 \in Words /\ h + 2 \in Words /\ h \in Nat
                   /\ mem[h] \in Nat /\ mem[h] >= 3
  BY <1>4, <1>7, BlockFacts
<1>9. \A h \in B : h # b => h + mem[h] <= b \/ b + mem[b] <= h
  BY <1>3, <1>4, <1>7, BlockFacts
<1>10. /\ mem' = Split /\ pc' = "unlink"
       /\ call' = [call EXCEPT !.temp = head, !.size_diff = mem[b] - call.total]
       /\ UNCHANGED <<head, block_end, available_memory, brk, refused, live>>
  BY <1>1, <1>3 DEF TakeOther
<1>11. /\ call'.op = call.op /\ call'.ptr = call.ptr /\ call'.len = call.len
       /\ call'.total = call.total /\ call'.prev_size = call.prev_size
       /\ call'.block = b /\ call'.temp = head /\ call'.size_diff = mem[b] - call.total
  BY <1>1, <1>10 DEF TypeOK, Locals
<1>12. /\ mem'[b] = call.total /\ mem'[s] = mem[b] - call.total
       /\ \A h \in B : h # b => mem'[h] = mem[h]
  <2>1. b \in Words
    BY <1>3, <1>7, <1>8
  <2>2. mem'[b] = call.total /\ mem'[s] = mem[b] - call.total
    BY <1>2, <1>3, <1>10, <2>1
  <2>3. ASSUME NEW h \in B, h # b
        PROVE  mem'[h] = mem[h]
    <3>1. h \in Words /\ h # s /\ h # s + 1
      BY <1>3, <1>8, <1>9, <2>3
    <3> QED
      BY <1>2, <1>10, <2>3, <3>1
  <2> QED
    BY <2>2, <2>3
<1>13. Tiles(mem', B \cup {s}, Top) /\ s \notin B
  <2>1. Taking(F, r, X)
    OBVIOUS
  <2> QED
    BY ONLY TypeOK, <1>1, <1>7, <1>12, <2>1, SplitTiles
<1>14. \A x \in F : mem'[x + 1] = mem[x + 1] /\ mem'[x + 2] = mem[x + 2]
  <2> TAKE x \in F
  <2>1. x \in B /\ x + 1 \in Words /\ x + 2 \in Words /\ x \in Nat
    BY <1>7, <1>8
  <2>2. x # b => x + mem[x] <= b \/ b + mem[b] <= x
    BY <1>9, <2>1
  <2>3. /\ x + 1 # b /\ x + 1 # s /\ x + 1 # s + 1
        /\ x + 2 # b /\ x + 2 # s /\ x + 2 # s + 1
    BY <1>3, <1>8, <2>1, <2>2
  <2> QED
    BY <1>2, <1>10, <2>1, <2>3
<1>15. Chain(mem', head', F, r)
  <2>1. head' = head
    BY <1>10
  <2> QED
    BY ONLY <1>6, <1>14, <2>1, ChainSame
<1>16. PICK Y : Y = X \cup {s}
  OBVIOUS
<1>17. /\ B \cup {s} = F \cup Used(live) \cup Y
       /\ F \cap Used(live) = {} /\ F \cap Y = {} /\ Used(live) \cap Y = {}
  <2>1. F \cap Used(live) = {} /\ F \cap X = {} /\ Used(live) \cap X = {}
    BY <1>4 DEF Shape
  <2>2. s \notin F /\ s \notin Used(live)
    BY <1>7, <1>13
  <2> QED
    BY <1>7, <1>16, <2>1, <2>2
<1>18. Within(mem, mem', Top, F \cup X)
  <2> SUFFICES ASSUME NEW w \in Words, mem'[w] # mem[w]
               PROVE  \E x \in F \cup X : x <= w /\ w < x + mem[x]
    BY DEF Within
  <2>1. w = b \/ w = s \/ w = s + 1
    BY <1>2, <1>10
  <2>2. b <= w /\ w < b + mem[b]
    BY <1>3, <2>1
  <2> QED
    BY <1>3, <2>2
<1>19. ASSUME NEW x \in F
       PROVE  x + mem'[x] # Top /\ \A y \in F : x + mem'[x] # y
  <2>1. x + mem[x] # Top /\ \A y \in F : x + mem[x] # y
    BY <1>4 DEF Idle, NoneLast, Calm, Apart
  <2>2. CASE x = b
    <3>1. b + mem'[b] = s
      BY <1>1, <1>12
    <3>2. s \notin F
      BY <1>7, <1>13
    <3>3. Top >= b + mem[b] /\ Top \in Int
      BY <1>3, <1>4, BlockFacts
    <3>4. s # Top
      BY <1>3, <3>3
    <3> QED
      BY <2>2, <3>1, <3>2, <3>4
  <2>3. CASE x # b
    <3>1. mem'[x] = mem[x]
      BY <1>7, <1>12, <2>3
    <3> QED
      BY <2>1, <3>1
  <2> QED
    BY <2>2, <2>3
<1>20. Tiles(mem', F \cup Used(live) \cup Y, Top)
  BY <1>13, <1>17
<1>21. Idle(F, r, Y)'
  BY ONLY TypeOK, <1>4, <1>10, <1>15, <1>17, <1>18, <1>19, <1>20, KeepsIdle
<1>22. \A h \in Used(live) : mem'[h] = mem[h]
  BY ONLY TypeOK, <1>4, <1>10, <1>15, <1>17, <1>18, <1>19, <1>20, KeepsIdle
<1>23. Requesting'
  BY <1>4, <1>10, <1>11, <1>22, RequestKept
<1>24. Subseq' = s /\ (X \cup {Subseq})' = Y
  BY <1>1, <1>11, <1>16 DEF Subseq
<1>25. s + mem'[s] = b + mem[b] /\ Top' = Top
  <2>1. s + mem'[s] = b + mem[b]
    BY <1>1, <1>3, <1>12
  <2>2. Top' = Top
    BY <1>10 DEF Top
  <2> QED
    BY <2>1, <2>2
<1>26. b + mem[b] # Top /\ \A x \in F : b + mem[b] # x
  BY <1>3, <1>4 DEF Idle, NoneLast, Calm, Apart
<1>27. head \in F /\ r[head] > r[b]
  <2>1. head \in F /\ r[b] <= r[head] /\ r[b] # r[head] /\ r[b] \in Int /\ r[head] \in Int
    BY <1>3, <1>5, <1>6 DEF Chain
  <2> QED
    BY <2>1
<1>28. mem[b] - call.total > 0 /\ s \notin X
  BY <1>3, <1>7, <1>13
<1>29. b # head' /\ mem'[b + 1] # NULL
  BY <1>3, <1>5, <1>10, <1>14
<1> QED
  BY <1>3, <1>10, <1>11, <1>12, <1>21, <1>23, <1>24, <1>25, <1>26, <1>27, <1>28, <1>29
     DEF Unlinking

\* The rest s of the block b takes its place in the list.
LEMMA UnlinkFoundStep ==
  ASSUME TypeOK, NEW F, NEW r, NEW X, Unlinking(F, r, X), Unlink,
         NextOf(call.temp) = call.block
  PROVE  pc' = "return" /\ call' = call /\ \E G, q : Returning(G, q, X)'
<1>1. PICK b, s, t : b = call.block /\ s = Subseq /\ t = call.temp
  <2>1. \E b, s, t : b = call.block /\ s = Subseq /\ t = call.temp
    OBVIOUS
  <2> QED
    BY <2>1
<1>2. PICK Z : Z = X \cup {s}
  OBVIOUS
<1>3. /\ Idle(F, r, Z) /\ Break /\ Shape(F, r, Z) /\ Requesting
      /\ s \notin X /\ s \in Z /\ s + mem[s] # Top /\ \A x \in F : s + mem[s] # x
      /\ call.size_diff > 0 /\ b \in F /\ mem[b] = call.total
      /\ b # head /\ mem[b + 1] # NULL /\ t \in F
  BY <1>1, <1>2 DEF Unlinking, Idle, Calm
<1>4. Chain(mem, head, F, r)
  BY <1>3 DEF Shape
<1>5. PICK B : B = F \cup Used(live) \cup Z
  OBVIOUS
<1>6. \A h \in B : /\ h \in Words /\ h + 1 \in Words /\ h + 2 \in Words /\ h \in Nat \ {0}
                   /\ mem[h] \in Nat /\ mem[h] >= 3
                   /\ NextOf(h) = mem[h + 1] /\ Read(mem, Next_(h)) = mem[h + 1]
  BY <1>3, <1>5, BlockFacts
<1>7. \A h, k \in B : h # k => /\ h # k + 1 /\ h # k + 2 /\ h + 1 # k + 1
                               /\ h + 1 # k + 2 /\ h + 2 # k + 1 /\ h + 2 # k + 2
  BY <1>3, <1>5, FieldsApart
<1>8. \A h, k \in B : h # k => h + mem[h] <= k \/ k + mem[k] <= h
  BY <1>3, <1>5, BlockFacts
<1>9. F \subseteq B /\ b \in B /\ s \in B /\ t \in B /\ s \notin F /\ s \notin Used(live)
      /\ b \notin Used(live) /\ b \notin Z
  BY <1>3, <1>5 DEF Shape
<1>10. PICK n : n = mem[b + 1]
  OBVIOUS
<1>11. mem[t + 1] = b
  BY <1>1, <1>6, <1>9
<1>12. n \in F /\ n \in B /\ n # head /\ mem[n + 2] = b
  BY <1>3, <1>4, <1>9, <1>10, ChainBack
<1>13. mem[b + 2] = t
  <2>1. mem[t + 1] # NULL
    BY <1>6, <1>9, <1>11 DEF NULL
  <2> QED
    BY <1>3, <1>4, <1>11, <2>1, ChainBack
<1>14. b # s /\ t # s /\ n # s
  BY <1>3, <1>9, <1>12
<1>15. t # b /\ n # b
  <2>1. \A x \in F : mem[x + 1] # NULL => r[mem[x + 1]] = r[x] - 1 /\ r[x] \in Int
    BY <1>4 DEF Chain
  <2>2. r[b] = r[t] - 1 /\ r[t] \in Int
    BY <1>3, <1>6, <1>9, <1>11, <2>1 DEF NULL
  <2>3. r[n] = r[b] - 1 /\ r[b] \in Int
    BY <1>3, <1>10, <2>1
  <2> QED
    BY <2>2, <2>3
<1> DEFINE m1 == Write(mem, s + 1, n)
           m2 == Write(m1, n + 2, s)
           m3 == Write(m2, t + 1, s)
           m4 == Write(m3, s + 2, t)
<1>16. Wrote(mem, m1, s + 1, n)
  BY <1>6, <1>9, <1>12, WriteIn DEF TypeOK
<1>17. Wrote(m1, m2, n + 2, s)
  <2>1. m1 \in [Words -> Nat]
    BY <1>16 DEF Wrote
  <2> HIDE DEF m1
  <2> QED
    BY <1>6, <1>9, <1>12, <2>1, WriteIn
<1>18. Read(m1, Next_(t)) = b /\ Read(m1, Next_(b)) = n
  <2> HIDE DEF m1
  <2>1. t + 1 \in Words /\ b + 1 \in Words /\ t + 1 # s + 1 /\ b + 1 # s + 1
    BY <1>6, <1>7, <1>9, <1>14
  <2>2. m1[t + 1] = b /\ m1[b + 1] = n
    BY <1>10, <1>11, <1>16, <2>1 DEF Wrote
  <2> QED
    BY <2>1, <2>2 DEF Read, Next_
<1> HIDE DEF m1
<1>19. Wrote(m2, m3, t + 1, s)
  <2>1. m2 \in [Words -> Nat]
    BY <1>17 DEF Wrote
  <2> HIDE DEF m2
  <2> QED
    BY <1>6, <1>9, <2>1, WriteIn
<1>20. Wrote(m3, m4, s + 2, t)
  <2>1. m3 \in [Words -> Nat]
    BY <1>19 DEF Wrote
  <2> HIDE DEF m3
  <2> QED
    BY <1>6, <1>9, <2>1, WriteIn
<1>21. /\ mem' = m4 /\ pc' = "return" /\ call' = call
       /\ UNCHANGED <<head, block_end, available_memory, brk, refused, live>>
  <2>1. UnlinkSplit = m4
    <3>1. Write(mem, Next_(Subseq), Read(mem, Next_(call.block))) = m1
      BY <1>1, <1>6, <1>9, <1>10 DEF m1, Next_
    <3>2. Prev_(Read(m1, Next_(Read(m1, Next_(call.temp))))) = n + 2
      BY <1>1, <1>18 DEF Prev_
    <3>3. Next_(call.temp) = t + 1 /\ Prev_(Subseq) = s + 2
      BY <1>1 DEF Next_, Prev_
    <3> DEFINE k1 == Write(mem, Next_(Subseq), Read(mem, Next_(call.block)))
               k2 == Write(k1, Prev_(Read(k1, Next_(Read(k1, Next_(call.temp))))), Subseq)
    <3>4. UnlinkSplit = Write(Write(k2, Next_(call.temp), Subseq), Prev_(Subseq), call.temp)
      BY DEF UnlinkSplit
    <3> HIDE DEF k1
    <3>5. k2 = m2
      BY <1>1, <3>1, <3>2 DEF k1
    <3> HIDE DEF k2, m2
    <3> QED
      BY <1>1, <3>3, <3>4, <3>5
  <2> HIDE DEF m4
  <2> QED
    BY <1>1, <1>3, <2>1 DEF Unlink
<1> HIDE DEF m2, m3, m4
<1>22. \A w \in Words : mem'[w] = IF w = s + 2 THEN t
                                  ELSE IF w = t + 1 THEN s
                                  ELSE IF w = n + 2 THEN s
                                  ELSE IF w = s + 1 THEN n ELSE mem[w]
  BY <1>16, <1>17, <1>19, <1>20, <1>21 DEF Wrote
<1>23. \A h \in B : mem'[h] = mem[h]
  <2> TAKE h \in B
  <2>1. h \in Words /\ h # s + 2 /\ h # t + 1 /\ h # n + 2 /\ h # s + 1
    BY <1>6, <1>7, <1>9, <1>12
  <2> QED
    BY <1>22, <2>1
<1>24. mem'[s + 1] = n /\ mem'[s + 2] = t
  <2>1. s + 1 \in Words /\ s + 2 \in Words /\ s + 1 # s + 2 /\ s + 1 # t + 1 /\ s + 1 # n + 2
    BY <1>6, <1>7, <1>9, <1>12, <1>14
  <2> QED
    BY <1>22, <2>1
<1>25. mem'[t + 1] = s
  <2>1. t + 1 \in Words /\ t + 1 # s + 2
    BY <1>6, <1>7, <1>9, <1>14
  <2> QED
    BY <1>22, <2>1
<1>26. mem'[n + 2] = s
  <2>1. n + 2 \in Words /\ n + 2 # s + 2
    BY <1>6, <1>7, <1>9, <1>12, <1>14
  <2> QED
    BY <1>22, <2>1
<1>27. ASSUME NEW y \in F
       PROVE  /\ y # t => mem'[y + 1] = mem[y + 1]
              /\ y # n => mem'[y + 2] = mem[y + 2]
  <2>1. /\ y \in B /\ y # s /\ y + 1 \in Words /\ y + 2 \in Words
        /\ y + 1 # s + 1 /\ y + 1 # s + 2 /\ y + 2 # s + 1 /\ y + 2 # s + 2
    BY <1>6, <1>7, <1>9
  <2>2. /\ y + 1 # n + 2 /\ y + 2 # t + 1
        /\ y # t => y + 1 # t + 1
        /\ y # n => y + 2 # n + 2
    BY <1>6, <1>7, <1>9, <1>12, <2>1
  <2> QED
    BY <1>22, <2>1, <2>2
<1>28. PICK q, G, Y : q = Replaced(r, F, b, s) /\ G = (F \ {b}) \cup {s} /\ Y = X \cup {b}
  <2>1. \E q, G, Y : q = Replaced(r, F, b, s) /\ G = (F \ {b}) \cup {s} /\ Y = X \cup {b}
    OBVIOUS
  <2> QED
    BY <2>1
<1>29. Chain(mem', head', G, q)
  <2>1. /\ F \subseteq Nat \ {0} /\ b \in F /\ s \notin F /\ s \in Nat \ {0}
        /\ mem'[s + 1] = mem[b + 1]
        /\ b # head => mem'[mem[b + 2] + 1] = s /\ mem'[s + 2] = mem[b + 2]
        /\ mem[b + 1] # NULL => mem'[mem[b + 1] + 2] = s
    BY <1>3, <1>6, <1>9, <1>10, <1>13, <1>24, <1>25, <1>26
  <2>2. \A y \in F \ {b} : /\ (b = head \/ y # mem[b + 2]) => mem'[y + 1] = mem[y + 1]
                           /\ y # head /\ y # mem[b + 1] => mem'[y + 2] = mem[y + 2]
    BY <1>3, <1>10, <1>13, <1>27
  <2>3. Chain(mem', IF b = head THEN s ELSE head, (F \ {b}) \cup {s}, Replaced(r, F, b, s))
    BY ONLY <1>4, <2>1, <2>2, ChainReplace
  <2>4. (F \ {b}) \cup {s} = G /\ (IF b = head THEN s ELSE head) = head'
    BY <1>3, <1>21, <1>28
  <2> QED
    BY <1>28, <2>3, <2>4
<1>30. /\ B = G \cup Used(live) \cup Y
       /\ G \cap Used(live) = {} /\ G \cap Y = {} /\ Used(live) \cap Y = {}
  <2>1. F \cap Used(live) = {} /\ F \cap Z = {} /\ Used(live) \cap Z = {}
    BY <1>3 DEF Shape
  <2> QED
    BY <1>2, <1>3, <1>5, <1>9, <1>14, <1>28, <2>1
<1>31. Tiles(mem', G \cup Used(live) \cup Y, Top)
  <2>1. Tiles(mem, B, Top)
    BY <1>3, <1>5 DEF Shape
  <2>2. Tiles(mem', B, Top)
    BY ONLY <1>23, <2>1, TilesSame
  <2> QED
    BY <1>30, <2>2
<1>32. Within(mem, mem', Top, F \cup Z)
  <2> SUFFICES ASSUME NEW w \in Words, mem'[w] # mem[w]
               PROVE  \E x \in F \cup Z : x <= w /\ w < x + mem[x]
    BY DEF Within
  <2>1. w = s + 2 \/ w = s + 1 \/ w = t + 1 \/ w = n + 2
    BY <1>22
  <2>2. CASE w = s + 2 \/ w = s + 1
    <3>1. s <= w /\ w < s + mem[s]
      BY <1>6, <1>9, <2>2
    <3> QED
      BY <1>3, <3>1
  <2>3. CASE w = t + 1
    <3>1. t <= w /\ w < t + mem[t]
      BY <1>6, <1>9, <2>3
    <3> QED
      BY <1>3, <3>1
  <2>4. CASE w = n + 2
    <3>1. n <= w /\ w < n + mem[n]
      BY <1>6, <1>12, <2>4
    <3> QED
      BY <1>12, <3>1
  <2> QED
    BY <2>1, <2>2, <2>3, <2>4
<1>33. ASSUME NEW x \in G
       PROVE  x + mem'[x] # Top /\ \A y \in G : x + mem'[x] # y
  <2>1. x \in B /\ mem'[x] = mem[x]
    BY <1>23, <1>30
  <2>2. CASE x = s
    <3>1. s + mem[s] # s
      BY <1>6, <1>9
    <3> QED
      BY <1>3, <1>28, <2>1, <2>2, <3>1
  <2>3. CASE x # s
    <3>1. x \in F /\ x # b
      BY <1>3, <1>9, <1>14, <1>28, <2>3
    <3>2. x + mem[x] # Top /\ \A y \in F : x + mem[x] # y
      BY <1>3, <3>1 DEF Idle, NoneLast, Calm, Apart
    <3>3. x + mem[x] # s
      <4>1. s = b + mem[b]
        BY <1>1, <1>3 DEF Subseq
      <4>2. x + mem[x] <= b \/ b + mem[b] <= x
        BY <1>8, <1>9, <2>1, <3>1
      <4> QED
        BY <1>6, <1>9, <2>1, <4>1, <4>2
    <3> QED
      BY <1>28, <2>1, <3>2, <3>3
  <2> QED
    BY <2>2, <2>3
<1>34. Idle(G, q, Y)'
  BY ONLY TypeOK, <1>3, <1>21, <1>29, <1>30, <1>31, <1>32, <1>33, KeepsIdle
<1>35. \A h \in Used(live) : mem'[h] = mem[h]
  BY <1>5, <1>23
<1>36. Requesting'
  BY <1>3, <1>21, <1>35, RequestKept
<1>37. Returning(G, q, X)'
  <2>1. (X \cup {call.block})' = Y /\ call'.block = b /\ call'.total = call.total
    BY <1>1, <1>21, <1>28
  <2>2. b \notin X /\ mem'[b] = call.total
    BY <1>2, <1>3, <1>9, <1>23
  <2> QED
    BY <1>34, <1>36, <2>1, <2>2 DEF Returning
<1> QED
  BY <1>21, <1>37

-----------------------------------------------------------------------------
(***************************************************************************)
(* Growing the heap                                                        *)
(***************************************************************************)
\* sbrk is asked for what is missing, and the block goes where the others end.
LEMMA GrowsBy ==
  ASSUME TypeOK, NEW F, NEW r, NEW X, Growing(F, r, X)
  PROVE  /\ GrowAt = Top /\ CanMove(GrowBy) /\ GrowBy \in Nat
         /\ available_memory + GrowBy - call.total \in Nat
         /\ Moved(GrowBy) = brk + GrowBy /\ brk + GrowBy \in First .. Limit
         /\ Top + call.total <= brk + GrowBy
         /\ call.total \in Nat /\ call.total >= 3
         /\ ~refused /\ Top \in First .. Limit /\ Top \in Nat /\ available_memory \in Nat
         /\ brk = Top + available_memory /\ brk \in Nat
         /\ (block_end # NULL => Top = block_end)
<1>1. /\ Break /\ Shape(F, r, X) /\ Requesting /\ Growable(call.total)
  BY DEF Growing, Idle, Calm
<1>2. /\ call.total \in Nat /\ call.total >= 3
  BY <1>1, RequestTotal
<1>3. /\ ~refused /\ Top \in Nat /\ available_memory \in Nat /\ brk = Top + available_memory
      /\ Top \in First .. Limit /\ brk \in First .. Limit /\ brk \in Nat
      /\ First \in Nat /\ First > 0 /\ Limit \in Nat
      /\ (block_end = NULL => available_memory = 0)
      /\ (block_end # NULL => Top = block_end)
  BY <1>1, ConstantTypes DEF Break, TypeOK, Top
<1>4. PICK cap : cap = Capacity(call.total)
  OBVIOUS
<1>5. cap \in Nat /\ cap >= call.total
  BY <1>2, <1>4, CapacityCovers
<1>6. /\ GrowAt = Top /\ CanMove(GrowBy) /\ GrowBy \in Nat
      /\ available_memory + GrowBy - call.total \in Nat
  <2>1. CASE available_memory >= call.total
    <3>1. available_memory > 0 /\ block_end # NULL
      BY <1>2, <1>3, <2>1
    <3>2. GrowBy = 0 /\ GrowAt = block_end
      BY <1>2, <1>3, <2>1, <3>1 DEF GrowBy, GrowAt
    <3>3. CanMove(0)
      BY <1>1, BreakStays
    <3> QED
      BY <1>2, <1>3, <2>1, <3>1, <3>2, <3>3
  <2>2. CASE available_memory < call.total
    <3>1. CanMove(cap)
      BY <1>1, <1>2, <1>3, <1>4, <2>2 DEF Growable
    <3>2. GrowBy = cap
      BY <1>2, <1>3, <1>4, <2>2 DEF GrowBy
    <3>3. GrowAt = Top
      <4>1. CASE available_memory > 0
        BY <1>3, <4>1 DEF GrowAt
      <4>2. CASE available_memory = 0
        BY <1>3, <1>4, <3>1, <4>2 DEF GrowAt
      <4> QED
        BY <1>3, <4>1, <4>2
    <3> QED
      BY <1>2, <1>3, <1>5, <3>1, <3>2, <3>3
  <2> QED
    BY <1>2, <1>3, <2>1, <2>2
<1>7. Moved(GrowBy) = brk + GrowBy /\ brk + GrowBy \in First .. Limit
  BY <1>6 DEF Moved, CanMove
<1>8. Top + call.total <= brk + GrowBy
  BY <1>2, <1>3, <1>6
<1> QED
  BY <1>2, <1>3, <1>6, <1>7, <1>8

\* What growing the heap does.
LEMMA GrowFacts ==
  ASSUME TypeOK, NEW F, NEW r, NEW X, Growing(F, r, X), Grow
  PROVE  /\ GrowAt = Top
         /\ mem' = Write(mem, Top, call.total)
         /\ block_end' = Top + call.total
         /\ available_memory' \in Nat
         /\ brk' \in First .. Limit
         /\ brk' = Top + call.total + available_memory'
         /\ refused' = refused
         /\ call' = [call EXCEPT !.block = Top]
         /\ pc' = "return" /\ UNCHANGED <<head, live>>
<1>1. /\ GrowAt = Top /\ CanMove(GrowBy) /\ GrowBy \in Nat
      /\ available_memory + GrowBy - call.total \in Nat
      /\ Moved(GrowBy) = brk + GrowBy /\ brk + GrowBy \in First .. Limit
      /\ call.total \in Nat
      /\ ~refused /\ Top \in Nat /\ available_memory \in Nat
      /\ brk = Top + available_memory /\ brk \in Nat
      /\ (block_end # NULL => Top = block_end)
  BY GrowsBy
<1>2. /\ pc = "grow" /\ Sbrk(GrowBy)
      /\ block_end' = (IF block_end # NULL THEN block_end ELSE GrowAt) + call.total
      /\ available_memory' = available_memory + GrowBy - call.total
      /\ mem' = Write(mem, GrowAt, call.total)
      /\ call' = [call EXCEPT !.block = GrowAt]
      /\ pc' = "return" /\ UNCHANGED <<head, live>>
  BY DEF Grow
<1>3. block_end' = Top + call.total
  BY <1>1, <1>2
<1>4. brk' = brk + GrowBy /\ refused' = refused
  <2>1. refused \in BOOLEAN /\ refused' = (refused \/ ~CanMove(GrowBy)) /\ brk' = Moved(GrowBy)
    BY <1>2 DEF Sbrk, TypeOK
  <2>2. refused' = refused
    BY <1>1, <2>1
  <2> QED
    BY <1>1, <2>1, <2>2
<1>5. brk' = Top + call.total + available_memory'
  BY <1>1, <1>2, <1>4
<1> QED
  BY <1>1, <1>2, <1>3, <1>4, <1>5

\* The new block is the one handed out (alloc.c:53-91).
LEMMA GrowStep ==
  ASSUME TypeOK, NEW F, NEW r, NEW X, Growing(F, r, X), Grow
  PROVE  pc' = "return" /\ call'.op = call.op /\ Returning(F, r, X)'
<1>1. PICK e, t : e = Top /\ t = call.total
  <2>1. \E e, t : e = Top /\ t = call.total
    OBVIOUS
  <2> QED
    BY <2>1
<1>2. /\ Idle(F, r, X) /\ Break /\ Shape(F, r, X) /\ Requesting /\ Apart(F) /\ NoneLast(F)
      /\ Filled(mem, live)
  BY DEF Growing, Idle, Calm
<1>3. t \in Nat /\ t >= 3
  BY <1>1, <1>2, RequestTotal
<1>4. /\ mem' = Write(mem, e, t) /\ block_end' = e + t
      /\ available_memory' \in Nat /\ brk' \in First .. Limit
      /\ brk' = e + t + available_memory' /\ refused' = refused
      /\ call' = [call EXCEPT !.block = e]
      /\ pc' = "return" /\ UNCHANGED <<head, live>>
  BY <1>1, GrowFacts
<1>5. /\ e \in First .. Limit /\ e \in Nat /\ First \in Nat /\ First > 0 /\ Limit \in Nat /\ e >= First
  BY <1>1, <1>2, ConstantTypes DEF Break
<1>6. e \in Words
  BY <1>3, <1>4, <1>5 DEF Words
<1>7. Wrote(mem, mem', e, t)
  BY <1>3, <1>4, <1>6, WriteIn DEF TypeOK
<1>8. PICK B : B = F \cup Used(live) \cup X
  OBVIOUS
<1>9. \A h \in B : /\ h \in Words /\ h + 1 \in Words /\ h + 2 \in Words /\ h \in Nat
                   /\ mem[h] \in Nat /\ mem[h] >= 3 /\ h + mem[h] <= e
  BY <1>1, <1>2, <1>8, BlockFacts
<1>10. \A h \in B : mem'[h] = mem[h] /\ mem'[h + 1] = mem[h + 1] /\ mem'[h + 2] = mem[h + 2]
  <2> TAKE h \in B
  <2>1. /\ h \in Words /\ h + 1 \in Words /\ h + 2 \in Words
        /\ h # e /\ h + 1 # e /\ h + 2 # e
    BY <1>5, <1>9
  <2> QED
    BY <1>7, <2>1 DEF Wrote
<1>11. mem'[e] = t
  BY <1>6, <1>7 DEF Wrote
<1>12. Tiles(mem', B \cup {e}, e + t) /\ e \notin B
  <2>1. Tiles(mem, B, e)
    BY <1>1, <1>2, <1>8 DEF Shape
  <2>2. \A h \in B : mem'[h] = mem[h]
    BY <1>10
  <2> QED
    BY ONLY <1>3, <1>5, <1>11, <2>1, <2>2, TilesGrow
<1>13. PICK Y : Y = X \cup {e}
  OBVIOUS
<1>14. Chain(mem', head', F, r)
  <2>1. Chain(mem, head, F, r) /\ head' = head
    BY <1>2, <1>4 DEF Shape
  <2>2. \A x \in F : mem'[x + 1] = mem[x + 1] /\ (x # head => mem'[x + 2] = mem[x + 2])
    BY <1>8, <1>10
  <2> QED
    BY ONLY <2>1, <2>2, ChainSame
<1>15. Holds(mem', live) /\ Filled(mem', live)
  <2>1. /\ mem \in [Words -> Nat] /\ live \in SUBSET [at : Nat \ {0}, len : Nat]
        /\ Holds(mem, live) /\ Tiles(mem, B, e)
    BY <1>1, <1>2, <1>8 DEF TypeOK, Shape
  <2>2. PICK Z : Z = {}
    OBVIOUS
  <2>3. Z \in SUBSET B /\ Used(live) \subseteq B \ Z /\ live \in SUBSET live
    BY <1>8, <2>2
  <2>4. Within(mem, mem', e, Z)
    <3> SUFFICES ASSUME NEW w \in Words, w < e, mem'[w] # mem[w] PROVE FALSE
      BY DEF Within
    <3>1. w # e
      BY <1>5, ConstantTypes
    <3> QED
      BY <1>7, <3>1 DEF Wrote
  <2>5. Holds(mem', live)
    BY ONLY <1>5, <2>1, <2>3, <2>4, LiveKept
  <2>6. Filled(mem', live)
    BY ONLY <1>2, <1>5, <2>1, <2>3, <2>4, LiveKept
  <2> QED
    BY <2>5, <2>6
<1>16. /\ B \cup {e} = F \cup Used(live) \cup Y
       /\ F \cap Used(live) = {} /\ F \cap Y = {} /\ Used(live) \cap Y = {} /\ e \notin X
  <2>1. F \cap Used(live) = {} /\ F \cap X = {} /\ Used(live) \cap X = {}
    BY <1>2 DEF Shape
  <2> QED
    BY <1>8, <1>12, <1>13, <2>1
<1>17. Top' = e + t /\ e + t \in First .. Limit
  <2>1. e + t # NULL
    BY <1>3, <1>5 DEF NULL
  <2> QED
    BY <1>3, <1>4, <1>5, <2>1 DEF Top
<1>18. Shape(F, r, Y)'
  BY <1>4, <1>12, <1>14, <1>15, <1>16, <1>17 DEF Shape
<1>19. Break'
  <2>1. block_end' # NULL
    BY <1>3, <1>4, <1>5 DEF NULL
  <2> QED
    BY <1>2, <1>4, <1>17, <2>1 DEF Break
<1>20. Apart(F)' /\ NoneLast(F)'
  <2>1. \A x \in F : mem'[x] = mem[x] /\ x + mem[x] # e + t
    BY <1>3, <1>5, <1>8, <1>9, <1>10
  <2> QED
    BY <1>2, <1>17, <2>1 DEF Apart, NoneLast
<1>21. Idle(F, r, Y)'
  BY <1>4, <1>15, <1>18, <1>19, <1>20 DEF Idle, Calm
<1>22. /\ call'.op = call.op /\ call'.ptr = call.ptr /\ call'.len = call.len
       /\ call'.total = call.total /\ call'.prev_size = call.prev_size /\ call'.block = e
  BY <1>4 DEF TypeOK, Locals
<1>23. Requesting'
  <2>1. CASE call.op \in {"malloc", "calloc"}
    BY <1>2, <1>22, <2>1 DEF Requesting
  <2>2. CASE call.op = "realloc"
    <3>1. PICK b \in live : b.at = call.ptr
      BY <1>2, <2>2 DEF Requesting
    <3>2. PICK h : h = call.ptr - Header
      OBVIOUS
    <3>3. h \in B /\ mem'[h] = mem[h]
      BY <1>8, <1>10, <3>1, <3>2 DEF Used
    <3>4. call.prev_size = mem[h]
      BY <1>2, <2>2, <3>2 DEF Requesting
    <3>5. h + mem[h] <= LastMapped(brk')
      <4>1. brk' \in Nat /\ brk' > 0
        BY <1>4, <1>5
      <4>2. LastMapped(brk') \in Nat /\ LastMapped(brk') >= brk' - 1
        BY <4>1, MappedBelow
      <4> QED
        BY <1>3, <1>4, <1>5, <1>9, <3>3, <4>1, <4>2
    <3> QED
      BY <1>2, <1>4, <1>22, <2>2, <3>1, <3>2, <3>3, <3>4, <3>5 DEF Requesting
  <2> QED
    BY <1>2, <2>1, <2>2 DEF Requesting
<1>24. Returning(F, r, X)'
  <2>1. (X \cup {call.block})' = Y
    BY <1>13, <1>22
  <2> QED
    BY <1>1, <1>11, <1>16, <1>21, <1>22, <1>23, <2>1 DEF Returning
<1> QED
  BY <1>4, <1>22, <1>24
=============================================================================
